--------------------------- MODULE TrashBinProofs ---------------------------
(***************************************************************************)
(* Proofs about TrashBin, for any items, requests, bounds and faults.      *)
(*                                                                         *)
(* NoFileWithoutRow: as long as the lock map never fills up, a file in     *)
(* .trash has its row.  The mutex of an entry is one and the same for all  *)
(* who ask for it (LockMap), so that the rows of which two requests hold   *)
(* the mutexes are disjoint (OneHolder), what a request has emptied stays  *)
(* empty until it is done, and a restore that moved its file finds its row *)
(* when it has to move it back (Good).                                     *)
(*                                                                         *)
(* RestoresReplaceNothing needs no mutex: it rests on the paths on which   *)
(* restores work (Apart, FreeTarget).                                      *)
(*                                                                         *)
(* The others need no bound on the lock map.  RequestInv says what holds   *)
(* of each request by itself: the mutexes it has are of smaller rows than  *)
(* those it still asks for (NobodyWaitsForEver).  DriveInv adds the drive  *)
(* and its rows (RowsDescribeDrive, with Gone EmptiedRowsAreHeld), and     *)
(* MoneyInv what a restore has measured, and used_mb (QuotaCoversFiles,    *)
(* RestingUseIsExact, TypeCorrect).                                        *)
(***************************************************************************)
EXTENDS TrashBin, Sums, TLAPS

\* The rows of which a request holds the mutexes, by what it is about to do.
Owned(s) ==
  LET r == req[s] IN
  IF r.pc \in {"locked", "checked", "moved"} THEN r.rows
  ELSE IF r.pc \in {"remove", "forget"}
    THEN IF r.op = "clear" THEN r.rows ELSE NextRow(r.todo)
  ELSE IF r.pc \in {"ask", "wait"} /\ r.op = "clear" THEN r.rows \ r.todo
  ELSE {}

\* The rows among them whose file it has taken out of .trash.
Emptied(s) ==
  LET r == req[s] IN
  IF r.pc = "moved" THEN r.rows
  ELSE IF r.pc = "forget" THEN IF r.op = "clear" THEN r.rows ELSE NextRow(r.todo)
  ELSE IF r.pc = "remove" /\ r.op = "clear" THEN r.rows \ r.todo
  ELSE {}

Fields == {"pc", "op", "path", "rows", "todo", "want", "held", "charge"}

Shape ==
  /\ req = [s \in Slots |-> req[s]]
  /\ \A s \in Slots : req[s] # None => DOMAIN req[s] = Fields

Ids ==
  /\ nextId \in Nat \ {0}
  /\ DOMAIN trash \subseteq Rows
  /\ \A id \in DOMAIN trash : id < nextId

LockMap ==
  /\ DOMAIN locks \subseteq Rows
  /\ \A id \in DOMAIN locks : \E n \in Nat : locks[id] = <<id, n>>

OneHolder ==
  \A s, t \in Slots : s # t /\ req[s] # None /\ req[t] # None =>
    req[s].held \cap req[t].held = {}

\* What a request in flight may rely on.
Good(s) ==
  req[s] # None =>
    /\ req[s].rows \subseteq Rows /\ req[s].todo \subseteq req[s].rows
    /\ \A id \in req[s].rows : id < nextId
    /\ req[s].op = "restore" => \E id \in Rows : req[s].rows = {id}
    /\ req[s].pc \in {"locked", "checked", "moved"} => req[s].op = "restore"
    /\ \A m \in req[s].held : \E id \in DOMAIN locks : m = locks[id]
    /\ req[s].pc # "wait" => req[s].want = None
    /\ req[s].pc = "wait" =>
         \E id \in NextRow(req[s].todo) : id \in DOMAIN locks /\ req[s].want = locks[id]
    /\ \A id \in Owned(s) : id \in DOMAIN locks /\ locks[id] \in req[s].held
    /\ Emptied(s) \cap DOMAIN bin = {}
    /\ req[s].pc = "moved" => req[s].rows \subseteq DOMAIN trash

ListInv ==
  Shape /\ Ids /\ LockMap /\ OneHolder /\ BinIsListed /\ \A s \in Slots : Good(s)

------------------------------------------------------------------------------
(* Functions with one more or fewer entries, rows in order                 *)

LEMMA PutFacts ==
  ASSUME NEW f, NEW k, NEW v
  PROVE  /\ DOMAIN Put(f, k, v) = DOMAIN f \cup {k}
         /\ Put(f, k, v)[k] = v
         /\ \A i \in DOMAIN f \ {k} : Put(f, k, v)[i] = f[i]
  BY DEF Put

LEMMA DropFacts ==
  ASSUME NEW f, NEW K
  PROVE  /\ DOMAIN Drop(f, K) = DOMAIN f \ K
         /\ \A i \in DOMAIN f \ K : Drop(f, K)[i] = f[i]
  BY DEF Drop, Restrict

LEMMA OneNextRow ==
  ASSUME NEW rows \in SUBSET Rows, NEW id \in NextRow(rows)
  PROVE  NextRow(rows) = {id} /\ id \in rows
<1>1. id \in rows /\ \A other \in rows : id <= other
  BY DEF NextRow
<1>2. rows \subseteq Nat
  BY TrashAssumption DEF Rows
<1>3. \A other \in NextRow(rows) : other \in rows /\ other <= id
  BY <1>1 DEF NextRow
<1>4. \A other \in NextRow(rows) : other = id
  BY <1>1, <1>2, <1>3
<1> QED BY <1>1, <1>4

LEMMA EmptiedIsOwned ==
  ASSUME NEW s \in Slots
  PROVE  Emptied(s) \subseteq Owned(s)
  BY DEF Emptied, Owned

\* Two requests never hold the mutex of one row.
LEMMA OwnedApart ==
  ASSUME ListInv, NEW s \in Slots, NEW t \in Slots, s # t,
         req[s] # None, req[t] # None
  PROVE  Owned(s) \cap Owned(t) = {}
<1> SUFFICES ASSUME NEW id \in Owned(s), id \in Owned(t) PROVE FALSE
  OBVIOUS
<1>1. Good(s) /\ Good(t) /\ OneHolder
  BY DEF ListInv
<1>2. locks[id] \in req[s].held
  BY <1>1 DEF Good
<1>3. locks[id] \in req[t].held
  BY <1>1 DEF Good
<1> QED BY <1>1, <1>2, <1>3 DEF OneHolder

\* A step of one request leaves the others as they are, if the mutexes stay and
\* no row that another one owns loses its entry or gets a file.
LEMMA OthersStayGood ==
  ASSUME ListInv, NEW s \in Slots,
         \A t \in Slots \ {s} : req'[t] = req[t],
         nextId' \in Nat, nextId <= nextId',
         DOMAIN locks \subseteq DOMAIN locks',
         \A id \in DOMAIN locks : locks'[id] = locks[id],
         \A t \in Slots \ {s} : req[t] # None =>
           \A id \in Owned(t) : /\ id \in DOMAIN bin' => id \in DOMAIN bin
                                /\ id \in DOMAIN trash => id \in DOMAIN trash'
  PROVE  \A t \in Slots \ {s} : Good(t)'
<1> SUFFICES ASSUME NEW t \in Slots \ {s}, req[t] # None PROVE Good(t)'
  BY DEF Good
<1>1. Good(t) /\ nextId \in Nat
  BY DEF ListInv, Ids
<1>2. req'[t] = req[t] /\ Owned(t)' = Owned(t) /\ Emptied(t)' = Emptied(t)
  BY DEF Owned, Emptied
<1>3. Emptied(t) \cap DOMAIN bin' = {}
  BY <1>1, EmptiedIsOwned DEF Good
<1>4. req[t].pc = "moved" => req[t].rows \subseteq DOMAIN trash'
  BY <1>1 DEF Good, Owned
<1>5. \A id \in req[t].rows : id < nextId'
  BY <1>1, TrashAssumption DEF Good, Rows
<1>6. \A m \in req[t].held : \E id \in DOMAIN locks' : m = locks'[id]
  BY <1>1 DEF Good
<1>7. req[t].pc = "wait" =>
        \E id \in NextRow(req[t].todo) : id \in DOMAIN locks' /\ req[t].want = locks'[id]
  BY <1>1 DEF Good
<1>8. \A id \in Owned(t) : id \in DOMAIN locks' /\ locks'[id] \in req[t].held
  BY <1>1 DEF Good
<1> QED BY <1>1, <1>2, <1>3, <1>4, <1>5, <1>6, <1>7, <1>8 DEF Good

\* So it keeps the invariant, if it does so for itself.
LEMMA OneStep ==
  ASSUME ListInv, NEW s \in Slots,
         Shape', Ids', LockMap', BinIsListed', Good(s)',
         \A t \in Slots \ {s} : req'[t] = req[t],
         nextId <= nextId',
         DOMAIN locks \subseteq DOMAIN locks',
         \A id \in DOMAIN locks : locks'[id] = locks[id],
         \A t \in Slots \ {s} : req[t] # None =>
           \A id \in Owned(t) : /\ id \in DOMAIN bin' => id \in DOMAIN bin
                                /\ id \in DOMAIN trash => id \in DOMAIN trash',
         req'[s] # None => \A m \in req'[s].held : Unlocked(s, m)
  PROVE  ListInv'
<1>1. \A t \in Slots \ {s} : Good(t)'
  BY OthersStayGood DEF Ids
<1>2. OneHolder'
  <2> SUFFICES ASSUME NEW t \in Slots, NEW u \in Slots, t # u,
                      req'[t] # None, req'[u] # None,
                      NEW m \in req'[t].held, m \in req'[u].held
               PROVE  FALSE
    BY DEF OneHolder
  <2>1. CASE t = s
    BY <2>1 DEF Unlocked
  <2>2. CASE u = s
    BY <2>2 DEF Unlocked
  <2>3. CASE t # s /\ u # s
    BY <2>3 DEF OneHolder, ListInv
  <2> QED BY <2>1, <2>2, <2>3
<1> QED BY <1>1, <1>2 DEF ListInv

\* The mutexes a request holds are closed to the others.
LEMMA HeldIsLocked ==
  ASSUME ListInv, NEW s \in Slots, req[s] # None
  PROVE  \A m \in req[s].held : Unlocked(s, m)
  BY DEF ListInv, OneHolder, Unlocked

\* A request that ends.
LEMMA EndStep ==
  ASSUME ListInv, NEW s \in Slots, Done(s),
         UNCHANGED <<nextId, locks>>,
         BinIsListed', DOMAIN trash' \subseteq DOMAIN trash,
         \A t \in Slots \ {s} : req[t] # None =>
           \A id \in Owned(t) : /\ id \in DOMAIN bin' => id \in DOMAIN bin
                                /\ id \in DOMAIN trash => id \in DOMAIN trash'
  PROVE  ListInv'
<1>1. /\ \A t \in Slots \ {s} : req'[t] = req[t]
      /\ req'[s] = None
      /\ Shape'
  BY DEF Done, ListInv, Shape
<1>2. Ids' /\ LockMap' /\ nextId <= nextId'
  BY DEF ListInv, Ids, LockMap
<1>3. Good(s)'
  BY <1>1 DEF Good
<1> QED BY <1>1, <1>2, <1>3, OneStep

\* A request of which only the fields that change are given.
LEMMA FieldStep ==
  ASSUME ListInv, NEW s \in Slots, req[s] # None,
         req' = [req EXCEPT ![s] = req'[s]], DOMAIN req'[s] = Fields
  PROVE  Shape' /\ \A t \in Slots \ {s} : req'[t] = req[t]
  BY DEF ListInv, Shape

------------------------------------------------------------------------------
(* Uploads, deletes and the SELECTs of a request                           *)

LEMMA CreateKeeps ==
  ASSUME ListInv, NEW i \in Items, Create(i)
  PROVE  ListInv'
<1>1. UNCHANGED <<bin, trash, nextId, locks, req>>
  BY DEF Create
<1>2. \A s \in Slots : Good(s)'
  BY <1>1 DEF ListInv, Good, Owned, Emptied
<1> QED BY <1>1, <1>2 DEF ListInv, Shape, Ids, LockMap, OneHolder, BinIsListed

\* What a request has when it starts; it holds no mutex yet.
LEMMA StartedIsGood ==
  ASSUME ListInv, NEW s \in Slots, NEW pc \in {"ask", "recount"}, NEW op, NEW path,
         NEW rows \in SUBSET Rows,
         Start(s, pc, op, rows, path),
         \A id \in rows : id < nextId',
         op = "restore" => \E id \in Rows : rows = {id}
  PROVE  /\ Good(s)' /\ Shape'
         /\ \A t \in Slots \ {s} : req'[t] = req[t]
         /\ req'[s].held = {}
<1>1. req'[s] = [pc |-> pc, op |-> op, path |-> path, rows |-> rows, todo |-> rows,
                 want |-> None, held |-> {}, charge |-> 0]
  BY DEF Start, ListInv, Shape
<1>2. Shape' /\ \A t \in Slots \ {s} : req'[t] = req[t]
  BY <1>1 DEF Start, ListInv, Shape, Fields
<1>3. Owned(s)' = {} /\ Emptied(s)' = {}
  BY <1>1 DEF Owned, Emptied
<1>4. Good(s)'
  BY <1>1, <1>3 DEF Good
<1> QED BY <1>1, <1>2, <1>4

LEMMA DeleteKeeps ==
  ASSUME ListInv, NEW s \in Slots, NEW path \in Paths, Delete(s, path)
  PROVE  ListInv'
<1>1. nextId \in Rows /\ nextId' = nextId + 1 /\ nextId \in Nat /\ Rows \subseteq Nat
  BY TrashAssumption DEF Delete, ListInv, Ids, Rows
<1>2. DOMAIN bin' = DOMAIN bin \cup {nextId} /\ DOMAIN trash' = DOMAIN trash \cup {nextId}
  BY PutFacts DEF Delete
<1>3. Good(s)' /\ Shape' /\ req'[s].held = {} /\ \A t \in Slots \ {s} : req'[t] = req[t]
  BY StartedIsGood DEF Delete
<1>4. Ids'
  <2>1. DOMAIN trash \subseteq Rows /\ \A id \in DOMAIN trash : id < nextId
    BY DEF ListInv, Ids
  <2>2. DOMAIN trash' \subseteq Rows
    BY <1>1, <1>2, <2>1
  <2>3. \A id \in Rows : id < nextId => id < nextId + 1
    BY <1>1
  <2>4. nextId < nextId + 1
    BY <1>1
  <2>5. \A id \in DOMAIN trash' : id < nextId'
    BY <1>1, <1>2, <2>1, <2>3, <2>4
  <2> QED BY <1>1, <2>2, <2>5 DEF Ids
<1>5. LockMap' /\ UNCHANGED locks
  BY DEF Delete, ListInv, LockMap
<1>6. BinIsListed'
  BY <1>2 DEF BinIsListed, ListInv
<1>7. \A t \in Slots \ {s} : req[t] # None => nextId \notin Owned(t)
  BY <1>1 DEF ListInv, Good, Owned, NextRow
<1> QED BY <1>1, <1>2, <1>3, <1>4, <1>5, <1>6, <1>7, OneStep

LEMMA StartKeeps ==
  ASSUME ListInv, NEW s \in Slots,
         \/ \E path \in Paths : DeleteRow(s, path)
         \/ \E id \in Rows, op \in {"restore", "purge"} : ReadRow(s, op, id)
         \/ ReadAll(s)
         \/ \E id \in Rows : ReadExpired(s, id)
  PROVE  ListInv'
<1>1. UNCHANGED <<bin, trash, nextId, locks>>
  BY DEF DeleteRow, ReadRow, ReadAll, ReadExpired
<1>2. DOMAIN trash \subseteq Rows /\ \A id \in DOMAIN trash : id < nextId
  BY DEF ListInv, Ids
<1>3. Good(s)' /\ Shape' /\ req'[s].held = {} /\ \A t \in Slots \ {s} : req'[t] = req[t]
  <2>1. CASE \E path \in Paths : DeleteRow(s, path)
    BY <2>1, StartedIsGood DEF DeleteRow
  <2>2. ASSUME NEW id \in Rows, NEW op \in {"restore", "purge"}, ReadRow(s, op, id)
        PROVE  <1>3!:
    BY <1>1, <1>2, <2>2, StartedIsGood DEF ReadRow
  <2>3. CASE ReadAll(s)
    BY <1>1, <1>2, <2>3, StartedIsGood DEF ReadAll
  <2>4. ASSUME NEW id \in Rows, ReadExpired(s, id)
        PROVE  <1>3!:
    <3>1. Start(s, "ask", "expire", DOMAIN trash \cap 1..id, None)
      BY <2>4 DEF ReadExpired
    <3>2. DOMAIN trash \cap 1..id \in SUBSET Rows
      BY <1>2
    <3> QED BY <1>1, <1>2, <3>1, <3>2, StartedIsGood
  <2> QED BY <2>1, <2>2, <2>3, <2>4
<1>4. Ids' /\ LockMap' /\ BinIsListed' /\ nextId <= nextId'
  BY <1>1 DEF ListInv, Ids, LockMap, BinIsListed
<1> QED BY <1>1, <1>3, <1>4, OneStep

LEMMA RecountKeeps ==
  ASSUME ListInv, NEW s \in Slots,
         \/ Recount(s) \/ RestoreConflict(s) \/ RestoreGone(s) \/ ForgetFails(s)
         \/ Disconnect(s)
  PROVE  ListInv'
<1>1. Done(s) /\ UNCHANGED <<bin, trash, nextId, locks>>
  BY DEF Recount, RestoreConflict, RestoreGone, ForgetFails, Disconnect
<1> QED BY <1>1, EndStep DEF ListInv, BinIsListed

------------------------------------------------------------------------------
(* The mutexes                                                             *)

\* The map never holds as many mutexes as there may be.
LEMMA MapHasRoom ==
  ASSUME LockMap, MaxRows < MaxLocks
  PROVE  ~(Cardinality(DOMAIN locks) >= MaxLocks)
<1>1. MaxRows \in Nat /\ MaxLocks \in Nat
  BY TrashAssumption
<1>2. IsFiniteSet(Rows) /\ Cardinality(Rows) = MaxRows
  BY <1>1, FS_Interval DEF Rows
<1>3. Cardinality(DOMAIN locks) \in Nat /\ Cardinality(DOMAIN locks) <= MaxRows
  BY <1>2, FS_Subset, FS_CardinalityType DEF LockMap
<1> QED BY <1>1, <1>3

\* The mutex of a row that is not in the map is a pair of that row.
LEMMA FreshMutex ==
  ASSUME ListInv, NEW id \in Rows \ DOMAIN locks
  PROVE  \E n \in Nat : Fresh(id) = <<id, n>>
<1> DEFINE Candidates == {<<id, n>> : n \in 0..2 * Cardinality(Slots)}
<1>1. Cardinality(Slots) \in Nat
  BY TrashAssumption, FS_CardinalityType
<1>2. <<id, 0>> \in Candidates
  BY <1>1
<1>3. \A other \in DOMAIN locks : <<id, 0>> # locks[other]
  BY DEF ListInv, LockMap
<1>4. <<id, 0>> # None
  BY TrashAssumption
<1>5. \A s \in Slots : req[s] # None => <<id, 0>> # req[s].want /\ <<id, 0>> \notin req[s].held
  BY <1>3, <1>4 DEF ListInv, Good
<1>6. Fresh(id) \in Candidates
  BY <1>2, <1>5 DEF Fresh
<1> QED BY <1>6

LEMMA AskKeeps ==
  ASSUME ListInv, MaxRows < MaxLocks, NEW s \in Slots, NEW id \in Rows, Ask(s, id)
  PROVE  ListInv'
<1> DEFINE m == IF id \in DOMAIN locks THEN locks[id] ELSE Fresh(id)
<1>0. LockMap /\ Good(s) /\ Ids
  BY DEF ListInv
<1>1. /\ locks' = Put(locks, id, m)
      /\ req' = [req EXCEPT ![s].pc = "wait", ![s].want = m]
      /\ UNCHANGED <<bin, trash, nextId>>
      /\ At(s, "ask") /\ id \in NextRow(req[s].todo)
  BY <1>0, MapHasRoom DEF Ask
<1>2. \E n \in Nat : m = <<id, n>>
  BY <1>0, FreshMutex DEF LockMap
<1>3. /\ DOMAIN locks' = DOMAIN locks \cup {id}
      /\ locks'[id] = m
      /\ \A other \in DOMAIN locks : locks'[other] = locks[other]
  <2>1. /\ DOMAIN Put(locks, id, m) = DOMAIN locks \cup {id}
        /\ Put(locks, id, m)[id] = m
        /\ \A i \in DOMAIN locks \ {id} : Put(locks, id, m)[i] = locks[i]
    <3> HIDE DEF m
    <3> QED BY DEF Put
  <2> QED BY <1>1, <2>1
<1>4. LockMap'
  BY <1>0, <1>2, <1>3 DEF LockMap
<1>5. /\ req'[s] = [req[s] EXCEPT !.pc = "wait", !.want = m]
      /\ DOMAIN req[s] = Fields /\ req[s] # None /\ req[s].pc = "ask"
  BY <1>1 DEF ListInv, Shape, At
<1>6. Shape' /\ \A t \in Slots \ {s} : req'[t] = req[t]
  BY <1>1, <1>5, FieldStep DEF ListInv, Shape
<1>7. /\ req'[s].pc = "wait" /\ req'[s].want = m
      /\ req'[s].op = req[s].op /\ req'[s].rows = req[s].rows
      /\ req'[s].todo = req[s].todo /\ req'[s].held = req[s].held
  BY <1>5 DEF Fields
<1>8. Owned(s)' = Owned(s) /\ Emptied(s)' = {}
  BY <1>5, <1>7 DEF Owned, Emptied
<1>9. Good(s)'
  <2>1. \A x \in req[s].held : \E other \in DOMAIN locks' : x = locks'[other]
    BY <1>0, <1>3, <1>5 DEF Good
  <2>2. \A other \in Owned(s) : other \in DOMAIN locks' /\ locks'[other] \in req[s].held
    BY <1>0, <1>3, <1>5 DEF Good
  <2>3. id \in NextRow(req'[s].todo) /\ id \in DOMAIN locks' /\ req'[s].want = locks'[id]
    BY <1>1, <1>3, <1>7
  <2>4. /\ req[s].rows \subseteq Rows /\ req[s].todo \subseteq req[s].rows
        /\ \A other \in req[s].rows : other < nextId'
        /\ req[s].op = "restore" => \E other \in Rows : req[s].rows = {other}
    BY <1>0, <1>1, <1>5 DEF Good
  <2> QED BY <1>7, <1>8, <2>1, <2>2, <2>3, <2>4 DEF Good
<1>10. Ids' /\ BinIsListed' /\ nextId <= nextId'
  BY <1>1 DEF ListInv, Ids, BinIsListed
<1>11. req'[s] # None => \A x \in req'[s].held : Unlocked(s, x)
  BY <1>5, <1>7, HeldIsLocked
<1> QED BY <1>1, <1>3, <1>4, <1>6, <1>9, <1>10, <1>11, OneStep

LEMMA AcquireKeeps ==
  ASSUME ListInv, NEW s \in Slots, Acquire(s)
  PROVE  ListInv'
<1> DEFINE r == req[s]
           w == req'[s]
<1>0. LockMap /\ Good(s) /\ Ids /\ Shape
  BY DEF ListInv
<1>1. /\ r # None /\ r.pc = "wait" /\ DOMAIN r = Fields
      /\ Unlocked(s, r.want)
      /\ UNCHANGED <<bin, trash, nextId, locks>>
  BY <1>0 DEF Acquire, At, Shape
<1>2. PICK id \in NextRow(r.todo) : id \in DOMAIN locks /\ r.want = locks[id]
  BY <1>0, <1>1 DEF Good
<1>3. r.want[1] = id
  BY <1>0, <1>2 DEF LockMap
<1>4. NextRow(r.todo) = {id} /\ id \in r.todo
  BY <1>0, <1>1, <1>2, OneNextRow DEF Good
<1>5. /\ DOMAIN w = Fields
      /\ w.held = r.held \cup {locks[id]} /\ w.want = None
      /\ w.op = r.op /\ w.rows = r.rows
      /\ w.pc = IF r.op = "restore" THEN "locked"
                ELSE IF r.op = "clear" /\ r.todo # {id} THEN "ask" ELSE "remove"
      /\ w.todo = IF r.op # "clear" THEN r.todo
                  ELSE IF r.todo = {id} THEN r.rows ELSE r.todo \ {id}
  BY <1>0, <1>1, <1>2, <1>3, <1>4 DEF Acquire, Shape, Fields
<1>6. Shape' /\ \A t \in Slots \ {s} : req'[t] = req[t]
  BY <1>0, <1>1, <1>5 DEF Acquire, Shape
<1>7. Owned(s)' \subseteq Owned(s) \cup {id}
  BY <1>0, <1>1, <1>4, <1>5 DEF Owned, Good
<1>8. Emptied(s)' = {}
  BY <1>1, <1>5 DEF Emptied
<1>9. \A x \in Owned(s)' : x \in DOMAIN locks /\ locks[x] \in w.held
  BY <1>0, <1>1, <1>2, <1>5, <1>7 DEF Good
<1>10. \A x \in w.held : \E other \in DOMAIN locks : x = locks[other]
  BY <1>0, <1>1, <1>2, <1>5 DEF Good
<1>11. w.todo \subseteq r.rows
  BY <1>0, <1>1, <1>5 DEF Good
<1>12. w.pc \in {"locked", "ask", "remove"} /\ (w.pc = "locked" => w.op = "restore")
  BY <1>5
<1>13. Good(s)'
  BY <1>0, <1>1, <1>5, <1>8, <1>9, <1>10, <1>11, <1>12 DEF Good
<1>14. Ids' /\ BinIsListed' /\ LockMap' /\ nextId <= nextId'
  BY <1>1 DEF ListInv, Ids, BinIsListed, LockMap
<1>15. \A x \in w.held : Unlocked(s, x)
  BY <1>1, <1>2, <1>5, HeldIsLocked
<1> QED BY <1>1, <1>6, <1>13, <1>14, <1>15, OneStep

------------------------------------------------------------------------------
(* restore_trash                                                           *)

LEMMA RestoreCheckKeeps ==
  ASSUME ListInv, NEW s \in Slots, NEW id \in Rows, RestoreCheck(s, id)
  PROVE  ListInv'
<1> DEFINE r == req[s]
           w == req'[s]
<1>0. Good(s) /\ Shape
  BY DEF ListInv
<1>1. /\ r # None /\ r.pc = "locked" /\ DOMAIN r = Fields
      /\ UNCHANGED <<bin, trash, nextId, locks>>
  BY <1>0 DEF RestoreCheck, At, Shape
<1>2. /\ w.pc = "checked" /\ DOMAIN w = Fields
      /\ w.op = r.op /\ w.rows = r.rows /\ w.todo = r.todo /\ w.want = r.want
      /\ w.held = r.held
  BY <1>0, <1>1 DEF RestoreCheck, Shape, Fields
<1>3. Shape' /\ \A t \in Slots \ {s} : req'[t] = req[t]
  BY <1>0, <1>2 DEF RestoreCheck, Shape
<1>4. Owned(s)' = Owned(s) /\ Emptied(s)' = {}
  BY <1>1, <1>2 DEF Owned, Emptied
<1>5. Good(s)'
  BY <1>0, <1>1, <1>2, <1>4 DEF Good
<1>6. Ids' /\ BinIsListed' /\ LockMap' /\ nextId <= nextId'
  BY <1>1 DEF ListInv, Ids, BinIsListed, LockMap
<1>7. \A m \in w.held : Unlocked(s, m)
  BY <1>1, <1>2, HeldIsLocked
<1> QED BY <1>1, <1>3, <1>5, <1>6, <1>7, OneStep

LEMMA RestoreRenameKeeps ==
  ASSUME ListInv, NEW s \in Slots, NEW id \in Rows, RestoreRename(s, id)
  PROVE  ListInv'
<1> DEFINE r == req[s]
           w == req'[s]
<1>0. Good(s) /\ Shape
  BY DEF ListInv
<1>1. /\ r # None /\ r.pc = "checked" /\ DOMAIN r = Fields
      /\ UNCHANGED <<trash, nextId, locks>>
      /\ id \in r.rows /\ id \in DOMAIN bin
      /\ DOMAIN bin' = DOMAIN bin \ {id}
  BY <1>0, DropFacts DEF RestoreRename, At, Shape
<1>2. /\ w.pc = "moved" /\ DOMAIN w = Fields
      /\ w.op = r.op /\ w.rows = r.rows /\ w.todo = r.todo /\ w.want = r.want
      /\ w.held = r.held
  BY <1>0, <1>1 DEF RestoreRename, Step, Shape, Fields
<1>3. Shape' /\ \A t \in Slots \ {s} : req'[t] = req[t]
  BY <1>0, <1>2 DEF RestoreRename, Step, Shape
<1>4. r.rows = {id}
  BY <1>0, <1>1 DEF Good
<1>5. Owned(s)' = Owned(s) /\ Emptied(s)' = {id}
  BY <1>1, <1>2, <1>4 DEF Owned, Emptied
<1>6. r.rows \subseteq DOMAIN trash
  BY <1>1, <1>4 DEF ListInv, BinIsListed
<1>7. Good(s)'
  BY <1>0, <1>1, <1>2, <1>5, <1>6 DEF Good
<1>8. Ids' /\ BinIsListed' /\ LockMap' /\ nextId <= nextId'
  BY <1>1 DEF ListInv, Ids, BinIsListed, LockMap
<1>9. \A m \in w.held : Unlocked(s, m)
  BY <1>1, <1>2, HeldIsLocked
<1> QED BY <1>1, <1>3, <1>7, <1>8, <1>9, OneStep

\* The row that goes is the row of the restore, and its file is in the drive.
LEMMA RestoreCommitKeeps ==
  ASSUME ListInv, NEW s \in Slots, NEW id \in Rows, RestoreCommit(s, id)
  PROVE  ListInv'
<1>1. /\ req[s] # None /\ req[s].pc = "moved" /\ id \in req[s].rows
      /\ Done(s) /\ UNCHANGED <<bin, nextId, locks>>
      /\ DOMAIN trash' = DOMAIN trash \ {id}
  BY DropFacts DEF RestoreCommit, At
<1>2. id \in Owned(s) /\ id \in Emptied(s)
  BY <1>1 DEF Owned, Emptied
<1>3. id \notin DOMAIN bin
  BY <1>1, <1>2 DEF ListInv, Good
<1>4. BinIsListed'
  BY <1>1, <1>3 DEF ListInv, BinIsListed
<1>5. \A t \in Slots \ {s} : req[t] # None => id \notin Owned(t)
  BY <1>1, <1>2, OwnedApart
<1> QED BY <1>1, <1>4, <1>5, EndStep

\* The row to which the file comes back is still there.
LEMMA RestoreRejectKeeps ==
  ASSUME ListInv, NEW s \in Slots, NEW id \in Rows, RestoreReject(s, id)
  PROVE  ListInv'
<1>1. /\ req[s] # None /\ req[s].pc = "moved" /\ id \in req[s].rows
      /\ Done(s) /\ UNCHANGED <<trash, nextId, locks>>
      /\ DOMAIN bin' \subseteq DOMAIN bin \cup {id}
  BY DEF RestoreReject, At, Put
<1>2. id \in Owned(s) /\ id \in DOMAIN trash
  BY <1>1 DEF Owned, ListInv, Good
<1>3. BinIsListed'
  BY <1>1, <1>2 DEF ListInv, BinIsListed
<1>4. \A t \in Slots \ {s} : req[t] # None => id \notin Owned(t)
  BY <1>1, <1>2, OwnedApart
<1> QED BY <1>1, <1>3, <1>4, EndStep

------------------------------------------------------------------------------
(* Permanent delete, clearing, expiry                                      *)

LEMMA RemoveKeeps ==
  ASSUME ListInv, NEW s \in Slots, NEW id \in Rows, Remove(s, id)
  PROVE  ListInv'
<1> DEFINE r == req[s]
           w == req'[s]
<1>0. Good(s) /\ Shape
  BY DEF ListInv
<1>1. /\ r # None /\ r.pc = "remove" /\ DOMAIN r = Fields
      /\ UNCHANGED <<trash, nextId, locks>>
      /\ id \in NextRow(r.todo)
      /\ DOMAIN bin' = DOMAIN bin \ {id}
  BY <1>0, DropFacts DEF Remove, At, Shape
<1>2. NextRow(r.todo) = {id} /\ id \in r.todo
  BY <1>0, <1>1, OneNextRow DEF Good
<1>3. /\ DOMAIN w = Fields
      /\ w.op = r.op /\ w.rows = r.rows /\ w.want = r.want /\ w.held = r.held
      /\ w.pc = IF r.op = "clear" /\ r.todo \ {id} # {} THEN "remove" ELSE "forget"
      /\ w.todo = IF r.op = "clear" THEN r.todo \ {id} ELSE r.todo
  BY <1>0, <1>1 DEF Remove, Shape, Fields
<1>4. Shape' /\ \A t \in Slots \ {s} : req'[t] = req[t]
  BY <1>0, <1>3 DEF Remove, Shape
<1>5. Owned(s)' = Owned(s)
  BY <1>1, <1>3 DEF Owned
<1>6. Emptied(s)' \subseteq Emptied(s) \cup {id}
  BY <1>1, <1>2, <1>3 DEF Emptied
<1>7. Emptied(s)' \cap DOMAIN bin' = {}
  BY <1>0, <1>1, <1>6 DEF Good
<1>8. w.todo \subseteq r.rows
  BY <1>0, <1>1, <1>3 DEF Good
<1>9. w.pc \in {"remove", "forget"}
  BY <1>3
<1>10. Good(s)'
  BY <1>0, <1>1, <1>3, <1>5, <1>7, <1>8, <1>9 DEF Good
<1>11. Ids' /\ BinIsListed' /\ LockMap' /\ nextId <= nextId'
  BY <1>1 DEF ListInv, Ids, BinIsListed, LockMap
<1>12. \A m \in w.held : Unlocked(s, m)
  BY <1>1, <1>3, HeldIsLocked
<1> QED BY <1>1, <1>4, <1>10, <1>11, <1>12, OneStep

\* The expiry lets go of one mutex before it asks for the next.
LEMMA NextExpiredKeeps ==
  ASSUME ListInv, NEW s \in Slots, NEW id \in Rows, req[s] # None,
         req[s].op = "expire", req[s].pc # "wait", NextExpired(s, id),
         UNCHANGED <<nextId, locks>>,
         BinIsListed', DOMAIN trash' \subseteq DOMAIN trash,
         \A t \in Slots \ {s} : req[t] # None =>
           \A x \in Owned(t) : /\ x \in DOMAIN bin' => x \in DOMAIN bin
                               /\ x \in DOMAIN trash => x \in DOMAIN trash'
  PROVE  ListInv'
<1> DEFINE r == req[s]
           w == req'[s]
<1>0. Good(s) /\ Shape /\ DOMAIN r = Fields
  BY DEF ListInv, Shape
<1>1. CASE r.todo \ {id} = {}
  BY <1>1, EndStep DEF NextExpired, Done
<1>2. CASE r.todo \ {id} # {}
  <2>1. /\ DOMAIN w = Fields
        /\ w.pc = "ask" /\ w.op = "expire" /\ w.rows = r.rows /\ w.want = r.want
        /\ w.todo = r.todo \ {id} /\ w.held = {}
    BY <1>0, <1>2 DEF NextExpired, Shape, Fields
  <2>2. Shape' /\ \A t \in Slots \ {s} : req'[t] = req[t]
    BY <1>0, <1>2, <2>1 DEF NextExpired, Shape
  <2>3. Owned(s)' = {} /\ Emptied(s)' = {}
    BY <2>1 DEF Owned, Emptied
  <2>4. Ids' /\ LockMap' /\ nextId <= nextId'
    BY DEF ListInv, Ids, LockMap
  <2>5. w.want = None
    BY <1>0, <2>1 DEF Good
  <2>6. Good(s)'
    BY <1>0, <2>1, <2>3, <2>5 DEF Good
  <2> QED BY <2>1, <2>2, <2>4, <2>6, OneStep
<1> QED BY <1>1, <1>2

LEMMA RemoveFailsKeeps ==
  ASSUME ListInv, NEW s \in Slots, NEW id \in Rows, RemoveFails(s, id)
  PROVE  ListInv'
<1>1. /\ req[s] # None /\ req[s].pc # "wait"
      /\ UNCHANGED <<bin, trash, nextId, locks>> /\ BinIsListed'
  BY DEF RemoveFails, At, ListInv, BinIsListed
<1>2. CASE req[s].op = "expire"
  BY <1>1, <1>2, NextExpiredKeeps DEF RemoveFails
<1>3. CASE req[s].op # "expire"
  BY <1>1, <1>3, EndStep DEF RemoveFails
<1> QED BY <1>2, <1>3

\* A request that has its rows forgotten and recounts, with or without a mutex.
LEMMA RecountStarts ==
  ASSUME ListInv, NEW s \in Slots, req[s] # None, req[s].pc = "forget",
         \/ Step(s, "recount")
         \/ req' = [req EXCEPT ![s].pc = "recount", ![s].held = {}],
         UNCHANGED <<bin, nextId, locks>>,
         BinIsListed', DOMAIN trash' \subseteq DOMAIN trash,
         \A t \in Slots \ {s} : req[t] # None =>
           \A x \in Owned(t) : x \in DOMAIN trash => x \in DOMAIN trash'
  PROVE  ListInv'
<1> DEFINE r == req[s]
           w == req'[s]
<1>0. Good(s) /\ Shape /\ DOMAIN r = Fields
  BY DEF ListInv, Shape
<1>1. /\ DOMAIN w = Fields
      /\ w.pc = "recount" /\ w.op = r.op /\ w.rows = r.rows /\ w.want = r.want
      /\ w.todo = r.todo /\ w.held \subseteq r.held
  <2>1. CASE Step(s, "recount")
    BY <1>0, <2>1 DEF Step, Shape, Fields
  <2>2. CASE req' = [req EXCEPT ![s].pc = "recount", ![s].held = {}]
    BY <1>0, <2>2 DEF Shape, Fields
  <2> QED BY <2>1, <2>2
<1>2. Shape' /\ \A t \in Slots \ {s} : req'[t] = req[t]
  BY <1>0, <1>1 DEF Step, Shape
<1>3. Owned(s)' = {} /\ Emptied(s)' = {}
  BY <1>1 DEF Owned, Emptied
<1>4. Good(s)'
  BY <1>0, <1>1, <1>3 DEF Good
<1>5. Ids' /\ LockMap' /\ nextId <= nextId'
  BY DEF ListInv, Ids, LockMap
<1>6. \A m \in w.held : Unlocked(s, m)
  BY <1>1, HeldIsLocked
<1> QED BY <1>2, <1>4, <1>5, <1>6, OneStep

\* The row that goes is one whose mutex the request holds and whose file it has removed.
LEMMA ForgetOneKeeps ==
  ASSUME ListInv, NEW s \in Slots, NEW id \in Rows, ForgetOne(s, id)
  PROVE  ListInv'
<1>1. /\ req[s] # None /\ req[s].pc = "forget" /\ req[s].op # "clear"
      /\ id \in NextRow(req[s].todo)
      /\ UNCHANGED <<bin, nextId, locks>>
      /\ DOMAIN trash \ {id} \subseteq DOMAIN trash' /\ DOMAIN trash' \subseteq DOMAIN trash
  <2>1. DOMAIN Drop(trash, {id}) = DOMAIN trash \ {id}
    BY DropFacts
  <2> QED BY <2>1 DEF ForgetOne, At
<1>2. id \in Owned(s) /\ id \in Emptied(s)
  BY <1>1 DEF Owned, Emptied
<1>3. BinIsListed'
  BY <1>1, <1>2 DEF ListInv, BinIsListed, Good
<1>4. \A t \in Slots \ {s} : req[t] # None => id \notin Owned(t)
  BY <1>1, <1>2, OwnedApart
<1>5. CASE req[s].op = "expire"
  BY <1>1, <1>3, <1>4, <1>5, NextExpiredKeeps DEF ForgetOne
<1>6. CASE req[s].op # "expire"
  <2>1. Step(s, "recount")
    BY <1>6 DEF ForgetOne
  <2>2. \A t \in Slots \ {s} : req[t] # None =>
          \A x \in Owned(t) : x \in DOMAIN trash => x \in DOMAIN trash'
    BY <1>1, <1>4
  <2>3. DOMAIN trash' \subseteq DOMAIN trash
    BY <1>1
  <2>4. UNCHANGED <<bin, nextId, locks>> /\ req[s] # None /\ req[s].pc = "forget"
    BY <1>1
  <2> QED BY <1>3, <2>1, <2>2, <2>3, <2>4, RecountStarts
<1> QED BY <1>5, <1>6

LEMMA ForgetAllKeeps ==
  ASSUME ListInv, NEW s \in Slots, ForgetAll(s)
  PROVE  ListInv'
<1>1. /\ req[s] # None /\ req[s].pc = "forget" /\ req[s].op = "clear"
      /\ UNCHANGED <<bin, nextId, locks>>
      /\ DOMAIN trash' = DOMAIN trash \ req[s].rows
  BY DropFacts DEF ForgetAll, At
<1>2. req[s].rows = Owned(s) /\ req[s].rows = Emptied(s)
  BY <1>1 DEF Owned, Emptied
<1>3. BinIsListed'
  BY <1>1, <1>2 DEF ListInv, BinIsListed, Good
<1>4. \A t \in Slots \ {s} : req[t] # None => Owned(t) \cap req[s].rows = {}
  BY <1>1, <1>2, OwnedApart
<1>5. CASE Done(s)
  BY <1>1, <1>3, <1>4, <1>5, EndStep
<1>6. CASE req' = [req EXCEPT ![s].pc = "recount", ![s].held = {}]
  BY <1>1, <1>3, <1>4, <1>6, RecountStarts
<1> QED BY <1>5, <1>6 DEF ForgetAll

LEMMA CrashKeeps ==
  ASSUME ListInv, Crash
  PROVE  ListInv'
<1>1. \A s \in Slots : req'[s] = None
  BY DEF Crash
<1>2. Shape' /\ OneHolder' /\ \A s \in Slots : Good(s)'
  BY <1>1 DEF Crash, Shape, OneHolder, Good
<1>3. Ids' /\ BinIsListed'
  BY DEF Crash, ListInv, Ids, BinIsListed
<1>4. LockMap'
  BY DEF Crash, LockMap, Empty
<1> QED BY <1>2, <1>3, <1>4 DEF ListInv

------------------------------------------------------------------------------
LEMMA ListInvInit == Init => ListInv
<1> SUFFICES ASSUME Init PROVE ListInv
  OBVIOUS
<1>1. \A s \in Slots : req[s] = None
  BY DEF Init
<1> QED
  BY <1>1 DEF Init, ListInv, Shape, Ids, LockMap, OneHolder, BinIsListed, Good, Empty

LEMMA ListInvNext ==
  ASSUME MaxRows < MaxLocks, ListInv, [Next]_vars
  PROVE  ListInv'
<1>1. CASE UNCHANGED vars
  <2>1. \A s \in Slots : Good(s)'
    BY <1>1 DEF vars, ListInv, Good, Owned, Emptied
  <2> QED
    BY <1>1, <2>1 DEF vars, ListInv, Shape, Ids, LockMap, OneHolder, BinIsListed
<1>2. ASSUME NEW i \in Items, Create(i) PROVE ListInv'
  BY <1>2, CreateKeeps
<1>3. ASSUME NEW s \in Slots, Drive(s) PROVE ListInv'
  BY <1>3, DeleteKeeps, StartKeeps, RecountKeeps DEF Drive
<1>4. ASSUME NEW s \in Slots, Enter(s) PROVE ListInv'
  BY <1>4, StartKeeps, AskKeeps, AcquireKeeps DEF Enter
<1>5. ASSUME NEW s \in Slots, RestoreStep(s) PROVE ListInv'
  BY <1>5, RecountKeeps, RestoreCheckKeeps, RestoreRenameKeeps, RestoreCommitKeeps,
     RestoreRejectKeeps DEF RestoreStep
<1>6. ASSUME NEW s \in Slots, RemoveStep(s) PROVE ListInv'
  BY <1>6, RecountKeeps, RemoveKeeps, RemoveFailsKeeps, ForgetOneKeeps, ForgetAllKeeps
     DEF RemoveStep
<1>7. ASSUME NEW s \in Slots, Disconnect(s) PROVE ListInv'
  BY <1>7, RecountKeeps
<1>8. CASE Crash
  BY <1>8, CrashKeeps
<1> QED BY <1>1, <1>2, <1>3, <1>4, <1>5, <1>6, <1>7, <1>8 DEF Next

\* Whatever requests meet, fail, are dropped or crash: every file in .trash has
\* its row, as long as the map of the mutexes does not fill up.
THEOREM NoFileWithoutRow ==
  ASSUME MaxRows < MaxLocks
  PROVE  Spec => []BinIsListed
<1>1. Init => ListInv
  BY ListInvInit
<1>2. ListInv /\ [Next]_vars => ListInv'
  BY ListInvNext
<1>3. ListInv => BinIsListed
  BY DEF ListInv
<1> QED BY <1>1, <1>2, <1>3, PTL DEF Spec

------------------------------------------------------------------------------
(* No restore replaces what is in the drive                                *)

\* Two restores never work on one path, unless requests overlap.
Apart ==
  Without({"overlap"}) =>
    \A s, t \in Slots : s # t /\ Placing(s) /\ Placing(t) => req[s].path # req[t].path

\* What a restore found free stays free until it puts its file there.
FreeTarget ==
  Without({"overlap"}) =>
    \A s \in Slots : At(s, "checked") => req[s].path \notin DOMAIN disk

TargetInv == Shape /\ Apart /\ FreeTarget

LEMMA ShapeNext == ASSUME Shape, [Next]_vars PROVE Shape'
<1>1. CASE UNCHANGED vars \/ \E i \in Items : Create(i)
  BY <1>1 DEF vars, Create, Shape
<1>2. ASSUME NEW s \in Slots, Done(s) PROVE Shape'
  BY <1>2 DEF Done, Shape
<1>3. ASSUME NEW s \in Slots, NEW pc, Step(s, pc), req[s] # None PROVE Shape'
  BY <1>3 DEF Step, Shape, Fields
<1>4. ASSUME NEW s \in Slots, NEW pc, NEW op, NEW rows, NEW path,
             Start(s, pc, op, rows, path)
      PROVE  Shape'
  BY <1>4 DEF Start, Shape, Fields
<1>5. ASSUME NEW s \in Slots, NEW id \in Rows, NextExpired(s, id), req[s] # None PROVE Shape'
  BY <1>5 DEF NextExpired, Shape, Fields
<1>6. ASSUME NEW s \in Slots, Drive(s) PROVE Shape'
  BY <1>2, <1>4, <1>6 DEF Drive, Delete, DeleteRow, Recount
<1>7. ASSUME NEW s \in Slots, Enter(s) PROVE Shape'
  <2>1. ASSUME NEW id \in Rows, Ask(s, id) PROVE Shape'
    BY <2>1 DEF Ask, At, Shape, Fields
  <2>2. CASE Acquire(s)
    BY <2>2 DEF Acquire, At, Shape, Fields
  <2> QED BY <1>4, <1>7, <2>1, <2>2 DEF Enter, ReadRow, ReadAll, ReadExpired
<1>8. ASSUME NEW s \in Slots, RestoreStep(s) PROVE Shape'
  <2>1. ASSUME NEW id \in Rows, RestoreCheck(s, id) PROVE Shape'
    BY <2>1 DEF RestoreCheck, At, Shape, Fields
  <2>2. ASSUME NEW id \in Rows, RestoreRename(s, id) PROVE Shape'
    BY <1>3, <2>2 DEF RestoreRename, At
  <2> QED BY <1>2, <1>8, <2>1, <2>2
          DEF RestoreStep, RestoreConflict, RestoreGone, RestoreCommit, RestoreReject
<1>9. ASSUME NEW s \in Slots, RemoveStep(s) PROVE Shape'
  <2>1. ASSUME NEW id \in Rows, Remove(s, id) PROVE Shape'
    BY <2>1 DEF Remove, At, Shape, Fields
  <2>2. ASSUME NEW id \in Rows, RemoveFails(s, id) PROVE Shape'
    BY <1>2, <1>5, <2>2 DEF RemoveFails, At
  <2>3. ASSUME NEW id \in Rows, ForgetOne(s, id) PROVE Shape'
    BY <1>3, <1>5, <2>3 DEF ForgetOne, At
  <2>4. CASE ForgetAll(s)
    BY <1>2, <2>4 DEF ForgetAll, At, Shape, Fields
  <2> QED BY <1>2, <1>9, <2>1, <2>2, <2>3, <2>4 DEF RemoveStep, ForgetFails
<1>10. ASSUME NEW s \in Slots, Disconnect(s) PROVE Shape'
  BY <1>2, <1>10 DEF Disconnect
<1>11. CASE Crash
  BY <1>11 DEF Crash, Shape
<1> QED BY <1>1, <1>6, <1>7, <1>8, <1>9, <1>10, <1>11 DEF Next

\* A step of a request that is not restoring afterwards, and that adds nothing to the drive.
LEMMA NotPlacing ==
  ASSUME TargetInv, NEW s \in Slots, Shape',
         \A t \in Slots \ {s} : req'[t] = req[t],
         ~Placing(s)', DOMAIN disk' \subseteq DOMAIN disk, UNCHANGED faults
  PROVE  TargetInv'
<1>1. \A t \in Slots : Placing(t)' => t # s /\ Placing(t) /\ req'[t] = req[t]
  BY DEF Placing, At
<1>2. Apart'
  BY <1>1 DEF TargetInv, Apart, Without
<1>3. FreeTarget'
  BY <1>1 DEF TargetInv, FreeTarget, Without, Placing, At
<1> QED BY <1>2, <1>3 DEF TargetInv

LEMMA TargetNext == ASSUME TargetInv, [Next]_vars PROVE TargetInv'
<1>0. Shape /\ Shape'
  BY ShapeNext DEF TargetInv
<1>1. CASE UNCHANGED vars
  BY <1>0, <1>1 DEF vars, TargetInv, Apart, FreeTarget, Placing, At, Without
<1>2. ASSUME NEW i \in Items, Create(i) PROVE TargetInv'
  <2>1. UNCHANGED <<req, faults>> /\ Quiet(Home[i])
    BY <1>2 DEF Create
  <2>2. DOMAIN disk' = DOMAIN disk \cup {Home[i]}
    BY <1>2 DEF Create, Put
  <2> QED BY <1>0, <2>1, <2>2 DEF Quiet, TargetInv, Apart, FreeTarget, Placing, At, Without
<1>3. ASSUME NEW s \in Slots, Drive(s) PROVE TargetInv'
  <2>1. UNCHANGED faults /\ DOMAIN disk' \subseteq DOMAIN disk
    BY <1>3 DEF Drive, Delete, DeleteRow, Recount, Drop, Restrict
  <2>2. ~Placing(s)' /\ \A t \in Slots \ {s} : req'[t] = req[t]
    <3>1. ASSUME NEW path, Start(s, "recount", "delete", {}, path) PROVE <2>2!:
      BY <1>0, <3>1 DEF Start, Placing, At, Shape
    <3>2. CASE Done(s)
      BY <1>0, <3>2 DEF Done, Placing, At, Shape
    <3> QED BY <1>3, <3>1, <3>2 DEF Drive, Delete, DeleteRow, Recount
  <2> QED BY <1>0, <2>1, <2>2, NotPlacing
<1>4. ASSUME NEW s \in Slots, Enter(s) PROVE TargetInv'
  <2>1. UNCHANGED <<faults, disk>>
    BY <1>4 DEF Enter, ReadRow, ReadAll, ReadExpired, Ask, Acquire
  <2>2. \A t \in Slots \ {s} : req'[t] = req[t]
    BY <1>0, <1>4 DEF Enter, ReadRow, ReadAll, ReadExpired, Ask, Acquire, Start, Shape
  <2>3. ~Placing(s)'
    <3>1. ASSUME NEW id \in Rows, Ask(s, id) PROVE ~Placing(s)'
      BY <1>0, <3>1 DEF Ask, Placing, At, Shape, Fields
    <3>2. CASE Acquire(s)
      BY <1>0, <3>2 DEF Acquire, Placing, At, Shape, Fields
    <3>3. CASE ~Acquire(s) /\ ~\E id \in Rows : Ask(s, id)
      BY <1>0, <1>4, <3>3
         DEF Enter, ReadRow, ReadAll, ReadExpired, Start, Placing, At, Shape
    <3> QED BY <3>1, <3>2, <3>3
  <2> QED BY <1>0, <2>1, <2>2, <2>3, NotPlacing
<1>5. ASSUME NEW s \in Slots, RestoreStep(s) PROVE TargetInv'
  <2>1. CASE Done(s) /\ UNCHANGED faults /\ DOMAIN disk' \subseteq DOMAIN disk
    <3>1. ~Placing(s)' /\ \A t \in Slots \ {s} : req'[t] = req[t]
      BY <1>0, <2>1 DEF Done, Placing, At, Shape
    <3> QED BY <1>0, <2>1, <3>1, NotPlacing
  <2>2. ASSUME NEW id \in Rows, RestoreCheck(s, id) PROVE TargetInv'
    <3>1. /\ req'[s].path = req[s].path /\ req[s].path \notin DOMAIN disk
          /\ Quiet(req[s].path) /\ UNCHANGED <<disk, faults>>
          /\ \A t \in Slots \ {s} : req'[t] = req[t]
      BY <1>0, <2>2 DEF RestoreCheck, At, Shape, Fields
    <3> QED BY <1>0, <3>1 DEF Quiet, TargetInv, Apart, FreeTarget, Placing, At, Without
  <2>3. ASSUME NEW id \in Rows, RestoreRename(s, id) PROVE TargetInv'
    <3>1. /\ req'[s].path = req[s].path /\ req'[s].pc = "moved" /\ At(s, "checked")
          /\ UNCHANGED faults
          /\ \A t \in Slots \ {s} : req'[t] = req[t]
      BY <1>0, <2>3 DEF RestoreRename, Step, At, Shape, Fields
    <3>2. DOMAIN disk' = DOMAIN disk \cup {req[s].path}
      BY <2>3 DEF RestoreRename, Put
    <3>3. Apart'
      BY <3>1 DEF TargetInv, Apart, Placing, At, Without
    <3>4. FreeTarget'
      BY <3>1, <3>2 DEF TargetInv, Apart, FreeTarget, Placing, At, Without
    <3> QED BY <1>0, <3>3, <3>4 DEF TargetInv
  <2>4. ASSUME NEW id \in Rows, RestoreReject(s, id) PROVE TargetInv'
    BY <2>1, <2>4 DEF RestoreReject, Drop, Restrict
  <2> QED BY <1>5, <2>1, <2>2, <2>3, <2>4
          DEF RestoreStep, RestoreConflict, RestoreGone, RestoreCommit
<1>6. ASSUME NEW s \in Slots, RemoveStep(s) PROVE TargetInv'
  <2>1. UNCHANGED <<faults, disk>>
    BY <1>6 DEF RemoveStep, Remove, RemoveFails, ForgetOne, ForgetAll, ForgetFails
  <2>2. \A t \in Slots \ {s} : req'[t] = req[t]
    BY <1>0, <1>6 DEF RemoveStep, Remove, RemoveFails, ForgetOne, ForgetAll, ForgetFails,
       NextExpired, Done, Step, Shape
  <2>3. ~Placing(s)'
    <3>1. ASSUME NEW id \in Rows, Remove(s, id) PROVE ~Placing(s)'
      BY <1>0, <3>1 DEF Remove, Placing, At, Shape, Fields
    <3>2. ASSUME NEW id \in Rows, NextExpired(s, id), req[s] # None PROVE ~Placing(s)'
      BY <1>0, <3>2 DEF NextExpired, Placing, At, Shape, Fields
    <3>3. CASE Done(s)
      BY <1>0, <3>3 DEF Done, Placing, At, Shape
    <3>4. CASE Step(s, "recount") /\ req[s] # None
      BY <1>0, <3>4 DEF Step, Placing, At, Shape, Fields
    <3>5. CASE ForgetAll(s)
      BY <1>0, <3>3, <3>5 DEF ForgetAll, Placing, At, Shape, Fields
    <3> QED BY <1>6, <3>1, <3>2, <3>3, <3>4, <3>5
            DEF RemoveStep, RemoveFails, ForgetOne, ForgetFails, At
  <2> QED BY <1>0, <2>1, <2>2, <2>3, NotPlacing
<1>7. ASSUME NEW s \in Slots, Disconnect(s) PROVE TargetInv'
  <2>1. ~Placing(s)' /\ \A t \in Slots \ {s} : req'[t] = req[t]
    BY <1>0, <1>7 DEF Disconnect, Done, Placing, At, Shape
  <2> QED BY <1>0, <1>7, <2>1, NotPlacing DEF Disconnect
<1>8. CASE Crash
  BY <1>0, <1>8 DEF Crash, TargetInv, Apart, FreeTarget, Placing, At, Without
<1> QED BY <1>1, <1>2, <1>3, <1>4, <1>5, <1>6, <1>7, <1>8 DEF Next

\* What each step leaves of the drive.
LEMMA NothingGoes ==
  ASSUME TargetInv, [Next]_vars, Without({"overlap"})
  PROVE  Range(disk) \subseteq Range(disk') \cup Range(bin')
<1> SUFFICES ASSUME NEW p \in DOMAIN disk
             PROVE  disk[p] \in Range(disk') \cup Range(bin')
  BY DEF Range
<1>1. CASE p \in DOMAIN disk' /\ disk'[p] = disk[p]
  BY <1>1 DEF Range
<1>2. ASSUME NEW i \in Items, Create(i) PROVE p \in DOMAIN disk' /\ disk'[p] = disk[p]
  BY <1>2 DEF Create, Put
<1>3. ASSUME NEW s \in Slots, NEW path \in Paths, Delete(s, path)
      PROVE  disk[p] \in Range(disk') \cup Range(bin')
  <2>1. CASE p = path
    BY <1>3, <2>1 DEF Delete, Put, Range
  <2>2. CASE p # path
    <3>1. p \in DOMAIN disk' /\ disk'[p] = disk[p]
      BY <1>3, <2>2 DEF Delete, Drop, Restrict
    <3> QED BY <1>1, <3>1
  <2> QED BY <2>1, <2>2
<1>4. ASSUME NEW s \in Slots, NEW id \in Rows, RestoreRename(s, id)
      PROVE  p \in DOMAIN disk' /\ disk'[p] = disk[p]
  <2>1. req[s].path # p
    BY <1>4 DEF RestoreRename, TargetInv, FreeTarget
  <2> QED BY <1>4, <2>1 DEF RestoreRename, Put
<1>5. ASSUME NEW s \in Slots, NEW id \in Rows, RestoreReject(s, id)
      PROVE  disk[p] \in Range(disk') \cup Range(bin')
  <2>1. CASE p = req[s].path
    BY <1>5, <2>1 DEF RestoreReject, Put, Range
  <2>2. CASE p # req[s].path
    <3>1. p \in DOMAIN disk' /\ disk'[p] = disk[p]
      BY <1>5, <2>2 DEF RestoreReject, Drop, Restrict
    <3> QED BY <1>1, <3>1
  <2> QED BY <2>1, <2>2
<1>6. CASE UNCHANGED disk
  BY <1>1, <1>6
<1>7. ASSUME NEW s \in Slots, Drive(s) \/ RestoreStep(s)
      PROVE  disk[p] \in Range(disk') \cup Range(bin')
  BY <1>1, <1>3, <1>4, <1>5, <1>6, <1>7
     DEF Drive, DeleteRow, Recount, RestoreStep, RestoreConflict, RestoreGone, RestoreCheck,
         RestoreCommit
<1>8. ASSUME NEW s \in Slots, Enter(s) \/ RemoveStep(s) \/ Disconnect(s)
      PROVE  UNCHANGED disk
  BY <1>8
     DEF Enter, ReadRow, ReadAll, ReadExpired, Ask, Acquire, Disconnect,
         RemoveStep, Remove, RemoveFails, ForgetOne, ForgetAll, ForgetFails
<1> QED
  BY <1>1, <1>2, <1>6, <1>7, <1>8 DEF Next, vars, Crash

\* While requests do not overlap on a path, no restore replaces what is in the
\* drive and nothing but a delete takes it out, whatever fails or crashes.
THEOREM RestoresReplaceNothing == Spec => NothingIsReplaced
<1>1. Init => TargetInv
  BY DEF Init, TargetInv, Shape, Apart, FreeTarget, Placing, At
<1>2. TargetInv /\ [Next]_vars => TargetInv'
  BY TargetNext
<1>3. TargetInv /\ [Next]_vars =>
        [Without({"overlap"}) => Range(disk) \subseteq Range(disk') \cup Range(bin')]_vars
  BY NothingGoes
<1> QED BY <1>1, <1>2, <1>3, PTL DEF Spec, NothingIsReplaced

------------------------------------------------------------------------------
(* One request and the mutexes                                             *)

Pairs(id) == {<<id, n>> : n \in 0..2 * Cardinality(Slots)}

\* What holds of a request by itself.
Local(s) ==
  req[s] # None =>
    /\ req[s] \in Request /\ req[s].todo \subseteq req[s].rows
    /\ req[s].op = "restore" => req[s].path \in Paths /\ \E id \in Rows : req[s].rows = {id}
    /\ req[s].pc \in {"locked", "checked", "moved"} => req[s].op = "restore"
    /\ \A m, n \in req[s].held : m[1] = n[1] => m = n
    /\ req[s].pc = "wait" => req[s].want \in Mutexes /\ req[s].want[1] \in NextRow(req[s].todo)
    /\ req[s].pc # "wait" => req[s].want = None
    /\ req[s].pc \in {"ask", "wait"} =>
         \A m \in req[s].held, id \in req[s].todo : m[1] < id
    /\ \A id \in Owned(s) : Holds(s, id)

Map ==
  /\ DOMAIN locks \subseteq Rows
  /\ \A id \in DOMAIN locks : locks[id] \in Pairs(id)

Stored ==
  /\ Partial(disk, Paths, Items) /\ Partial(files, Paths, Items \cup {None})
  /\ Partial(bin, Rows, Items) /\ Partial(trash, Rows, Paths)
  /\ nextId \in 1..(MaxRows + 1)

RequestInv == Shape /\ Map /\ Stored /\ \A s \in Slots : Local(s)

\* The other requests are not touched by a step of s.
Frame(s) == \A t \in Slots \ {s} : req'[t] = req[t]

LEMMA MutexFacts ==
  /\ Rows \subseteq Nat
  /\ \A id \in Rows : Pairs(id) \subseteq Mutexes /\ \A m \in Pairs(id) : m[1] = id
  /\ \A m \in Mutexes : m[1] \in Rows /\ m # None
<1>1. Cardinality(Slots) \in Nat
  BY TrashAssumption, FS_CardinalityType
<1>2. Rows \subseteq Nat
  BY TrashAssumption DEF Rows
<1>3. \A m \in Mutexes : m \in Rows \X Nat
  BY <1>1 DEF Mutexes
<1> QED BY <1>2, <1>3, TrashAssumption DEF Pairs, Mutexes

\* Of the pairs of a row each request holds or wants two at most: there is one
\* that nobody has.
LEMMA FreshIsFree ==
  ASSUME RequestInv, NEW id \in Rows
  PROVE  Fresh(id) \in Pairs(id)
<1> DEFINE N    == Cardinality(Slots)
           want == [s \in Slots |-> req[s].want]
           held == [s \in Slots |-> CHOOSE m : m \in req[s].held /\ m[1] = id]
           W    == {want[s] : s \in Slots}
           H    == {held[s] : s \in Slots}
           pair == [n \in 0..2 * N |-> <<id, n>>]
<1>1. IsFiniteSet(Slots) /\ N \in Nat
  BY TrashAssumption, FS_CardinalityType
<1>2. IsFiniteSet(W) /\ Cardinality(W) <= N
  <2>1. want \in Surjection(Slots, W)
    BY DEF Surjection
  <2> QED BY <1>1, <2>1, FS_Surjection
<1>3. IsFiniteSet(H) /\ Cardinality(H) <= N
  <2>1. held \in Surjection(Slots, H)
    BY DEF Surjection
  <2> QED BY <1>1, <2>1, FS_Surjection
<1>4. IsFiniteSet(W \cup H) /\ Cardinality(W \cup H) <= 2 * N
  <2>1. IsFiniteSet(W \cap H)
    BY <1>2, FS_Subset
  <2>2. Cardinality(W) \in Nat /\ Cardinality(H) \in Nat /\ Cardinality(W \cap H) \in Nat
    BY <1>2, <1>3, <2>1, FS_CardinalityType
  <2>3. /\ IsFiniteSet(W \cup H)
        /\ Cardinality(W \cup H) = Cardinality(W) + Cardinality(H) - Cardinality(W \cap H)
    BY <1>2, <1>3, FS_Union
  <2> QED BY <1>1, <1>2, <1>3, <2>2, <2>3
<1>5. ~(Pairs(id) \subseteq W \cup H)
  <2>1. IsFiniteSet(0..2 * N) /\ Cardinality(0..2 * N) = 2 * N + 1
    BY <1>1, FS_Interval
  <2>2. pair \in Injection(0..2 * N, Pairs(id))
    <3>1. \A n \in 0..2 * N : pair[n] = <<id, n>> /\ pair[n] \in Pairs(id)
      BY DEF Pairs
    <3>2. \A n, k \in 0..2 * N : <<id, n>> = <<id, k>> => n = k
      OBVIOUS
    <3>3. pair \in [0..2 * N -> Pairs(id)]
      BY <3>1
    <3>4. \A n, k \in DOMAIN pair : pair[n] = pair[k] => n = k
      BY <3>1, <3>2
    <3> HIDE DEF pair, N
    <3> QED BY <3>3, <3>4 DEF Injection, IsInjective
  <2>3. SUFFICES ASSUME Pairs(id) \subseteq W \cup H PROVE FALSE
    OBVIOUS
  <2>4. IsFiniteSet(Pairs(id)) /\ Cardinality(Pairs(id)) <= 2 * N
    <3>1. /\ IsFiniteSet(Pairs(id))
          /\ Cardinality(Pairs(id)) <= Cardinality(W \cup H)
      BY <1>4, <2>3, FS_Subset
    <3>2. Cardinality(Pairs(id)) \in Nat /\ Cardinality(W \cup H) \in Nat
      BY <1>4, <3>1, FS_CardinalityType
    <3> QED BY <1>1, <1>4, <3>1, <3>2
  <2>5. 2 * N + 1 <= Cardinality(Pairs(id)) /\ Cardinality(Pairs(id)) \in Nat
    <3>1. Cardinality(0..2 * N) <= Cardinality(Pairs(id))
      BY <2>2, <2>4, FS_Injection
    <3> QED BY <2>1, <2>4, <3>1, FS_CardinalityType
  <2> QED BY <1>1, <2>4, <2>5
<1>6. PICK m \in Pairs(id) : m \notin W \cup H
  BY <1>5
<1>7. \A s \in Slots : req[s] # None => m # req[s].want /\ m \notin req[s].held
  <2> SUFFICES ASSUME NEW s \in Slots, req[s] # None
               PROVE  m # req[s].want /\ m \notin req[s].held
    OBVIOUS
  <2>1. m # req[s].want
    BY <1>6
  <2>2. ASSUME m \in req[s].held PROVE FALSE
    <3>1. m[1] = id
      BY DEF Pairs
    <3>2. \A n \in req[s].held : n[1] = id => n = m
      BY <2>2, <3>1 DEF RequestInv, Local
    <3>3. held[s] = m
      BY <2>2, <3>1, <3>2
    <3> QED BY <1>6, <3>3
  <2> QED BY <2>1, <2>2
<1> QED BY <1>6, <1>7 DEF Fresh, Pairs

LEMMA RequestIsSome == ASSUME NEW r \in Request PROVE r # None
  BY TrashAssumption

\* What each kind of step does to the request.
LEMMA StartFacts ==
  ASSUME Shape, NEW s \in Slots, NEW pc, NEW op, NEW rows, NEW path,
         Start(s, pc, op, rows, path)
  PROVE  /\ Frame(s)
         /\ req'[s] = [pc |-> pc, op |-> op, path |-> path, rows |-> rows, todo |-> rows,
                       want |-> None, held |-> {}, charge |-> 0]
  BY DEF Start, Shape, Frame

LEMMA StartFields ==
  ASSUME Shape, NEW s \in Slots, NEW pc, NEW op, NEW rows, NEW path,
         Start(s, pc, op, rows, path)
  PROVE  /\ Frame(s)
         /\ req'[s].pc = pc /\ req'[s].op = op /\ req'[s].path = path
         /\ req'[s].rows = rows /\ req'[s].todo = rows
<1>1. req'[s] = [pc |-> pc, op |-> op, path |-> path, rows |-> rows, todo |-> rows,
                 want |-> None, held |-> {}, charge |-> 0]
  BY StartFacts
<1> QED BY <1>1, StartFacts

LEMMA DoneFacts ==
  ASSUME Shape, NEW s \in Slots, Done(s)
  PROVE  Frame(s) /\ req'[s] = None
  BY DEF Done, Shape, Frame

LEMMA StepFacts ==
  ASSUME RequestInv, NEW s \in Slots, req[s] # None, NEW pc \in {"moved", "recount"}, Step(s, pc)
  PROVE  /\ Frame(s) /\ req'[s] \in Request /\ req'[s] # None
         /\ req'[s].pc = pc /\ req'[s].op = req[s].op /\ req'[s].path = req[s].path
         /\ req'[s].rows = req[s].rows /\ req'[s].todo = req[s].todo
         /\ req'[s].want = req[s].want /\ req'[s].held = req[s].held
         /\ req'[s].charge = req[s].charge
<1>1. Shape /\ req[s] \in Request
  BY DEF RequestInv, Local
<1>2. req'[s] = [req[s] EXCEPT !.pc = pc]
  BY <1>1 DEF Step, Shape
<1>3. req'[s] \in Request
  BY <1>1, <1>2 DEF Request
<1>4. Frame(s)
  BY <1>1 DEF Step, Shape, Frame
<1> QED BY <1>1, <1>2, <1>3, <1>4, RequestIsSome DEF Request

LEMMA AskFacts ==
  ASSUME RequestInv, NEW s \in Slots, NEW id \in Rows, Ask(s, id)
  PROVE  /\ Frame(s) /\ req'[s] \in Request /\ req'[s] # None
         /\ req'[s].pc = "wait" /\ req'[s].op = req[s].op /\ req'[s].path = req[s].path
         /\ req'[s].rows = req[s].rows /\ req'[s].todo = req[s].todo
         /\ req'[s].want \in Pairs(id) /\ req'[s].held = req[s].held
         /\ req'[s].charge = req[s].charge
         /\ Map'
<1> DEFINE map == IF Cardinality(DOMAIN locks) >= MaxLocks THEN Empty ELSE locks
           m   == IF id \in DOMAIN map THEN map[id] ELSE Fresh(id)
<1>1. Shape /\ Map /\ req[s] \in Request /\ req[s] # None
  BY DEF RequestInv, Local, Ask, At
<1>2. /\ locks' = Put(map, id, m)
      /\ req' = [req EXCEPT ![s].pc = "wait", ![s].want = m]
  BY DEF Ask
<1>3. /\ DOMAIN map \subseteq Rows
      /\ \A x \in DOMAIN map : map[x] \in Pairs(x)
  <2>1. CASE map = Empty
    BY <2>1 DEF Empty
  <2>2. CASE map = locks
    BY <1>1, <2>2 DEF Map
  <2> QED BY <2>1, <2>2
<1>4. m \in Pairs(id)
  BY <1>3, FreshIsFree
<1> HIDE DEF m, map
<1>5. Map'
  <2>1. /\ DOMAIN locks' = DOMAIN map \cup {id} /\ locks'[id] = m
        /\ \A x \in DOMAIN map \ {id} : locks'[x] = map[x]
    <3>1. /\ DOMAIN Put(map, id, m) = DOMAIN map \cup {id}
          /\ Put(map, id, m)[id] = m
          /\ \A x \in DOMAIN map \ {id} : Put(map, id, m)[x] = map[x]
      BY DEF Put
    <3> QED BY <1>2, <3>1
  <2> QED BY <1>3, <1>4, <2>1 DEF Map
<1>6. req'[s] = [req[s] EXCEPT !.pc = "wait", !.want = m]
  BY <1>1, <1>2 DEF Shape
<1>7. m \in Mutexes
  BY <1>4, MutexFacts
<1>8. req'[s] \in Request
  BY <1>1, <1>6, <1>7 DEF Request
<1>9. Frame(s)
  BY <1>1, <1>2 DEF Shape, Frame
<1> QED BY <1>1, <1>4, <1>5, <1>6, <1>8, <1>9, RequestIsSome DEF Request

LEMMA AcquireFacts ==
  ASSUME RequestInv, NEW s \in Slots, Acquire(s)
  PROVE  LET r == req[s]
             w == req'[s] IN
         /\ r # None /\ r.pc = "wait" /\ r.want \in Mutexes
         /\ r.want[1] \in NextRow(r.todo)
         /\ Frame(s) /\ w \in Request /\ w # None
         /\ w.pc = IF r.op = "restore" THEN "locked"
                   ELSE IF r.op = "clear" /\ r.todo \ {r.want[1]} # {} THEN "ask" ELSE "remove"
         /\ w.op = r.op /\ w.path = r.path /\ w.rows = r.rows
         /\ w.todo = IF r.op # "clear" THEN r.todo
                     ELSE IF r.todo \ {r.want[1]} = {} THEN r.rows ELSE r.todo \ {r.want[1]}
         /\ w.want = None /\ w.held = r.held \cup {r.want} /\ w.charge = r.charge
<1> DEFINE r == req[s]
           w == req'[s]
<1>1. Shape /\ r \in Request /\ r # None /\ r.pc = "wait" /\ r.want \in Mutexes
      /\ r.want[1] \in NextRow(r.todo)
  BY DEF RequestInv, Local, Acquire, At
<1> DEFINE left == r.todo \ {r.want[1]}
           all  == r.op = "clear" /\ left = {}
<1>2. w = [r EXCEPT !.held = r.held \cup {r.want},
                    !.want = None,
                    !.pc   = IF r.op = "restore" THEN "locked"
                             ELSE IF r.op = "clear" /\ ~all THEN "ask" ELSE "remove",
                    !.todo = IF r.op # "clear" THEN r.todo
                             ELSE IF all THEN r.rows ELSE left]
  BY <1>1 DEF Acquire, Shape, Request
<1>3. Frame(s)
  BY <1>1 DEF Acquire, Shape, Frame
<1>4. /\ w.pc = IF r.op = "restore" THEN "locked"
                ELSE IF r.op = "clear" /\ left # {} THEN "ask" ELSE "remove"
      /\ w.op = r.op /\ w.path = r.path /\ w.rows = r.rows
      /\ w.todo = IF r.op # "clear" THEN r.todo ELSE IF left = {} THEN r.rows ELSE left
      /\ w.want = None /\ w.held = r.held \cup {r.want} /\ w.charge = r.charge
  BY <1>1, <1>2 DEF Request
<1>5. w \in Request
  <2>1. /\ w.pc \in {"locked", "ask", "remove"} /\ w.todo \in SUBSET Rows
        /\ w.held \in SUBSET Mutexes
    BY <1>1, <1>4 DEF Request
  <2> HIDE DEF left, all
  <2> QED BY <1>1, <1>2, <2>1 DEF Request
<1> QED BY <1>1, <1>3, <1>4, <1>5, RequestIsSome

LEMMA CheckFacts ==
  ASSUME RequestInv, NEW s \in Slots, NEW id \in Rows, RestoreCheck(s, id),
         id \in DOMAIN bin => Charge(bin[id]) \in Nat
  PROVE  /\ Frame(s) /\ req'[s] \in Request /\ req'[s] # None
         /\ req'[s].pc = "checked" /\ req'[s].op = req[s].op /\ req'[s].path = req[s].path
         /\ req'[s].rows = req[s].rows /\ req'[s].todo = req[s].todo
         /\ req'[s].want = req[s].want /\ req'[s].held = req[s].held
         /\ req'[s].charge = IF id \in DOMAIN bin THEN Charge(bin[id]) ELSE 0
<1> DEFINE c == IF id \in DOMAIN bin THEN Charge(bin[id]) ELSE 0
<1>1. Shape /\ req[s] \in Request /\ req[s] # None
  BY DEF RequestInv, Local, RestoreCheck, At
<1>2. req' = [req EXCEPT ![s].pc = "checked", ![s].charge = c]
  BY DEF RestoreCheck
<1>3. c \in Nat
  OBVIOUS
<1> HIDE DEF c
<1>4. req'[s] = [req[s] EXCEPT !.pc = "checked", !.charge = c]
  BY <1>1, <1>2 DEF Shape
<1>5. req'[s] \in Request
  BY <1>1, <1>3, <1>4 DEF Request
<1>6. Frame(s)
  BY <1>1, <1>2 DEF Shape, Frame
<1>7. req'[s].charge = c
  BY <1>1, <1>4 DEF Request
<1> QED BY <1>1, <1>4, <1>5, <1>6, <1>7, RequestIsSome DEF Request, c

LEMMA RemoveFacts ==
  ASSUME RequestInv, NEW s \in Slots, NEW id \in Rows, Remove(s, id)
  PROVE  LET r == req[s]
             w == req'[s] IN
         /\ Frame(s) /\ w \in Request /\ w # None
         /\ w.pc = IF r.op = "clear" /\ r.todo \ {id} # {} THEN "remove" ELSE "forget"
         /\ w.op = r.op /\ w.path = r.path /\ w.rows = r.rows
         /\ w.todo = IF r.op = "clear" THEN r.todo \ {id} ELSE r.todo
         /\ w.want = r.want /\ w.held = r.held /\ w.charge = r.charge
<1> DEFINE r == req[s]
           w == req'[s]
<1>1. Shape /\ r \in Request /\ r # None
  BY DEF RequestInv, Local, Remove, At
<1>2. w = [r EXCEPT !.pc   = IF r.op = "clear" /\ r.todo \ {id} # {} THEN "remove" ELSE "forget",
                    !.todo = IF r.op = "clear" THEN r.todo \ {id} ELSE r.todo]
  BY <1>1 DEF Remove, Shape, Request
<1>3. Frame(s)
  BY <1>1 DEF Remove, Shape, Frame
<1>4. w \in Request
  BY <1>1, <1>2 DEF Request
<1> QED BY <1>1, <1>2, <1>3, <1>4, RequestIsSome DEF Request

LEMMA NextExpiredFacts ==
  ASSUME RequestInv, NEW s \in Slots, NEW id \in Rows, req[s] # None, NextExpired(s, id)
  PROVE  LET r == req[s]
             w == req'[s] IN
         /\ Frame(s)
         /\ r.todo \ {id} = {} => w = None
         /\ r.todo \ {id} # {} =>
              /\ w \in Request /\ w # None
              /\ w.pc = "ask" /\ w.op = r.op /\ w.path = r.path /\ w.rows = r.rows
              /\ w.todo = r.todo \ {id} /\ w.want = r.want /\ w.held = {}
              /\ w.charge = r.charge
<1> DEFINE r == req[s]
           w == req'[s]
<1>1. Shape /\ r \in Request
  BY DEF RequestInv, Local
<1>2. Frame(s)
  BY <1>1 DEF NextExpired, Shape, Frame
<1>3. CASE r.todo \ {id} = {}
  BY <1>1, <1>2, <1>3 DEF NextExpired, Shape
<1>4. CASE r.todo \ {id} # {}
  <2>1. w = [r EXCEPT !.pc = "ask", !.todo = r.todo \ {id}, !.held = {}]
    BY <1>1, <1>4 DEF NextExpired, Shape
  <2>2. w \in Request
    BY <1>1, <2>1 DEF Request
  <2> QED BY <1>1, <1>2, <1>4, <2>1, <2>2, RequestIsSome DEF Request
<1> QED BY <1>3, <1>4

\* clear_trash lets go of all its mutexes before it recounts.
LEMMA ClearedRequest ==
  ASSUME NEW r \in Request, NEW w, w = [r EXCEPT !.pc = "recount", !.held = {}]
  PROVE  /\ w \in Request
         /\ w.pc = "recount" /\ w.op = r.op /\ w.path = r.path
         /\ w.rows = r.rows /\ w.todo = r.todo
         /\ w.want = r.want /\ w.held = {} /\ w.charge = r.charge
<1>1. {} \in SUBSET Mutexes
  OBVIOUS
<1> QED BY <1>1 DEF Request

LEMMA ClearedFacts ==
  ASSUME RequestInv, NEW s \in Slots, req[s] # None,
         req' = [req EXCEPT ![s].pc = "recount", ![s].held = {}]
  PROVE  /\ Frame(s) /\ req'[s] \in Request /\ req'[s] # None
         /\ req'[s].pc = "recount" /\ req'[s].op = req[s].op /\ req'[s].path = req[s].path
         /\ req'[s].rows = req[s].rows /\ req'[s].todo = req[s].todo
         /\ req'[s].want = req[s].want /\ req'[s].held = {}
         /\ req'[s].charge = req[s].charge
<1>1. Shape /\ req[s] \in Request
  BY DEF RequestInv, Local
<1>2. req'[s] = [req[s] EXCEPT !.pc = "recount", !.held = {}]
  BY <1>1 DEF Shape
<1>3. Frame(s)
  BY <1>1 DEF Shape, Frame
<1> DEFINE w == req'[s]
<1>4. /\ w \in Request
      /\ w.pc = "recount" /\ w.op = req[s].op /\ w.path = req[s].path
      /\ w.rows = req[s].rows /\ w.todo = req[s].todo
      /\ w.want = req[s].want /\ w.held = {} /\ w.charge = req[s].charge
  <2> HIDE DEF w
  <2>1. w = [req[s] EXCEPT !.pc = "recount", !.held = {}]
    BY <1>2 DEF w
  <2> QED BY <1>1, <2>1, ClearedRequest
<1>5. w # None
  BY <1>4, RequestIsSome
<1> QED BY <1>3, <1>4, <1>5

------------------------------------------------------------------------------
(* Lengths and charges                                                     *)

LEMMA CeilIsNat == ASSUME NEW n \in Nat PROVE Ceil(n) \in Nat
<1>1. MB \in Nat /\ MB > 0
  BY TrashAssumption
<1>2. n + MB - 1 \in Nat
  BY <1>1
<1> QED BY <1>1, <1>2 DEF Ceil

LEMMA LengthsAreNat ==
  ASSUME NEW i \in Items
  PROVE  Charge(i) \in Nat /\ Listed(i) \in Nat
<1>1. IsFiniteSet(DOMAIN Parts[i]) /\ \A k \in DOMAIN Parts[i] : Parts[i][k] \in Nat
  BY TrashAssumption
<1>2. SumFunction(Parts[i]) \in Nat
  BY <1>1, SumIsNat DEF SumFunction
<1>3. Charge(i) \in Nat
  BY <1>2, CeilIsNat DEF Charge
<1> DEFINE up == [k \in DOMAIN Parts[i] |-> Ceil(Parts[i][k])]
<1>4. IsFiniteSet(DOMAIN up) /\ \A k \in DOMAIN up : up[k] \in Nat
  BY <1>1, CeilIsNat
<1>5. SumFunction(up) \in Nat
  <2> HIDE DEF up
  <2> QED BY <1>4, SumIsNat DEF SumFunction
<1> QED BY <1>3, <1>5 DEF Listed

\* A file has one length: what a restore charges for it is what the recount finds.
LEMMA FileIsListedWhole ==
  ASSUME NEW i \in Items \ Dirs
  PROVE  Charge(i) = Listed(i)
<1>1. IsFiniteSet(DOMAIN Parts[i]) /\ \A k \in DOMAIN Parts[i] : Parts[i][k] \in Nat
  BY TrashAssumption
<1>2. PICK k : DOMAIN Parts[i] = {k}
  BY <1>1, TrashAssumption, FS_Singleton
<1>3. \A f : f[k] \in Nat => SumFunctionOnSet(f, {k}) = f[k]
  <2> SUFFICES ASSUME NEW f, f[k] \in Nat PROVE SumFunctionOnSet(f, {k}) = f[k]
    OBVIOUS
  <2>1. SumFunctionOnSet(f, {k}) = f[k] + SumFunctionOnSet(f, {k} \ {k})
    <3>1. IsFiniteSet({k}) /\ k \in {k} /\ \A x \in {k} : f[x] \in Int
      BY FS_Singleton
    <3> QED BY <3>1, SumAt
  <2>2. {k} \ {k} = {}
    OBVIOUS
  <2> QED BY <2>1, <2>2, SumEmpty
<1> DEFINE up == [x \in DOMAIN Parts[i] |-> Ceil(Parts[i][x])]
<1>4. DOMAIN up = {k} /\ up[k] = Ceil(Parts[i][k]) /\ up[k] \in Nat
  BY <1>1, <1>2, CeilIsNat
<1>5. SumFunction(up) = Ceil(Parts[i][k])
  <2> HIDE DEF up
  <2> QED BY <1>3, <1>4 DEF SumFunction
<1>6. SumFunction(Parts[i]) = Parts[i][k]
  BY <1>1, <1>2, <1>3 DEF SumFunction
<1> QED BY <1>5, <1>6, TrashAssumption DEF Charge, Listed

------------------------------------------------------------------------------
(* RequestInv                                                              *)

LEMMA OthersStayLocal ==
  ASSUME RequestInv, NEW s \in Slots, Frame(s)
  PROVE  \A t \in Slots \ {s} : Local(t)'
<1> SUFFICES ASSUME NEW t \in Slots \ {s} PROVE Local(t)'
  OBVIOUS
<1>1. req'[t] = req[t] /\ Local(t)
  BY DEF Frame, RequestInv
<1>2. Owned(t)' = Owned(t) /\ \A id : Holds(t, id)' = Holds(t, id)
  BY <1>1 DEF Owned, Holds
<1> QED BY <1>1, <1>2 DEF Local

LEMMA EndedIsLocal ==
  ASSUME NEW s \in Slots, req'[s] = None
  PROVE  Local(s)'
  BY DEF Local

LEMMA StartedIsLocal ==
  ASSUME RequestInv, NEW s \in Slots, NEW pc \in {"ask", "recount"},
         NEW op \in {"delete", "restore", "purge", "clear", "expire"},
         NEW rows \in SUBSET Rows, NEW path \in Paths \cup {None},
         Start(s, pc, op, rows, path),
         op = "restore" => path \in Paths /\ \E id \in Rows : rows = {id}
  PROVE  Local(s)'
<1>1. req'[s] = [pc |-> pc, op |-> op, path |-> path, rows |-> rows, todo |-> rows,
                 want |-> None, held |-> {}, charge |-> 0]
  BY StartFacts DEF RequestInv
<1>2. /\ req'[s] \in Request
      /\ req'[s].pc = pc /\ req'[s].op = op /\ req'[s].path = path
      /\ req'[s].rows = rows /\ req'[s].todo = rows
      /\ req'[s].want = None /\ req'[s].held = {}
  BY <1>1 DEF Request
<1>3. Owned(s)' = {}
  BY <1>2 DEF Owned
<1> QED BY <1>2, <1>3 DEF Local

LEMMA AskIsLocal ==
  ASSUME RequestInv, NEW s \in Slots, NEW id \in Rows, Ask(s, id)
  PROVE  Local(s)'
<1> DEFINE r == req[s]
           w == req'[s]
<1>1. /\ w \in Request
      /\ w.pc = "wait" /\ w.op = r.op /\ w.path = r.path /\ w.rows = r.rows
      /\ w.todo = r.todo /\ w.want \in Pairs(id) /\ w.held = r.held
  BY AskFacts
<1>2. r # None /\ r.pc = "ask" /\ id \in NextRow(r.todo) /\ Local(s)
  BY DEF Ask, At, RequestInv
<1>3. Owned(s)' = Owned(s)
  BY <1>1, <1>2 DEF Owned
<1>4. \A x \in Owned(s) : Holds(s, x)'
  <2>1. \A x \in Owned(s) : Holds(s, x)
    BY <1>2 DEF Local
  <2> QED BY <1>1, <2>1, RequestIsSome DEF Holds
<1>5. w.want \in Mutexes /\ w.want[1] = id
  BY <1>1, MutexFacts
<1> QED BY <1>1, <1>2, <1>3, <1>4, <1>5 DEF Local

LEMMA AcquireIsLocal ==
  ASSUME RequestInv, NEW s \in Slots, Acquire(s)
  PROVE  Local(s)'
<1> DEFINE r == req[s]
           w == req'[s]
           id == r.want[1]
<1>1. /\ r # None /\ r.pc = "wait" /\ r.want \in Mutexes /\ id \in NextRow(r.todo)
      /\ w \in Request /\ w # None
      /\ w.pc = IF r.op = "restore" THEN "locked"
                ELSE IF r.op = "clear" /\ r.todo \ {id} # {} THEN "ask" ELSE "remove"
      /\ w.op = r.op /\ w.path = r.path /\ w.rows = r.rows
      /\ w.todo = IF r.op # "clear" THEN r.todo
                  ELSE IF r.todo \ {id} = {} THEN r.rows ELSE r.todo \ {id}
      /\ w.want = None /\ w.held = r.held \cup {r.want}
  BY AcquireFacts
<1>2. /\ Local(s) /\ r \in Request /\ r.todo \subseteq r.rows
      /\ \A x \in Owned(s) : Holds(s, x)
      /\ \A m \in r.held, x \in r.todo : m[1] < x
      /\ \A m, n \in r.held : m[1] = n[1] => m = n
  BY <1>1 DEF Local, RequestInv
<1>3. NextRow(r.todo) = {id} /\ id \in r.todo /\ r.todo \subseteq Rows /\ r.held \subseteq Mutexes
  <2>1. r.todo \in SUBSET Rows /\ r.held \subseteq Mutexes
    BY <1>2 DEF Request
  <2> QED BY <1>1, <2>1, OneNextRow
<1>4. w.todo \subseteq w.rows
  BY <1>1, <1>2
<1>5. \A m, n \in w.held : m[1] = n[1] => m = n
  <2>1. \A m \in r.held : m[1] # id
    <3>1. \A m \in r.held : m[1] < id /\ m[1] \in Nat /\ id \in Nat
      BY <1>2, <1>3, MutexFacts
    <3> QED BY <3>1
  <2> QED BY <1>1, <1>2, <2>1
<1>6. w.pc = "ask" => \A m \in w.held, x \in w.todo : m[1] < x
  <2> SUFFICES ASSUME w.pc = "ask", NEW m \in w.held, NEW x \in w.todo PROVE m[1] < x
    OBVIOUS
  <2>1. x \in r.todo \ {id}
    BY <1>1
  <2>2. CASE m \in r.held
    BY <1>2, <2>1, <2>2
  <2>3. CASE m = r.want
    <3>1. id <= x /\ x # id /\ x \in Nat /\ id \in Nat
      BY <1>1, <1>3, <2>1, MutexFacts DEF NextRow
    <3> QED BY <2>3, <3>1
  <2> QED BY <1>1, <2>2, <2>3
<1>7. Owned(s)' \subseteq Owned(s) \cup {id}
  <2>1. r.op = "restore" => r.rows = {id}
    BY <1>1, <1>2, <1>3 DEF Local
  <2> QED BY <1>1, <1>2, <1>3, <2>1 DEF Owned
<1>8. \A x \in Owned(s)' : Holds(s, x)'
  BY <1>1, <1>2, <1>7 DEF Holds
<1>9. w.pc \in {"locked", "ask", "remove"} /\ (w.pc = "locked" => w.op = "restore")
  BY <1>1
<1>10. w.op = "restore" => w.path \in Paths /\ \E x \in Rows : w.rows = {x}
  BY <1>1, <1>2 DEF Local
<1> QED BY <1>1, <1>4, <1>5, <1>6, <1>8, <1>9, <1>10 DEF Local

\* A request that goes on with the same rows and mutexes, and waits for none.
LEMMA WorkIsLocal ==
  ASSUME RequestInv, NEW s \in Slots, req[s] # None, req[s].pc \notin {"ask", "wait"},
         req'[s] \in Request, req'[s].pc \notin {"ask", "wait"},
         req'[s].op = req[s].op, req'[s].path = req[s].path, req'[s].rows = req[s].rows,
         req'[s].todo \subseteq req[s].todo, req'[s].want = req[s].want,
         req'[s].held \subseteq req[s].held,
         req'[s].pc \in {"locked", "checked", "moved"} => req[s].op = "restore",
         \/ Owned(s)' = {}
         \/ Owned(s)' \subseteq Owned(s) /\ req'[s].held = req[s].held
  PROVE  Local(s)'
<1>1. Local(s)
  BY DEF RequestInv
<1>2. req'[s] # None
  BY RequestIsSome
<1>3. \A id \in Owned(s)' : Holds(s, id)'
  <2>1. \A id \in Owned(s) : Holds(s, id)
    BY <1>1 DEF Local
  <2> QED BY <1>2, <2>1 DEF Holds
<1> QED BY <1>1, <1>2, <1>3 DEF Local

LEMMA NextExpiredIsLocal ==
  ASSUME RequestInv, NEW s \in Slots, NEW id \in Rows, req[s] # None, req[s].pc # "wait",
         req[s].op = "expire", NextExpired(s, id)
  PROVE  Local(s)'
<1>1. CASE req[s].todo \ {id} = {}
  BY <1>1, NextExpiredFacts, EndedIsLocal
<1>2. CASE req[s].todo \ {id} # {}
  <2>1. /\ req'[s] \in Request
        /\ req'[s].pc = "ask" /\ req'[s].op = "expire" /\ req'[s].rows = req[s].rows
        /\ req'[s].todo = req[s].todo \ {id} /\ req'[s].want = req[s].want
        /\ req'[s].held = {}
    BY <1>2, NextExpiredFacts
  <2>2. Local(s)
    BY DEF RequestInv
  <2>3. Owned(s)' = {}
    BY <2>1 DEF Owned
  <2> QED BY <2>1, <2>2, <2>3 DEF Local
<1> QED BY <1>1, <1>2

LEMMA PutPartial ==
  ASSUME NEW S, NEW T, NEW f, Partial(f, S, T), NEW k \in S, NEW v \in T
  PROVE  Partial(Put(f, k, v), S, T)
<1>1. DOMAIN Put(f, k, v) \subseteq S
  BY DEF Put, Partial
<1>2. \A i \in DOMAIN Put(f, k, v) : Put(f, k, v)[i] \in T
  BY DEF Put, Partial, Range
<1> QED BY <1>1, <1>2 DEF Partial, Range

LEMMA DropPartial ==
  ASSUME NEW S, NEW T, NEW f, Partial(f, S, T), NEW K
  PROVE  Partial(Drop(f, K), S, T)
<1>1. /\ DOMAIN Drop(f, K) = DOMAIN f \ K
      /\ \A i \in DOMAIN f \ K : Drop(f, K)[i] = f[i]
  BY DropFacts
<1> QED BY <1>1 DEF Partial, Range

\* The tables and directories after a step.
LEMMA StoredNext ==
  ASSUME RequestInv, [Next]_vars
  PROVE  Stored'
<1>0. Stored /\ \A s \in Slots : Local(s)
  BY DEF RequestInv
<1>1. ASSUME UNCHANGED <<disk, files, bin, trash, nextId>> PROVE Stored'
  BY <1>0, <1>1 DEF Stored, Partial, Range
<1>2. ASSUME NEW i \in Items, Create(i) PROVE Stored'
  <2>1. Home[i] \in Paths
    BY DEF Paths
  <2>2. Partial(disk', Paths, Items) /\ Partial(files', Paths, Items \cup {None})
    BY <1>0, <1>2, <2>1, PutPartial DEF Create, Stored
  <2> QED BY <1>0, <1>2, <2>2 DEF Create, Stored, Partial, Range
<1>3. ASSUME NEW s \in Slots, Drive(s) PROVE Stored'
  <2>1. ASSUME NEW path \in Paths, Delete(s, path) PROVE Stored'
    <3>1. disk[path] \in Items
      BY <1>0, <2>1 DEF Delete, Stored, Partial, Range
    <3>2. Partial(bin', Rows, Items) /\ Partial(trash', Rows, Paths)
      BY <1>0, <2>1, <3>1, PutPartial DEF Delete, Stored
    <3>3. Partial(disk', Paths, Items) /\ Partial(files', Paths, Items \cup {None})
      BY <1>0, <2>1, DropPartial DEF Delete, Stored
    <3>4. nextId' \in 1..(MaxRows + 1)
      BY <1>0, <2>1, TrashAssumption DEF Delete, Stored, Rows
    <3> QED BY <3>2, <3>3, <3>4 DEF Stored
  <2>2. ASSUME NEW path \in Paths, DeleteRow(s, path) PROVE Stored'
    <3>1. Partial(files', Paths, Items \cup {None})
      BY <1>0, <2>2, DropPartial DEF DeleteRow, Stored
    <3> QED BY <1>0, <2>2, <3>1 DEF DeleteRow, Stored, Partial, Range
  <2> QED BY <1>1, <1>3, <2>1, <2>2 DEF Drive, Recount
<1>4. ASSUME NEW s \in Slots, RestoreStep(s) PROVE Stored'
  <2>1. ASSUME NEW id \in Rows, RestoreRename(s, id) PROVE Stored'
    <3>1. req[s].path \in Paths /\ bin[id] \in Items
      BY <1>0, <2>1 DEF RestoreRename, At, Local, Stored, Partial, Range
    <3>2. Partial(disk', Paths, Items)
      BY <1>0, <2>1, <3>1, PutPartial DEF RestoreRename, Stored
    <3>3. Partial(bin', Rows, Items)
      BY <1>0, <2>1, DropPartial DEF RestoreRename, Stored
    <3> QED BY <1>0, <2>1, <3>2, <3>3 DEF RestoreRename, Stored, Partial, Range
  <2>2. ASSUME NEW id \in Rows, RestoreCommit(s, id) PROVE Stored'
    <3>1. req[s].path \in Paths
      BY <1>0, <2>2 DEF RestoreCommit, At, Local
    <3>2. Found(req[s].path) \in Items \cup {None}
      BY <1>0 DEF Found, Stored, Partial, Range
    <3>3. Partial(files', Paths, Items \cup {None})
      BY <1>0, <2>2, <3>1, <3>2, PutPartial DEF RestoreCommit, Stored
    <3>4. Partial(trash', Rows, Paths)
      BY <1>0, <2>2, DropPartial DEF RestoreCommit, Stored
    <3> QED BY <1>0, <2>2, <3>3, <3>4 DEF RestoreCommit, Stored, Partial, Range
  <2>3. ASSUME NEW id \in Rows, RestoreReject(s, id) PROVE Stored'
    <3>1. Partial(disk', Paths, Items)
      BY <1>0, <2>3, DropPartial DEF RestoreReject, Stored
    <3>2. Partial(bin', Rows, Items)
      <4>1. CASE req[s].path \in DOMAIN disk
        <5>1. disk[req[s].path] \in Items
          BY <1>0, <4>1 DEF Stored, Partial, Range
        <5> QED BY <1>0, <2>3, <4>1, <5>1, PutPartial DEF RestoreReject, Stored
      <4>2. CASE req[s].path \notin DOMAIN disk
        BY <1>0, <2>3, <4>2 DEF RestoreReject, Stored
      <4> QED BY <4>1, <4>2
    <3> QED BY <1>0, <2>3, <3>1, <3>2 DEF RestoreReject, Stored, Partial, Range
  <2> QED BY <1>1, <1>4, <2>1, <2>2, <2>3
          DEF RestoreStep, RestoreConflict, RestoreGone, RestoreCheck
<1>5. ASSUME NEW s \in Slots, RemoveStep(s) PROVE Stored'
  <2>1. ASSUME NEW id \in Rows, Remove(s, id) PROVE Stored'
    <3>1. Partial(bin', Rows, Items)
      BY <1>0, <2>1, DropPartial DEF Remove, Stored
    <3> QED BY <1>0, <2>1, <3>1 DEF Remove, Stored, Partial, Range
  <2>2. ASSUME NEW id \in Rows, ForgetOne(s, id) PROVE Stored'
    <3>1. Partial(trash', Rows, Paths)
      BY <1>0, <2>2, DropPartial DEF ForgetOne, Stored
    <3> QED BY <1>0, <2>2, <3>1 DEF ForgetOne, Stored, Partial, Range
  <2>3. CASE ForgetAll(s)
    <3>1. Partial(trash', Rows, Paths)
      BY <1>0, <2>3, DropPartial DEF ForgetAll, Stored
    <3> QED BY <1>0, <2>3, <3>1 DEF ForgetAll, Stored, Partial, Range
  <2> QED BY <1>1, <1>5, <2>1, <2>2, <2>3 DEF RemoveStep, RemoveFails, ForgetFails
<1>6. ASSUME NEW s \in Slots, Enter(s) \/ Disconnect(s) PROVE Stored'
  BY <1>1, <1>6 DEF Enter, ReadRow, ReadAll, ReadExpired, Ask, Acquire, Disconnect
<1>7. CASE UNCHANGED vars \/ Crash
  BY <1>1, <1>7 DEF vars, Crash
<1> QED BY <1>2, <1>3, <1>4, <1>5, <1>6, <1>7 DEF Next

\* A step of request s, which leaves the others and the map of mutexes.
Keeps(s) == Frame(s) /\ Local(s)' /\ Map'

LEMMA DoneKeeps ==
  ASSUME RequestInv, NEW s \in Slots, Done(s), UNCHANGED locks
  PROVE  Keeps(s)
  BY DoneFacts, EndedIsLocal DEF RequestInv, Keeps, Map

LEMMA DriveKeeps ==
  ASSUME RequestInv, NEW s \in Slots, Drive(s)
  PROVE  Keeps(s)
<1>0. Shape /\ Map
  BY DEF RequestInv
<1>1. ASSUME NEW path \in Paths, Delete(s, path) \/ DeleteRow(s, path) PROVE Keeps(s)
  <2>1. Start(s, "recount", "delete", {}, path) /\ UNCHANGED locks
    BY <1>1 DEF Delete, DeleteRow
  <2> QED BY <1>0, <2>1, StartFacts, StartedIsLocal DEF Keeps, Map
<1>2. CASE Recount(s)
  BY <1>2, DoneKeeps DEF Recount
<1> QED BY <1>1, <1>2 DEF Drive

LEMMA EnterKeeps ==
  ASSUME RequestInv, NEW s \in Slots, Enter(s)
  PROVE  Keeps(s)
<1>0. Shape /\ Map /\ Stored
  BY DEF RequestInv
<1>1. ASSUME NEW pc \in {"ask", "recount"}, NEW op \in {"purge", "clear", "expire"},
             NEW rows \in SUBSET Rows, NEW path \in Paths \cup {None},
             Start(s, pc, op, rows, path), UNCHANGED locks
      PROVE  Keeps(s)
  BY <1>0, <1>1, StartFacts, StartedIsLocal DEF Keeps, Map
<1>2. ASSUME NEW id \in Rows, NEW op \in {"restore", "purge"}, ReadRow(s, op, id)
      PROVE  Keeps(s)
  <2>1. Start(s, "ask", op, {id}, trash[id]) /\ UNCHANGED locks /\ trash[id] \in Paths
    BY <1>0, <1>2 DEF ReadRow, Stored, Partial, Range
  <2>2. Local(s)'
    BY <1>0, <2>1, StartedIsLocal
  <2> QED BY <1>0, <2>1, <2>2, StartFacts DEF Keeps, Map
<1>3. CASE ReadAll(s)
  <2>1. DOMAIN trash \in SUBSET Rows
    BY <1>0 DEF Stored, Partial
  <2> QED BY <1>1, <1>3, <2>1 DEF ReadAll
<1>4. ASSUME NEW id \in Rows, ReadExpired(s, id) PROVE Keeps(s)
  <2>1. DOMAIN trash \cap 1..id \in SUBSET Rows
    BY <1>0 DEF Stored, Partial
  <2>2. Start(s, "ask", "expire", DOMAIN trash \cap 1..id, None) /\ UNCHANGED locks
    BY <1>4 DEF ReadExpired
  <2> QED BY <1>1, <2>1, <2>2
<1>5. ASSUME NEW id \in Rows, Ask(s, id) PROVE Keeps(s)
  BY <1>5, AskFacts, AskIsLocal DEF Keeps
<1>6. CASE Acquire(s)
  <2>1. Frame(s) /\ Local(s)'
    BY <1>6, AcquireFacts, AcquireIsLocal
  <2> QED BY <1>0, <1>6, <2>1 DEF Keeps, Map, Acquire
<1> QED BY <1>2, <1>3, <1>4, <1>5, <1>6 DEF Enter

LEMMA RestoreKeeps ==
  ASSUME RequestInv, NEW s \in Slots, RestoreStep(s)
  PROVE  Keeps(s)
<1>0. Map /\ Stored /\ Local(s)
  BY DEF RequestInv
<1>1. UNCHANGED locks
  BY DEF RestoreStep, RestoreConflict, RestoreGone, RestoreCheck, RestoreRename,
         RestoreCommit, RestoreReject
<1>2. ASSUME NEW id \in Rows, RestoreCheck(s, id) PROVE Keeps(s)
  <2>1. id \in DOMAIN bin => Charge(bin[id]) \in Nat
    BY <1>0, LengthsAreNat DEF Stored, Partial, Range
  <2>2. /\ Frame(s) /\ req'[s] \in Request
        /\ req'[s].pc = "checked" /\ req'[s].op = req[s].op /\ req'[s].path = req[s].path
        /\ req'[s].rows = req[s].rows /\ req'[s].todo = req[s].todo
        /\ req'[s].want = req[s].want /\ req'[s].held = req[s].held
    BY <1>2, <2>1, CheckFacts
  <2>3. req[s] # None /\ req[s].pc = "locked" /\ req[s].op = "restore"
    BY <1>0, <1>2 DEF RestoreCheck, At, Local
  <2>4. Owned(s)' = Owned(s)
    BY <2>2, <2>3 DEF Owned
  <2>5. Local(s)'
    BY <2>2, <2>3, <2>4, WorkIsLocal
  <2> QED BY <1>0, <1>1, <2>2, <2>5 DEF Keeps, Map
<1>3. ASSUME NEW id \in Rows, RestoreRename(s, id) PROVE Keeps(s)
  <2>1. /\ Step(s, "moved")
        /\ req[s] # None /\ req[s].pc = "checked" /\ req[s].op = "restore"
    BY <1>0, <1>3 DEF RestoreRename, At, Local
  <2>2. /\ Frame(s) /\ req'[s] \in Request
        /\ req'[s].pc = "moved" /\ req'[s].op = req[s].op /\ req'[s].path = req[s].path
        /\ req'[s].rows = req[s].rows /\ req'[s].todo = req[s].todo
        /\ req'[s].want = req[s].want /\ req'[s].held = req[s].held
    BY <2>1, StepFacts
  <2>3. Owned(s)' = Owned(s)
    BY <2>1, <2>2 DEF Owned
  <2>4. Local(s)'
    BY <2>1, <2>2, <2>3, WorkIsLocal
  <2> QED BY <1>0, <1>1, <2>2, <2>4 DEF Keeps, Map
<1> QED BY <1>1, <1>2, <1>3, DoneKeeps
        DEF RestoreStep, RestoreConflict, RestoreGone, RestoreCommit, RestoreReject

LEMMA RemoveStepKeeps ==
  ASSUME RequestInv, NEW s \in Slots, RemoveStep(s)
  PROVE  Keeps(s)
<1>0. Map /\ Local(s)
  BY DEF RequestInv
<1>1. UNCHANGED locks
  BY DEF RemoveStep, Remove, RemoveFails, ForgetOne, ForgetAll, ForgetFails
<1>2. ASSUME NEW id \in Rows, Remove(s, id) PROVE Keeps(s)
  <2>1. req[s] # None /\ req[s].pc = "remove"
    BY <1>2 DEF Remove, At
  <2>2. /\ Frame(s) /\ req'[s] \in Request
        /\ req'[s].pc = IF req[s].op = "clear" /\ req[s].todo \ {id} # {}
                        THEN "remove" ELSE "forget"
        /\ req'[s].op = req[s].op /\ req'[s].path = req[s].path
        /\ req'[s].rows = req[s].rows
        /\ req'[s].todo = IF req[s].op = "clear" THEN req[s].todo \ {id} ELSE req[s].todo
        /\ req'[s].want = req[s].want /\ req'[s].held = req[s].held
    BY <1>2, RemoveFacts
  <2>3. /\ Owned(s)' = Owned(s)
        /\ req'[s].pc \in {"remove", "forget"} /\ req'[s].todo \subseteq req[s].todo
    BY <2>1, <2>2 DEF Owned
  <2>4. Local(s)'
    BY <2>1, <2>2, <2>3, WorkIsLocal
  <2> QED BY <1>0, <1>1, <2>2, <2>4 DEF Keeps, Map
<1>3. ASSUME NEW id \in Rows, NextExpired(s, id), req[s] # None, req[s].pc # "wait",
             req[s].op = "expire"
      PROVE  Keeps(s)
  BY <1>0, <1>1, <1>3, NextExpiredFacts, NextExpiredIsLocal DEF Keeps, Map
<1>4. ASSUME NEW id \in Rows, RemoveFails(s, id) PROVE Keeps(s)
  <2>1. CASE req[s].op = "expire"
    BY <1>3, <1>4, <2>1 DEF RemoveFails, At
  <2>2. CASE req[s].op # "expire"
    BY <1>1, <1>4, <2>2, DoneKeeps DEF RemoveFails
  <2> QED BY <2>1, <2>2
<1>5. ASSUME req[s] # None, req[s].pc = "forget", Frame(s), req'[s] \in Request,
             req'[s].pc = "recount", req'[s].op = req[s].op, req'[s].path = req[s].path,
             req'[s].rows = req[s].rows, req'[s].todo = req[s].todo,
             req'[s].want = req[s].want, req'[s].held \subseteq req[s].held
      PROVE  Keeps(s)
  <2>1. Owned(s)' = {}
    BY <1>5 DEF Owned
  <2>2. Local(s)'
    BY <1>5, <2>1, WorkIsLocal
  <2> QED BY <1>0, <1>1, <1>5, <2>2 DEF Keeps, Map
<1>6. ASSUME NEW id \in Rows, ForgetOne(s, id) PROVE Keeps(s)
  <2>1. CASE req[s].op = "expire"
    BY <1>3, <1>6, <2>1 DEF ForgetOne, At
  <2>2. CASE req[s].op # "expire"
    <3>1. Step(s, "recount") /\ req[s] # None /\ req[s].pc = "forget"
      BY <1>6, <2>2 DEF ForgetOne, At
    <3> QED BY <1>5, <3>1, StepFacts
  <2> QED BY <2>1, <2>2
<1>7. CASE ForgetAll(s)
  <2>1. req[s] # None /\ req[s].pc = "forget"
    BY <1>7 DEF ForgetAll, At
  <2>2. CASE req' = [req EXCEPT ![s].pc = "recount", ![s].held = {}]
    BY <1>5, <2>1, <2>2, ClearedFacts
  <2> QED BY <1>1, <1>7, <2>2, DoneKeeps DEF ForgetAll
<1> QED BY <1>1, <1>2, <1>4, <1>6, <1>7, DoneKeeps DEF RemoveStep, ForgetFails

LEMMA SlotStepKeeps ==
  ASSUME RequestInv, NEW s \in Slots,
         Drive(s) \/ Enter(s) \/ RestoreStep(s) \/ RemoveStep(s) \/ Disconnect(s)
  PROVE  Keeps(s)
  BY DriveKeeps, EnterKeeps, RestoreKeeps, RemoveStepKeeps, DoneKeeps DEF Disconnect

LEMMA RequestInvNext == ASSUME RequestInv, [Next]_vars PROVE RequestInv'
<1>0. Shape /\ Map /\ \A s \in Slots : Local(s)
  BY DEF RequestInv
<1>1. Stored' /\ Shape'
  BY <1>0, StoredNext, ShapeNext
<1>2. ASSUME UNCHANGED <<req, locks>> PROVE RequestInv'
  BY <1>0, <1>1, <1>2 DEF RequestInv, Map, Local, Owned, Holds
<1>3. ASSUME NEW s \in Slots,
             Drive(s) \/ Enter(s) \/ RestoreStep(s) \/ RemoveStep(s) \/ Disconnect(s)
      PROVE  RequestInv'
  <2>1. Frame(s) /\ Local(s)' /\ Map'
    BY <1>3, SlotStepKeeps DEF Keeps
  <2>2. \A t \in Slots \ {s} : Local(t)'
    BY <2>1, OthersStayLocal
  <2> QED BY <1>1, <2>1, <2>2 DEF RequestInv
<1>4. CASE Crash
  <2>1. \A s \in Slots : Local(s)'
    BY <1>4, EndedIsLocal DEF Crash
  <2> QED BY <1>1, <1>4, <2>1 DEF Crash, RequestInv, Map, Empty
<1>5. CASE UNCHANGED vars \/ \E i \in Items : Create(i)
  BY <1>2, <1>5 DEF vars, Create
<1> QED BY <1>3, <1>4, <1>5 DEF Next

LEMMA RequestInvInit == Init => RequestInv
<1> SUFFICES ASSUME Init PROVE RequestInv
  OBVIOUS
<1>1. \A s \in Slots : Local(s)
  BY DEF Init, Local
<1>2. Stored
  BY TrashAssumption DEF Init, Stored, Partial, Range, Empty
<1> QED BY <1>1, <1>2 DEF Init, RequestInv, Shape, Map, Empty

------------------------------------------------------------------------------
(* Nobody waits for ever because of the mutexes                            *)

\* The largest row that a request of the set waits for.
LEMMA LastWaiting ==
  ASSUME NEW S, IsFiniteSet(S), S # {}, NEW f, \A s \in S : f[s] \in Nat
  PROVE  \E s \in S : \A t \in S : f[t] <= f[s]
<1> DEFINE T == {n \in Nat : \A U \in SUBSET S : Cardinality(U) = n + 1 =>
                               \E s \in U : \A t \in U : f[t] <= f[s]}
<1>0. \A U \in SUBSET S : IsFiniteSet(U) /\ Cardinality(U) \in Nat
  BY FS_Subset, FS_CardinalityType
<1>1. 0 \in T
  <2> SUFFICES ASSUME NEW U \in SUBSET S, Cardinality(U) = 1
               PROVE  \E s \in U : \A t \in U : f[t] <= f[s]
    OBVIOUS
  <2>1. PICK s : U = {s}
    BY <1>0, FS_Singleton
  <2> QED BY <2>1
<1>2. ASSUME NEW n \in Nat, n \in T PROVE n + 1 \in T
  <2> SUFFICES ASSUME NEW U \in SUBSET S, Cardinality(U) = n + 1 + 1
               PROVE  \E s \in U : \A t \in U : f[t] <= f[s]
    OBVIOUS
  <2>1. PICK u \in U : TRUE
    <3>1. U # {}
      BY <1>0, FS_EmptySet
    <3> QED BY <3>1
  <2>2. Cardinality(U \ {u}) = n + 1
    BY <1>0, FS_RemoveElement
  <2>3. PICK s \in U \ {u} : \A t \in U \ {u} : f[t] <= f[s]
    BY <1>2, <2>2
  <2>4. \A t \in U : f[t] \in Nat
    OBVIOUS
  <2>5. CASE f[u] <= f[s]
    BY <2>3, <2>5
  <2>6. CASE f[s] <= f[u]
    <3>1. \A t \in U : f[t] <= f[u]
      BY <2>3, <2>4, <2>6
    <3> QED BY <3>1
  <2> QED BY <2>4, <2>5, <2>6
<1> HIDE DEF T
<1>3. Nat \subseteq T
  BY <1>1, <1>2, Induct
<1>4. Cardinality(S) - 1 \in Nat /\ Cardinality(S) = Cardinality(S) - 1 + 1
  <2>1. Cardinality(S) \in Nat /\ Cardinality(S) # 0
    BY FS_CardinalityType, FS_EmptySet
  <2> QED BY <2>1
<1>5. Cardinality(S) - 1 \in T
  BY <1>3, <1>4
<1> QED BY <1>4, <1>5 DEF T

LEMMA NobodyWaitsInCircles ==
  ASSUME RequestInv
  PROVE  NoCircularWait
<1> SUFFICES ASSUME NEW S \in SUBSET {s \in Slots : At(s, "wait")}, S # {}
             PROVE  \E s \in S : \A t \in S : req[s].want \notin req[t].held
  BY DEF NoCircularWait
<1> DEFINE row == [s \in S |-> req[s].want[1]]
<1>1. \A s \in S : /\ req[s].want \in Mutexes /\ req[s].want[1] \in req[s].todo
                   /\ \A m \in req[s].held, id \in req[s].todo : m[1] < id
  BY DEF RequestInv, Local, At, NextRow
<1>2. \A s \in S : row[s] \in Nat
  BY <1>1, MutexFacts
<1>3. IsFiniteSet(S)
  BY TrashAssumption, FS_Subset
<1>4. PICK s \in S : \A t \in S : row[t] <= row[s]
  <2> HIDE DEF row
  <2> QED BY <1>2, <1>3, LastWaiting
<1>5. ASSUME NEW t \in S, req[s].want \in req[t].held PROVE FALSE
  <2>1. row[s] < row[t]
    BY <1>1, <1>5
  <2> QED BY <1>2, <1>4, <2>1
<1> QED BY <1>5

\* No set of requests waits for each other, however many rows are cleared at
\* once and even when the map of the mutexes is emptied under them.
THEOREM NobodyWaitsForEver == Spec => []NoCircularWait
<1>1. Init => RequestInv
  BY RequestInvInit
<1>2. RequestInv /\ [Next]_vars => RequestInv'
  BY RequestInvNext
<1>3. RequestInv => NoCircularWait
  BY NobodyWaitsInCircles
<1> QED BY <1>1, <1>2, <1>3, PTL DEF Spec

------------------------------------------------------------------------------
(* The rows of the drive, and the rows of the trash                        *)

\* While requests do not overlap the rows describe what is on disk, and what a
\* restore has put there is there without a row.
Registered ==
  Without({"overlap"}) =>
    /\ \A path \in DOMAIN files : path \in DOMAIN disk /\ files[path] = disk[path]
    /\ \A s \in Slots : At(s, "moved") => req[s].path \in DOMAIN disk \ DOMAIN files

\* Nothing else is there without a row.
Rowless ==
  Without({"crash", "disconnect", "overlap"}) =>
    \A path \in DOMAIN disk \ DOMAIN files :
      \E s \in Slots : At(s, "moved") /\ req[s].path = path

\* A row whose file is gone is one that a request has emptied.
Empties(s, id) == req[s] # None /\ id \in Emptied(s)

Gone ==
  Without({"iofail", "dberror", "crash", "disconnect", "overlap"}) =>
    \A id \in DOMAIN trash \ DOMAIN bin : \E s \in Slots : Empties(s, id)

DriveInv == RequestInv /\ TargetInv /\ Registered /\ Rowless

\* Asking for a mutex and getting it changes nothing else.
LEMMA EnterEffect ==
  ASSUME RequestInv, NEW s \in Slots, Enter(s)
  PROVE  /\ UNCHANGED <<disk, files, bin, trash, nextId, used, faults>>
         /\ Frame(s)
         /\ req[s] = None \/ req[s].pc \in {"ask", "wait"}
         /\ req'[s].pc \in {"ask", "recount", "wait", "locked", "remove"}
<1>0. Shape
  BY DEF RequestInv
<1>1. UNCHANGED <<disk, files, bin, trash, nextId, used, faults>>
  BY DEF Enter, ReadRow, ReadAll, ReadExpired, Ask, Acquire
<1>2. req[s] = None \/ req[s].pc \in {"ask", "wait"}
  BY DEF Enter, ReadRow, ReadAll, ReadExpired, Ask, Acquire, At
<1>3. Frame(s)
  BY EnterKeeps DEF Keeps
<1>4. req'[s].pc \in {"ask", "recount", "wait", "locked", "remove"}
  <2>1. ASSUME NEW pc \in {"ask", "recount"}, NEW op, NEW rows, NEW path,
               Start(s, pc, op, rows, path)
        PROVE  req'[s].pc \in {"ask", "recount"}
    BY <1>0, <2>1, StartFields
  <2>2. ASSUME NEW id \in Rows, Ask(s, id) PROVE req'[s].pc = "wait"
    BY <2>2, AskFacts
  <2>3. CASE Acquire(s)
    BY <2>3, AcquireFacts
  <2> QED BY <2>1, <2>2, <2>3 DEF Enter, ReadRow, ReadAll, ReadExpired
<1> QED BY <1>1, <1>2, <1>3, <1>4

\* Removing and forgetting leave the drive as it is.
LEMMA RemoveEffect ==
  ASSUME RequestInv, NEW s \in Slots, RemoveStep(s)
  PROVE  /\ UNCHANGED <<disk, files, nextId, used, faults>>
         /\ Frame(s)
         /\ req[s] # None /\ req[s].pc \in {"remove", "forget"}
         /\ req'[s] = None \/ req'[s].pc \in {"remove", "forget", "ask", "recount"}
<1>0. Shape
  BY DEF RequestInv
<1>1. UNCHANGED <<disk, files, nextId, used, faults>>
  BY DEF RemoveStep, Remove, RemoveFails, ForgetOne, ForgetAll, ForgetFails
<1>2. req[s] # None /\ req[s].pc \in {"remove", "forget"}
  BY DEF RemoveStep, Remove, RemoveFails, ForgetOne, ForgetAll, ForgetFails, At
<1>3. Frame(s)
  BY RemoveStepKeeps DEF Keeps
<1>4. req'[s] = None \/ req'[s].pc \in {"remove", "forget", "ask", "recount"}
  <2>1. ASSUME NEW id \in Rows, Remove(s, id) PROVE req'[s].pc \in {"remove", "forget"}
    BY <2>1, RemoveFacts
  <2>2. ASSUME NEW id \in Rows, NextExpired(s, id) PROVE req'[s] = None \/ req'[s].pc = "ask"
    BY <1>2, <2>2, NextExpiredFacts
  <2>3. CASE Done(s)
    BY <1>0, <2>3, DoneFacts
  <2>4. CASE Step(s, "recount")
    BY <1>2, <2>4, StepFacts
  <2>5. CASE req' = [req EXCEPT ![s].pc = "recount", ![s].held = {}]
    BY <1>2, <2>5, ClearedFacts
  <2> QED BY <2>1, <2>2, <2>3, <2>4, <2>5
          DEF RemoveStep, RemoveFails, ForgetOne, ForgetAll, ForgetFails
<1> QED BY <1>1, <1>2, <1>3, <1>4

\* A step that touches neither the drive nor a restore between rename and commit.
LEMMA DriveStays ==
  ASSUME DriveInv, UNCHANGED <<disk, files, faults>>,
         \A s \in Slots : /\ At(s, "moved")' <=> At(s, "moved")
                          /\ At(s, "moved") => req'[s].path = req[s].path
  PROVE  Registered' /\ Rowless'
  BY DEF DriveInv, Registered, Rowless, Without

LEMMA CreateRegisters ==
  ASSUME DriveInv, NEW i \in Items, Create(i)
  PROVE  Registered' /\ Rowless'
<1>1. /\ UNCHANGED <<req, faults>>
      /\ Home[i] \notin DOMAIN disk \cup DOMAIN files
      /\ disk' = Put(disk, Home[i], i) /\ files' = Put(files, Home[i], i)
  BY DEF Create
<1>2. /\ DOMAIN disk' = DOMAIN disk \cup {Home[i]} /\ disk'[Home[i]] = i
      /\ DOMAIN files' = DOMAIN files \cup {Home[i]} /\ files'[Home[i]] = i
      /\ \A path \in DOMAIN disk : disk'[path] = disk[path]
      /\ \A path \in DOMAIN files : files'[path] = files[path]
  BY <1>1 DEF Put
<1>3. \A s \in Slots : At(s, "moved")' = At(s, "moved")
  BY <1>1 DEF At
<1>4. Without({"overlap"}) => \A s \in Slots : At(s, "moved") => req[s].path # Home[i]
  BY DEF Create, Quiet, Placing, Without
<1>5. Registered'
  BY <1>1, <1>2, <1>3, <1>4 DEF DriveInv, Registered, Without
<1>6. Rowless'
  BY <1>1, <1>2, <1>3 DEF DriveInv, Rowless, Without
<1> QED BY <1>5, <1>6

LEMMA DeleteRegisters ==
  ASSUME DriveInv, NEW s \in Slots, NEW path \in Paths, Delete(s, path) \/ DeleteRow(s, path)
  PROVE  Registered' /\ Rowless'
<1>0. Shape /\ Registered /\ Rowless
  BY DEF DriveInv, RequestInv
<1>1. /\ UNCHANGED faults /\ req[s] = None /\ Quiet(path)
      /\ Start(s, "recount", "delete", {}, path)
      /\ files' = Drop(files, {path})
  BY DEF Delete, DeleteRow
<1>2. /\ DOMAIN files' = DOMAIN files \ {path}
      /\ \A other \in DOMAIN files' : files'[other] = files[other]
  BY <1>1 DEF Drop, Restrict
<1>3. \A t \in Slots : /\ At(t, "moved")' <=> At(t, "moved")
                       /\ At(t, "moved") => req'[t] = req[t]
  <2>1. Frame(s) /\ req'[s].pc = "recount"
    BY <1>0, <1>1, StartFields
  <2> QED BY <1>1, <2>1 DEF At, Frame
<1>4. Without({"overlap"}) => \A t \in Slots : At(t, "moved") => req[t].path # path
  BY <1>1 DEF Quiet, Placing, Without
<1>5. CASE Delete(s, path)
  <2>1. /\ DOMAIN disk' = DOMAIN disk \ {path}
        /\ \A other \in DOMAIN disk' : disk'[other] = disk[other]
    BY <1>5 DEF Delete, Drop, Restrict
  <2>2. Registered'
    BY <1>0, <1>1, <1>2, <1>3, <1>4, <2>1 DEF Registered, Without
  <2>3. Rowless'
    BY <1>0, <1>1, <1>2, <1>3, <2>1 DEF Rowless, Without
  <2> QED BY <2>2, <2>3
<1>6. CASE DeleteRow(s, path)
  <2>1. UNCHANGED disk /\ path \in DOMAIN files \ DOMAIN disk
    BY <1>6 DEF DeleteRow
  <2>2. Registered'
    BY <1>0, <1>1, <1>2, <1>3, <2>1 DEF Registered, Without
  <2>3. Rowless'
    BY <1>0, <1>1, <1>2, <1>3, <2>1 DEF Rowless, Without
  <2> QED BY <2>2, <2>3
<1> QED BY <1>5, <1>6

LEMMA RenameRegisters ==
  ASSUME DriveInv, NEW s \in Slots, NEW id \in Rows, RestoreRename(s, id)
  PROVE  Registered' /\ Rowless'
<1>0. Registered /\ Rowless /\ FreeTarget /\ Apart /\ RequestInv
  BY DEF DriveInv, TargetInv
<1> DEFINE path == req[s].path
<1>1. /\ UNCHANGED <<files, faults>> /\ At(s, "checked") /\ req[s] # None
      /\ disk' = Put(disk, path, bin[id]) /\ Step(s, "moved")
  BY DEF RestoreRename, At
<1>2. /\ DOMAIN disk' = DOMAIN disk \cup {path}
      /\ \A other \in DOMAIN disk \ {path} : disk'[other] = disk[other]
  <2> HIDE DEF path
  <2> QED BY <1>1 DEF Put
<1>3. Frame(s) /\ At(s, "moved")' /\ req'[s].path = path
  BY <1>0, <1>1, StepFacts DEF At
<1>4. \A t \in Slots \ {s} : /\ At(t, "moved")' <=> At(t, "moved")
                             /\ At(t, "moved") => req'[t].path = req[t].path
  BY <1>3 DEF At, Frame
<1>5. Without({"overlap"}) => path \notin DOMAIN disk /\ path \notin DOMAIN files
  BY <1>0, <1>1 DEF FreeTarget, Registered
<1>6. Registered'
  BY <1>0, <1>1, <1>2, <1>3, <1>4, <1>5 DEF Registered, Without
<1>7. ~At(s, "moved")
  BY <1>1 DEF At
<1>8. Rowless'
  BY <1>0, <1>1, <1>2, <1>3, <1>4, <1>7 DEF Rowless, Without
<1> QED BY <1>6, <1>8

LEMMA CommitRegisters ==
  ASSUME DriveInv, NEW s \in Slots, NEW id \in Rows, RestoreCommit(s, id)
  PROVE  Registered' /\ Rowless'
<1>0. Registered /\ Rowless /\ Apart /\ Shape
  BY DEF DriveInv, TargetInv
<1> DEFINE path == req[s].path
<1>1. /\ UNCHANGED <<disk, faults>> /\ At(s, "moved") /\ Done(s)
      /\ files' = Put(files, path, Found(path))
  BY DEF RestoreCommit
<1>2. /\ DOMAIN files' = DOMAIN files \cup {path}
      /\ files'[path] = Found(path)
      /\ \A other \in DOMAIN files \ {path} : files'[other] = files[other]
  <2> HIDE DEF path
  <2> QED BY <1>1 DEF Put
<1>3. Frame(s) /\ ~At(s, "moved")'
  BY <1>0, <1>1, DoneFacts DEF At
<1>4. \A t \in Slots \ {s} : /\ At(t, "moved")' <=> At(t, "moved")
                             /\ At(t, "moved") => req'[t].path = req[t].path
  BY <1>3 DEF At, Frame
<1>5. Without({"overlap"}) => \A t \in Slots \ {s} : At(t, "moved") => req[t].path # path
  BY <1>0, <1>1 DEF Apart, Placing
<1>6. Registered'
  BY <1>0, <1>1, <1>2, <1>3, <1>4, <1>5 DEF Registered, Without, Found
<1>7. Rowless'
  BY <1>0, <1>1, <1>2, <1>3, <1>4 DEF Rowless, Without
<1> QED BY <1>6, <1>7

LEMMA RejectRegisters ==
  ASSUME DriveInv, NEW s \in Slots, NEW id \in Rows, RestoreReject(s, id)
  PROVE  Registered' /\ Rowless'
<1>0. Registered /\ Rowless /\ Apart /\ Shape
  BY DEF DriveInv, TargetInv
<1> DEFINE path == req[s].path
<1>1. /\ UNCHANGED <<files, faults>> /\ At(s, "moved") /\ Done(s)
      /\ disk' = Drop(disk, {path})
  BY DEF RestoreReject
<1>2. /\ DOMAIN disk' = DOMAIN disk \ {path}
      /\ \A other \in DOMAIN disk' : disk'[other] = disk[other]
  BY <1>1 DEF Drop, Restrict
<1>3. Frame(s) /\ ~At(s, "moved")'
  BY <1>0, <1>1, DoneFacts DEF At
<1>4. \A t \in Slots \ {s} : /\ At(t, "moved")' <=> At(t, "moved")
                             /\ At(t, "moved") => req'[t].path = req[t].path
  BY <1>3 DEF At, Frame
<1>5. Without({"overlap"}) => \A t \in Slots \ {s} : At(t, "moved") => req[t].path # path
  BY <1>0, <1>1 DEF Apart, Placing
<1>6. Registered'
  BY <1>0, <1>1, <1>2, <1>3, <1>4, <1>5 DEF Registered, Without
<1>7. Rowless'
  BY <1>0, <1>1, <1>2, <1>3, <1>4 DEF Rowless, Without
<1> QED BY <1>6, <1>7

LEMMA DriveInvNext == ASSUME DriveInv, [Next]_vars PROVE DriveInv'
<1>0. RequestInv /\ TargetInv /\ Shape
  BY DEF DriveInv, TargetInv
<1>1. RequestInv' /\ TargetInv'
  BY <1>0, RequestInvNext, TargetNext
<1>2. Registered' /\ Rowless'
  <2>1. CASE UNCHANGED vars
    BY <2>1, DriveStays DEF vars, At
  <2>2. ASSUME NEW s \in Slots, UNCHANGED <<disk, files, faults>>, Frame(s),
               ~At(s, "moved"), ~At(s, "moved")'
        PROVE  Registered' /\ Rowless'
    <3>1. \A t \in Slots : /\ At(t, "moved")' <=> At(t, "moved")
                           /\ At(t, "moved") => req'[t].path = req[t].path
      BY <2>2 DEF At, Frame
    <3> QED BY <2>2, <3>1, DriveStays
  <2>3. ASSUME NEW s \in Slots, Drive(s) PROVE Registered' /\ Rowless'
    <3>1. CASE Recount(s)
      <4>1. ~At(s, "moved") /\ Done(s) /\ UNCHANGED <<disk, files, faults>>
        BY <3>1 DEF Recount, At
      <4> QED BY <1>0, <2>2, <4>1, DoneFacts DEF At
    <3> QED BY <2>3, <3>1, DeleteRegisters DEF Drive
  <2>4. ASSUME NEW s \in Slots, Enter(s) PROVE Registered' /\ Rowless'
    <3>1. ~At(s, "moved") /\ ~At(s, "moved")'
      BY <1>0, <2>4, EnterEffect DEF At
    <3> QED BY <1>0, <2>2, <2>4, <3>1, EnterEffect
  <2>5. ASSUME NEW s \in Slots, RestoreStep(s) PROVE Registered' /\ Rowless'
    <3>1. CASE RestoreConflict(s) \/ RestoreGone(s)
      <4>1. ~At(s, "moved") /\ Done(s) /\ UNCHANGED <<disk, files, faults>>
        BY <3>1 DEF RestoreConflict, RestoreGone, At
      <4> QED BY <1>0, <2>2, <4>1, DoneFacts DEF At
    <3>2. ASSUME NEW id \in Rows, RestoreCheck(s, id) PROVE Registered' /\ Rowless'
      <4>1. id \in DOMAIN bin => Charge(bin[id]) \in Nat
        BY <1>0, LengthsAreNat DEF RequestInv, Stored, Partial, Range
      <4>2. Frame(s) /\ req'[s].pc = "checked"
        BY <1>0, <3>2, <4>1, CheckFacts
      <4> QED BY <2>2, <3>2, <4>2 DEF RestoreCheck, At
    <3> QED BY <2>5, <3>1, <3>2, RenameRegisters, CommitRegisters, RejectRegisters
            DEF RestoreStep
  <2>6. ASSUME NEW s \in Slots, RemoveStep(s) PROVE Registered' /\ Rowless'
    <3>1. ~At(s, "moved") /\ ~At(s, "moved")'
      BY <1>0, <2>6, RemoveEffect DEF At
    <3> QED BY <1>0, <2>2, <2>6, <3>1, RemoveEffect
  <2>7. ASSUME NEW s \in Slots, Disconnect(s) PROVE Registered' /\ Rowless'
    <3>1. /\ UNCHANGED <<disk, files, faults>> /\ "disconnect" \in faults
          /\ Frame(s) /\ req'[s] = None
      BY <1>0, <2>7, DoneFacts DEF Disconnect
    <3>2. \A t \in Slots : At(t, "moved")' => At(t, "moved") /\ req'[t].path = req[t].path
      BY <3>1 DEF At, Frame
    <3> QED BY <3>1, <3>2 DEF DriveInv, Registered, Rowless, Without
  <2>8. CASE Crash
    <3>1. /\ UNCHANGED <<disk, files, faults>> /\ "crash" \in faults
          /\ \A s \in Slots : ~At(s, "moved")'
      BY <2>8 DEF Crash, At
    <3> QED BY <3>1 DEF DriveInv, Registered, Rowless, Without
  <2> QED BY <2>1, <2>3, <2>4, <2>5, <2>6, <2>7, <2>8, CreateRegisters DEF Next
<1> QED BY <1>1, <1>2 DEF DriveInv

LEMMA DriveInvInit == Init => DriveInv
<1> SUFFICES ASSUME Init PROVE DriveInv
  OBVIOUS
<1>1. RequestInv
  BY RequestInvInit
<1>2. TargetInv
  BY DEF Init, TargetInv, Shape, Apart, FreeTarget, Placing, At
<1>3. Registered /\ Rowless
  BY DEF Init, Registered, Rowless, At, Empty
<1> QED BY <1>1, <1>2, <1>3 DEF DriveInv

\* The rows of table files describe what is on disk, and nothing is there without
\* a row but what a restore has just put there: what a refused restore put there
\* is taken back, however many requests restore and delete.
THEOREM RowsDescribeDrive == Spec => []DiskIsRegistered
<1>1. Init => DriveInv
  BY DriveInvInit
<1>2. DriveInv /\ [Next]_vars => DriveInv'
  BY DriveInvNext
<1>3. DriveInv => DiskIsRegistered
  BY DEF DriveInv, Registered, Rowless, DiskIsRegistered, Without
<1> QED BY <1>1, <1>2, <1>3, PTL DEF Spec

LEMMA GoneStep ==
  ASSUME Gone, NEW s \in Slots, Frame(s), UNCHANGED faults,
         Without({"iofail", "dberror", "crash", "disconnect", "overlap"}) =>
           \A id \in DOMAIN trash' \ DOMAIN bin' :
             \/ Empties(s, id)'
             \/ id \in DOMAIN trash \ DOMAIN bin /\ ~Empties(s, id)
  PROVE  Gone'
<1> SUFFICES ASSUME Without({"iofail", "dberror", "crash", "disconnect", "overlap"}),
                    NEW id \in DOMAIN trash' \ DOMAIN bin'
             PROVE  \E t \in Slots : Empties(t, id)'
  BY DEF Gone, Without
<1>1. CASE Empties(s, id)'
  BY <1>1
<1>2. CASE id \in DOMAIN trash \ DOMAIN bin /\ ~Empties(s, id)
  <2>1. PICK t \in Slots \ {s} : Empties(t, id)
    BY <1>2 DEF Gone
  <2>2. Empties(t, id)'
    BY <2>1 DEF Frame, Empties, Emptied
  <2> QED BY <2>2
<1> QED BY <1>1, <1>2

\* A step that neither empties an entry nor gives one up.
LEMMA GoneStays ==
  ASSUME Gone, NEW s \in Slots, Frame(s), UNCHANGED faults,
         DOMAIN trash' \ DOMAIN bin' \subseteq DOMAIN trash \ DOMAIN bin,
         req[s] = None \/ Emptied(s) = {}
  PROVE  Gone'
<1>1. \A id : ~Empties(s, id)
  BY DEF Empties
<1> QED BY <1>1, GoneStep

LEMMA RestoreGoneNext ==
  ASSUME DriveInv, Gone, NEW s \in Slots, RestoreStep(s)
  PROVE  Gone'
<1>0. RequestInv /\ Shape /\ Local(s)
  BY DEF DriveInv, RequestInv
<1>1. Frame(s)
  BY <1>0, RestoreKeeps DEF Keeps
<1>2. CASE RestoreConflict(s) \/ RestoreGone(s) \/ \E id \in Rows : RestoreCheck(s, id)
  <2>1. Emptied(s) = {} /\ UNCHANGED <<bin, trash, faults>>
    BY <1>2 DEF RestoreConflict, RestoreGone, RestoreCheck, At, Emptied
  <2> QED BY <1>1, <2>1, GoneStays
<1>3. ASSUME NEW id \in Rows, RestoreRename(s, id) PROVE Gone'
  <2>1. /\ UNCHANGED <<trash, faults>> /\ Step(s, "moved")
        /\ req[s] # None /\ req[s].pc = "checked" /\ id \in req[s].rows
        /\ DOMAIN bin' = DOMAIN bin \ {id}
    BY <1>3 DEF RestoreRename, At, Drop, Restrict
  <2>2. Empties(s, id)'
    BY <1>0, <2>1, StepFacts DEF Empties, Emptied
  <2>3. \A other : ~Empties(s, other)
    BY <2>1 DEF Empties, Emptied
  <2> QED BY <1>1, <2>1, <2>2, <2>3, GoneStep
<1>4. ASSUME NEW id \in Rows, RestoreCommit(s, id) PROVE Gone'
  <2>1. /\ UNCHANGED <<bin, faults>>
        /\ req[s] # None /\ req[s].pc = "moved" /\ id \in req[s].rows
        /\ DOMAIN trash' = DOMAIN trash \ {id}
    BY <1>4 DEF RestoreCommit, At, Drop, Restrict
  <2>2. \A other : Empties(s, other) => other = id
    BY <1>0, <2>1 DEF Local, Empties, Emptied
  <2> QED BY <1>1, <2>1, <2>2, GoneStep
<1>5. ASSUME NEW id \in Rows, RestoreReject(s, id) PROVE Gone'
  <2>1. /\ UNCHANGED <<trash, faults>> /\ At(s, "moved")
        /\ req[s] # None /\ req[s].pc = "moved" /\ id \in req[s].rows
        /\ DOMAIN bin \subseteq DOMAIN bin'
        /\ req[s].path \in DOMAIN disk => id \in DOMAIN bin'
    BY <1>5 DEF RestoreReject, At, Put
  <2>2. \A other : Empties(s, other) => other = id
    BY <1>0, <2>1 DEF Local, Empties, Emptied
  <2>3. Without({"overlap"}) => id \in DOMAIN bin'
    BY <2>1 DEF DriveInv, Registered
  <2> QED BY <1>1, <2>1, <2>2, <2>3, GoneStep DEF Without
<1> QED BY <1>2, <1>3, <1>4, <1>5 DEF RestoreStep

LEMMA RemoveGoneNext ==
  ASSUME RequestInv, Gone, NEW s \in Slots, RemoveStep(s)
  PROVE  Gone'
<1>0. Shape /\ Local(s)
  BY DEF RequestInv
<1>1. Frame(s) /\ UNCHANGED faults /\ req[s] # None
  BY RemoveEffect
<1>2. req[s].todo \in SUBSET Rows
  BY <1>0, <1>1 DEF Local, Request
<1>3. ASSUME NEW id \in Rows, Remove(s, id) PROVE Gone'
  <2>1. /\ UNCHANGED trash /\ req[s].pc = "remove" /\ id \in NextRow(req[s].todo)
        /\ DOMAIN bin' = DOMAIN bin \ {id}
    BY <1>3 DEF Remove, At, Drop, Restrict
  <2>2. NextRow(req[s].todo) = {id} /\ id \in req[s].todo /\ req[s].todo \subseteq req[s].rows
    BY <1>0, <1>1, <1>2, <2>1, OneNextRow DEF Local
  <2>3. /\ req'[s] # None /\ req'[s].op = req[s].op /\ req'[s].rows = req[s].rows
        /\ req'[s].pc = IF req[s].op = "clear" /\ req[s].todo \ {id} # {}
                        THEN "remove" ELSE "forget"
        /\ req'[s].todo = IF req[s].op = "clear" THEN req[s].todo \ {id} ELSE req[s].todo
    BY <1>3, RemoveFacts
  <2>4. \A other : Empties(s, other) => Empties(s, other)'
    BY <2>1, <2>2, <2>3 DEF Empties, Emptied
  <2>5. Empties(s, id)'
    BY <2>1, <2>2, <2>3 DEF Empties, Emptied
  <2> QED BY <1>1, <2>1, <2>4, <2>5, GoneStep
<1>4. ASSUME NEW id \in Rows, ForgetOne(s, id) PROVE Gone'
  <2>1. /\ UNCHANGED bin /\ req[s].pc = "forget" /\ id \in NextRow(req[s].todo)
        /\ req[s].op # "clear"
        /\ DOMAIN trash' = DOMAIN trash \ {id} \/ "dberror" \in faults
    BY <1>4 DEF ForgetOne, At, Drop, Restrict
  <2>2. NextRow(req[s].todo) = {id}
    BY <1>2, <2>1, OneNextRow
  <2>3. \A other : Empties(s, other) => other = id
    BY <2>1, <2>2 DEF Empties, Emptied
  <2> QED BY <1>1, <2>1, <2>3, GoneStep DEF Without
<1>5. CASE ForgetAll(s)
  <2>1. /\ UNCHANGED bin /\ req[s].pc = "forget" /\ req[s].op = "clear"
        /\ DOMAIN trash' = DOMAIN trash \ req[s].rows
    BY <1>5 DEF ForgetAll, At, Drop, Restrict
  <2>2. \A other : Empties(s, other) => other \in req[s].rows
    BY <2>1 DEF Empties, Emptied
  <2> QED BY <1>1, <2>1, <2>2, GoneStep
<1>6. CASE ForgetFails(s) \/ \E id \in Rows : RemoveFails(s, id)
  BY <1>1, <1>6 DEF ForgetFails, RemoveFails, Gone, Without
<1> QED BY <1>3, <1>4, <1>5, <1>6 DEF RemoveStep

LEMMA GoneNext == ASSUME DriveInv, Gone, [Next]_vars PROVE Gone'
<1>0. RequestInv /\ Shape
  BY DEF DriveInv, RequestInv
<1>1. ASSUME UNCHANGED <<bin, trash, req, faults>> PROVE Gone'
  <2>1. \A s \in Slots : \A id : Empties(s, id)' <=> Empties(s, id)
    BY <1>1 DEF Empties, Emptied
  <2> QED BY <1>1, <2>1 DEF Gone, Without
<1>2. ASSUME NEW s \in Slots, Drive(s) PROVE Gone'
  <2>1. Frame(s)
    BY <1>0, <1>2, DriveKeeps DEF Keeps
  <2>2. ASSUME NEW path \in Paths, Delete(s, path) PROVE Gone'
    <3>1. /\ DOMAIN bin' = DOMAIN bin \cup {nextId} /\ DOMAIN trash' = DOMAIN trash \cup {nextId}
          /\ req[s] = None /\ UNCHANGED faults
      BY <2>2 DEF Delete, Put
    <3> QED BY <2>1, <3>1, GoneStays
  <2>3. CASE Recount(s) \/ \E path \in Paths : DeleteRow(s, path)
    <3>1. /\ UNCHANGED <<bin, trash, faults>>
          /\ req[s] = None \/ Emptied(s) = {}
      BY <2>3 DEF Recount, DeleteRow, At, Emptied
    <3> QED BY <2>1, <3>1, GoneStays
  <2> QED BY <1>2, <2>2, <2>3 DEF Drive
<1>3. ASSUME NEW s \in Slots, Enter(s) PROVE Gone'
  <2>1. /\ UNCHANGED <<bin, trash, faults>> /\ Frame(s)
        /\ req[s] = None \/ Emptied(s) = {}
    BY <1>0, <1>3, EnterEffect DEF Emptied
  <2> QED BY <2>1, GoneStays
<1>4. ASSUME NEW s \in Slots, Disconnect(s) PROVE Gone'
  BY <1>4 DEF Disconnect, Gone, Without
<1>5. CASE Crash
  BY <1>5 DEF Crash, Gone, Without
<1>6. CASE UNCHANGED vars \/ \E i \in Items : Create(i)
  BY <1>1, <1>6 DEF vars, Create
<1> QED BY <1>0, <1>2, <1>3, <1>4, <1>5, <1>6, RestoreGoneNext, RemoveGoneNext DEF Next

\* A row of the trash whose file is gone is one that a request is working on and
\* holds the mutex of, so that nobody restores or removes it a second time.
THEOREM EmptiedRowsAreHeld == Spec => []ListedIsThere
<1>1. Init => DriveInv /\ Gone
  <2>1. Init => Gone
    BY DEF Init, Gone, Empty
  <2> QED BY <2>1, DriveInvInit
<1>2. DriveInv /\ Gone /\ [Next]_vars => (DriveInv /\ Gone)'
  BY DriveInvNext, GoneNext
<1>3. DriveInv /\ Gone => ListedIsThere
  <2> SUFFICES ASSUME DriveInv, Gone,
                      Without({"iofail", "dberror", "crash", "disconnect", "overlap"}),
                      NEW id \in DOMAIN trash \ DOMAIN bin
               PROVE  \E s \in Slots : Holds(s, id)
    BY DEF ListedIsThere
  <2>1. PICK s \in Slots : Empties(s, id)
    BY DEF Gone
  <2>2. req[s] # None /\ id \in Owned(s)
    BY <2>1, EmptiedIsOwned DEF Empties
  <2> QED BY <2>2 DEF DriveInv, RequestInv, Local
<1> QED BY <1>1, <1>2, <1>3, PTL DEF Spec

------------------------------------------------------------------------------
(* What a restore charges                                                  *)

\* A restore works on the path of its row; a row has one path.
Origin ==
  /\ \A id \in DOMAIN trash : id < nextId
  /\ \A s \in Slots : Op(s, "restore") =>
       \A id \in req[s].rows : id < nextId /\ (id \in DOMAIN trash => trash[id] = req[s].path)
  /\ \A s, t \in Slots :
       Op(s, "restore") /\ Op(t, "restore") /\ req[s].rows = req[t].rows
         => req[s].path = req[t].path

\* What it measured is what it restores.
Priced ==
  Without({"overlap"}) => \A s \in Slots :
    /\ At(s, "checked") => \A id \in req[s].rows \cap DOMAIN bin : req[s].charge = Charge(bin[id])
    /\ At(s, "moved") => req[s].charge = Charge(disk[req[s].path])

FilesOnly == Without({"directory"}) => Range(disk) \cap Dirs = {} /\ Range(bin) \cap Dirs = {}

\* The rows and the path of a request stay until it ends.
LEMMA RowsStay ==
  ASSUME RequestInv, NEW s \in Slots,
         Drive(s) \/ Enter(s) \/ RestoreStep(s) \/ RemoveStep(s) \/ Disconnect(s)
  PROVE  \/ req'[s] = None
         \/ /\ req[s] # None
            /\ req'[s].op = req[s].op /\ req'[s].rows = req[s].rows /\ req'[s].path = req[s].path
         \/ req'[s].op # "restore"
         \/ \E id \in DOMAIN trash : /\ req'[s].rows = {id} /\ req'[s].path = trash[id]
                                     /\ UNCHANGED <<trash, nextId>>
<1>0. Shape
  BY DEF RequestInv
<1>1. ASSUME Done(s) PROVE req'[s] = None
  BY <1>0, <1>1, DoneFacts
<1>2. ASSUME NEW pc, NEW op, NEW rows, NEW path, Start(s, pc, op, rows, path), op # "restore"
      PROVE  req'[s].op # "restore"
  BY <1>0, <1>2, StartFields
<1> DEFINE Same == /\ req[s] # None /\ req'[s].op = req[s].op
                   /\ req'[s].rows = req[s].rows /\ req'[s].path = req[s].path
<1>3. ASSUME NEW pc \in {"moved", "recount"}, Step(s, pc), req[s] # None PROVE Same
  BY <1>3, StepFacts
<1>4. ASSUME NEW id \in Rows, NextExpired(s, id), req[s] # None PROVE req'[s] = None \/ Same
  BY <1>4, NextExpiredFacts
<1>5. CASE Drive(s)
  BY <1>1, <1>2, <1>5 DEF Drive, Delete, DeleteRow, Recount
<1>6. CASE Enter(s)
  <2> DEFINE Read == \E id \in DOMAIN trash : /\ req'[s].rows = {id} /\ req'[s].path = trash[id]
                                              /\ UNCHANGED <<trash, nextId>>
  <2>1. ASSUME NEW id \in Rows, ReadRow(s, "restore", id) PROVE Read
    <3>1. /\ id \in DOMAIN trash /\ req'[s].rows = {id} /\ req'[s].path = trash[id]
          /\ UNCHANGED <<trash, nextId>>
      BY <1>0, <2>1, StartFields DEF ReadRow
    <3> QED BY <3>1
  <2>2. ASSUME NEW id \in Rows, Ask(s, id) PROVE Same
    BY <2>2, AskFacts DEF Ask, At
  <2>3. ASSUME Acquire(s) PROVE Same
    BY <2>3, AcquireFacts
  <2>4. ASSUME (\E id \in Rows : ReadRow(s, "purge", id) \/ ReadExpired(s, id)) \/ ReadAll(s)
        PROVE  req'[s].op # "restore"
    BY <1>2, <2>4 DEF ReadRow, ReadExpired, ReadAll
  <2> HIDE DEF Same, Read
  <2>5. Same \/ req'[s].op # "restore" \/ Read
    BY <1>6, <2>1, <2>2, <2>3, <2>4 DEF Enter
  <2> QED BY <2>5 DEF Same, Read
<1>7. CASE RestoreStep(s)
  <2>1. ASSUME NEW id \in Rows, RestoreCheck(s, id) PROVE Same
    <3>1. id \in DOMAIN bin => Charge(bin[id]) \in Nat
      BY LengthsAreNat DEF RequestInv, Stored, Partial, Range
    <3> QED BY <2>1, <3>1, CheckFacts DEF RestoreCheck, At
  <2> QED BY <1>1, <1>3, <1>7, <2>1
          DEF RestoreStep, RestoreConflict, RestoreGone, RestoreRename, RestoreCommit,
              RestoreReject, At
<1>8. CASE RemoveStep(s)
  <2>1. req[s] # None
    BY <1>8, RemoveEffect
  <2>2. ASSUME NEW id \in Rows, Remove(s, id) PROVE Same
    BY <2>1, <2>2, RemoveFacts
  <2>3. ASSUME req' = [req EXCEPT ![s].pc = "recount", ![s].held = {}] PROVE Same
    BY <2>1, <2>3, ClearedFacts
  <2> QED BY <1>1, <1>3, <1>4, <1>8, <2>1, <2>2, <2>3
          DEF RemoveStep, RemoveFails, ForgetOne, ForgetAll, ForgetFails
<1>9. CASE Disconnect(s)
  BY <1>1, <1>9 DEF Disconnect
<1> QED BY <1>5, <1>6, <1>7, <1>8, <1>9

\* No step adds a row to the trash but with the next id.
Grows ==
  /\ nextId <= nextId'
  /\ \A id \in DOMAIN trash' :
       \/ id = nextId /\ nextId < nextId'
       \/ id \in DOMAIN trash /\ trash'[id] = trash[id]

LEMMA TrashGrows ==
  ASSUME RequestInv, [Next]_vars
  PROVE  Grows
<1>0. nextId \in Nat
  BY TrashAssumption DEF RequestInv, Stored
<1>1. ASSUME UNCHANGED nextId,
             \A id \in DOMAIN trash' : id \in DOMAIN trash /\ trash'[id] = trash[id]
      PROVE  Grows
  BY <1>0, <1>1 DEF Grows
<1>2. ASSUME NEW K, trash' = Drop(trash, K), UNCHANGED nextId PROVE Grows
  BY <1>1, <1>2 DEF Drop, Restrict, Grows
<1>3. CASE UNCHANGED <<trash, nextId>>
  BY <1>1, <1>3
<1>4. ASSUME NEW s \in Slots, NEW path \in Paths, Delete(s, path) PROVE Grows
  BY <1>0, <1>4 DEF Delete, Put, Grows
<1>5. ASSUME NEW s \in Slots, Drive(s) PROVE Grows
  BY <1>3, <1>4, <1>5 DEF Drive, DeleteRow, Recount
<1>6. ASSUME NEW s \in Slots, Enter(s) PROVE Grows
  BY <1>3, <1>6, EnterEffect
<1>7. ASSUME NEW s \in Slots, RestoreStep(s) PROVE Grows
  BY <1>2, <1>3, <1>7 DEF RestoreStep, RestoreConflict, RestoreGone, RestoreCheck,
     RestoreRename, RestoreCommit, RestoreReject
<1>8. ASSUME NEW s \in Slots, RemoveStep(s) PROVE Grows
  BY <1>2, <1>3, <1>8 DEF RemoveStep, Remove, RemoveFails, ForgetOne, ForgetAll, ForgetFails
<1>9. ASSUME NEW s \in Slots, Disconnect(s) PROVE Grows
  BY <1>3, <1>9 DEF Disconnect
<1>10. CASE UNCHANGED vars \/ Crash \/ \E i \in Items : Create(i)
  BY <1>3, <1>10 DEF vars, Crash, Create
<1>11. ASSUME NEW s \in Slots,
              Drive(s) \/ Enter(s) \/ RestoreStep(s) \/ RemoveStep(s) \/ Disconnect(s)
       PROVE  Grows
  BY <1>5, <1>6, <1>7, <1>8, <1>9, <1>11
<1> QED BY <1>10, <1>11 DEF Next

LEMMA OriginNext == ASSUME RequestInv, Origin, [Next]_vars PROVE Origin'
<1>0. /\ nextId \in Nat /\ nextId' \in Nat /\ nextId <= nextId'
      /\ \A id \in DOMAIN trash' :
           \/ id = nextId /\ nextId < nextId'
           \/ id \in DOMAIN trash /\ trash'[id] = trash[id]
  <2>1. RequestInv'
    BY RequestInvNext
  <2> QED BY <2>1, TrashGrows, TrashAssumption DEF RequestInv, Stored, Grows
<1>1. \A id \in DOMAIN trash' : id < nextId'
  <2>1. \A id \in DOMAIN trash : id \in Nat
    BY MutexFacts DEF RequestInv, Stored, Partial
  <2> QED BY <1>0, <2>1 DEF Origin
<1>2. ASSUME NEW s \in Slots, Op(s, "restore")
      PROVE  \A id \in req[s].rows :
               id < nextId' /\ (id \in DOMAIN trash' => trash'[id] = req[s].path)
  <2>1. \A id \in req[s].rows : id \in Nat /\ id < nextId
    BY <1>2, MutexFacts DEF Origin, Op, RequestInv, Local, Request
  <2> QED BY <1>0, <1>2, <2>1 DEF Origin
<1>3. ASSUME \A s \in Slots : req'[s] = None \/ req'[s] = req[s] PROVE Origin'
  BY <1>1, <1>2, <1>3 DEF Origin, Op
<1>4. ASSUME NEW s \in Slots,
             Drive(s) \/ Enter(s) \/ RestoreStep(s) \/ RemoveStep(s) \/ Disconnect(s)
      PROVE  Origin'
  <2>1. Frame(s)
    BY <1>4, SlotStepKeeps DEF Keeps
  <2>2. CASE req'[s] = None
    BY <1>3, <2>1, <2>2 DEF Frame
  <2>3. CASE req[s] # None /\ req'[s].op = req[s].op /\ req'[s].rows = req[s].rows
             /\ req'[s].path = req[s].path
    <3>1. \A t \in Slots : Op(t, "restore")' =>
            /\ Op(t, "restore") /\ req'[t].rows = req[t].rows /\ req'[t].path = req[t].path
      BY <2>1, <2>3 DEF Frame, Op
    <3> QED BY <1>1, <1>2, <3>1 DEF Origin
  <2>4. CASE req'[s].op # "restore"
    <3>1. \A t \in Slots : Op(t, "restore")' =>
            /\ Op(t, "restore") /\ req'[t].rows = req[t].rows /\ req'[t].path = req[t].path
      BY <2>1, <2>4 DEF Frame, Op
    <3> QED BY <1>1, <1>2, <3>1 DEF Origin
  <2>5. ASSUME NEW id \in DOMAIN trash, req'[s].rows = {id}, req'[s].path = trash[id],
               UNCHANGED <<trash, nextId>>
        PROVE  Origin'
    <3>1. \A t \in Slots \ {s} : Op(t, "restore")' =>
            /\ Op(t, "restore") /\ req'[t].rows = req[t].rows /\ req'[t].path = req[t].path
      BY <2>1 DEF Frame, Op
    <3>2. \A t \in Slots \ {s} : Op(t, "restore") /\ req[t].rows = {id} => req[t].path = trash[id]
      BY DEF Origin
    <3> QED BY <1>1, <1>2, <2>5, <3>1, <3>2 DEF Origin
  <2> QED BY <1>4, <2>2, <2>3, <2>4, <2>5, RowsStay
<1>5. CASE UNCHANGED vars \/ Crash \/ \E i \in Items : Create(i)
  BY <1>3, <1>5 DEF vars, Crash, Create
<1> QED BY <1>4, <1>5 DEF Next

LEMMA PricedStays ==
  ASSUME Priced, NEW s \in Slots, Frame(s), ~Placing(s)', UNCHANGED <<disk, faults>>,
         \A id \in DOMAIN bin' : id \in DOMAIN bin /\ bin'[id] = bin[id]
  PROVE  Priced'
<1> SUFFICES ASSUME Without({"overlap"}), NEW t \in Slots, Placing(t)'
             PROVE  /\ At(t, "checked")' => \A id \in req'[t].rows \cap DOMAIN bin' :
                                              req'[t].charge = Charge(bin'[id])
                    /\ At(t, "moved")' => req'[t].charge = Charge(disk'[req'[t].path])
  BY DEF Priced, Without, Placing, Charge, Ceil
<1>1. t # s /\ req'[t] = req[t]
  BY DEF Frame
<1> QED BY <1>1 DEF Priced, At

LEMMA PricedDelete ==
  ASSUME DriveInv, Origin, Priced, NEW s \in Slots, NEW path \in Paths, Delete(s, path)
  PROVE  Priced'
<1>0. Shape /\ nextId \in Nat /\ \A t \in Slots : Local(t)
  BY TrashAssumption DEF DriveInv, RequestInv, Stored
<1>1. /\ UNCHANGED faults /\ Quiet(path)
      /\ \A other \in DOMAIN disk \ {path} : disk'[other] = disk[other]
      /\ \A id \in DOMAIN bin' \ {nextId} : id \in DOMAIN bin /\ bin'[id] = bin[id]
  BY DEF Delete, Put, Drop, Restrict
<1>2. Frame(s) /\ req'[s].pc = "recount"
  BY <1>0, StartFields DEF Delete
<1> SUFFICES ASSUME Without({"overlap"}), NEW t \in Slots, Placing(t)'
             PROVE  /\ At(t, "checked")' => \A id \in req'[t].rows \cap DOMAIN bin' :
                                              req'[t].charge = Charge(bin'[id])
                    /\ At(t, "moved")' => req'[t].charge = Charge(disk'[req'[t].path])
  BY <1>1 DEF Priced, Without, Placing
<1>3. t # s /\ req'[t] = req[t] /\ Placing(t)
  BY <1>2 DEF Frame, Placing, At
<1>4. At(t, "checked") => nextId \notin req[t].rows
  <2>1. At(t, "checked") => Op(t, "restore")
    BY <1>0 DEF At, Op, Local
  <2> QED BY <1>0, <2>1 DEF Origin
<1>5. req[t].path # path
  BY <1>1, <1>3 DEF Quiet, Without
<1>6. At(t, "moved") => disk'[req[t].path] = disk[req[t].path]
  BY <1>1, <1>5 DEF DriveInv, Registered
<1> QED BY <1>1, <1>3, <1>4, <1>6 DEF Priced, At

LEMMA PricedRestore ==
  ASSUME DriveInv, Origin, Priced, NEW s \in Slots, RestoreStep(s)
  PROVE  Priced'
<1>0. /\ RequestInv /\ Shape /\ Registered /\ Apart
      /\ \A t \in Slots : Local(t)
  BY DEF DriveInv, RequestInv, TargetInv
<1>1. Frame(s)
  BY <1>0, RestoreKeeps DEF Keeps
<1>2. ASSUME Done(s), UNCHANGED <<disk, bin, faults>> PROVE Priced'
  <2>1. ~Placing(s)'
    BY <1>0, <1>2, DoneFacts DEF Placing, At
  <2> QED BY <1>1, <1>2, <2>1, PricedStays
<1>3. ASSUME NEW id \in Rows, RestoreCheck(s, id) PROVE Priced'
  <2>1. id \in DOMAIN bin => Charge(bin[id]) \in Nat
    BY <1>0, LengthsAreNat DEF RequestInv, Stored, Partial, Range
  <2>2. /\ req'[s] # None /\ req'[s].pc = "checked" /\ req'[s].rows = req[s].rows
        /\ req'[s].charge = IF id \in DOMAIN bin THEN Charge(bin[id]) ELSE 0
    BY <1>0, <1>3, <2>1, CheckFacts
  <2>3. req[s].rows = {id} /\ UNCHANGED <<disk, bin, faults>>
    BY <1>0, <1>3 DEF RestoreCheck, At, Local
  <2>4. \A t \in Slots \ {s} : req'[t] = req[t]
    BY <1>1 DEF Frame
  <2> QED BY <2>2, <2>3, <2>4 DEF Priced, At, Without
<1>4. ASSUME NEW id \in Rows, RestoreRename(s, id) PROVE Priced'
  <2> DEFINE path == req[s].path
  <2>1. /\ At(s, "checked") /\ id \in req[s].rows \cap DOMAIN bin /\ UNCHANGED faults
        /\ Step(s, "moved") /\ req[s] # None
    BY <1>4 DEF RestoreRename, At
  <2>2. /\ req'[s].pc = "moved" /\ req'[s].path = path /\ req'[s].charge = req[s].charge
    BY <1>0, <2>1, StepFacts
  <2>3. /\ \A other \in DOMAIN bin' : other \in DOMAIN bin /\ bin'[other] = bin[other]
        /\ disk'[path] = bin[id]
        /\ \A other \in DOMAIN disk \ {path} : disk'[other] = disk[other]
    BY <1>4 DEF RestoreRename, Put, Drop, Restrict
  <2> SUFFICES ASSUME Without({"overlap"}), NEW t \in Slots
               PROVE  /\ At(t, "checked")' => \A other \in req'[t].rows \cap DOMAIN bin' :
                                                req'[t].charge = Charge(bin'[other])
                      /\ At(t, "moved")' => req'[t].charge = Charge(disk'[req'[t].path])
    BY <2>1 DEF Priced, Without
  <2>4. CASE t = s
    BY <2>1, <2>2, <2>3, <2>4 DEF Priced, At
  <2>5. CASE t # s
    <3>1. req'[t] = req[t]
      BY <1>1, <2>5 DEF Frame
    <3>2. At(t, "moved") => req[t].path # path /\ req[t].path \in DOMAIN disk
      BY <1>0, <2>1, <2>5 DEF Apart, Placing, Registered
    <3> QED BY <2>3, <3>1, <3>2 DEF Priced, At
  <2> QED BY <2>4, <2>5
<1>5. ASSUME NEW id \in Rows, RestoreReject(s, id) PROVE Priced'
  <2> DEFINE path == req[s].path
  <2>1. /\ At(s, "moved") /\ id \in req[s].rows /\ UNCHANGED faults /\ Done(s)
    BY <1>5 DEF RestoreReject
  <2>2. req'[s] = None
    BY <1>0, <2>1, DoneFacts
  <2>3. /\ \A other \in DOMAIN bin' \ {id} : other \in DOMAIN bin /\ bin'[other] = bin[other]
        /\ \A other \in DOMAIN disk \ {path} : disk'[other] = disk[other]
    BY <1>5 DEF RestoreReject, Put, Drop, Restrict
  <2> SUFFICES ASSUME Without({"overlap"}), NEW t \in Slots \ {s}
               PROVE  /\ At(t, "checked")' => \A other \in req'[t].rows \cap DOMAIN bin' :
                                                req'[t].charge = Charge(bin'[other])
                      /\ At(t, "moved")' => req'[t].charge = Charge(disk'[req'[t].path])
    BY <2>1, <2>2 DEF Priced, Without, At
  <2>4. req'[t] = req[t]
    BY <1>1 DEF Frame
  <2>5. Placing(t) => req[t].path # path
    BY <1>0, <2>1 DEF Apart, Placing
  <2>6. At(t, "moved") => req[t].path \in DOMAIN disk
    BY <1>0 DEF Registered
  <2>7. At(t, "checked") => id \notin req[t].rows
    <3>1. Op(s, "restore") /\ req[s].rows = {id}
      BY <1>0, <2>1 DEF At, Op, Local
    <3>2. At(t, "checked") /\ id \in req[t].rows => Op(t, "restore") /\ req[t].rows = {id}
      BY <1>0 DEF At, Op, Local
    <3> QED BY <2>5, <3>1, <3>2 DEF Origin, Placing
  <2> QED BY <2>3, <2>4, <2>5, <2>6, <2>7 DEF Priced, At, Placing
<1> QED BY <1>2, <1>3, <1>4, <1>5
        DEF RestoreStep, RestoreConflict, RestoreGone, RestoreCommit

LEMMA PricedNext == ASSUME DriveInv, Origin, Priced, [Next]_vars PROVE Priced'
<1>0. RequestInv /\ Shape /\ Registered
  BY DEF DriveInv, RequestInv
<1>1. ASSUME NEW i \in Items, Create(i) PROVE Priced'
  <2>1. /\ UNCHANGED <<req, bin, faults>> /\ Home[i] \notin DOMAIN disk
        /\ \A path \in DOMAIN disk \ {Home[i]} : disk'[path] = disk[path]
    BY <1>1 DEF Create, Put
  <2>2. Without({"overlap"}) => \A s \in Slots : At(s, "moved") => req[s].path \in DOMAIN disk
    BY <1>0 DEF Registered
  <2> QED BY <2>1, <2>2 DEF Priced, Without, At
<1>2. ASSUME NEW s \in Slots, Drive(s) PROVE Priced'
  <2>1. ASSUME NEW path \in Paths, DeleteRow(s, path) PROVE Priced'
    <3>1. Frame(s) /\ req'[s].pc = "recount" /\ UNCHANGED <<disk, bin, faults>>
      BY <1>0, <2>1, StartFields DEF DeleteRow
    <3>2. ~Placing(s)'
      BY <3>1 DEF Placing, At
    <3> QED BY <3>1, <3>2, PricedStays
  <2>2. CASE Recount(s)
    <3>1. Frame(s) /\ req'[s] = None /\ UNCHANGED <<disk, bin, faults>>
      BY <1>0, <2>2, DoneFacts DEF Recount
    <3>2. ~Placing(s)'
      BY <3>1 DEF Placing, At
    <3> QED BY <3>1, <3>2, PricedStays
  <2> QED BY <1>2, <2>1, <2>2, PricedDelete DEF Drive
<1>3. ASSUME NEW s \in Slots, Enter(s) PROVE Priced'
  <2>1. Frame(s) /\ UNCHANGED <<disk, bin, faults>>
    BY <1>0, <1>3, EnterEffect
  <2>2. ~Placing(s)'
    BY <1>0, <1>3, EnterEffect DEF Placing, At
  <2> QED BY <2>1, <2>2, PricedStays
<1>4. ASSUME NEW s \in Slots, RemoveStep(s) PROVE Priced'
  <2>1. Frame(s) /\ UNCHANGED <<disk, faults>>
    BY <1>0, <1>4, RemoveEffect
  <2>2. ~Placing(s)'
    BY <1>0, <1>4, RemoveEffect DEF Placing, At
  <2>3. \A id \in DOMAIN bin' : id \in DOMAIN bin /\ bin'[id] = bin[id]
    BY <1>4 DEF RemoveStep, Remove, RemoveFails, ForgetOne, ForgetAll, ForgetFails,
       Drop, Restrict
  <2> QED BY <2>1, <2>2, <2>3, PricedStays
<1>5. ASSUME NEW s \in Slots, Disconnect(s) PROVE Priced'
  <2>1. Frame(s) /\ req'[s] = None /\ UNCHANGED <<disk, bin, faults>>
    BY <1>0, <1>5, DoneFacts DEF Disconnect
  <2>2. ~Placing(s)'
    BY <2>1 DEF Placing, At
  <2> QED BY <2>1, <2>2, PricedStays
<1>6. CASE Crash
  BY <1>6 DEF Crash, Priced, At, Without
<1>7. CASE UNCHANGED vars
  BY <1>7 DEF vars, Priced, At, Without
<1> QED BY <1>1, <1>2, <1>3, <1>4, <1>5, <1>6, <1>7, PricedRestore DEF Next

LEMMA FilesOnlyNext == ASSUME DriveInv, FilesOnly, [Next]_vars PROVE FilesOnly'
<1>1. ASSUME UNCHANGED faults,
             Without({"directory"}) =>
               /\ \A path \in DOMAIN disk' : disk'[path] \notin Dirs
               /\ \A id \in DOMAIN bin' : bin'[id] \notin Dirs
      PROVE  FilesOnly'
  BY <1>1 DEF FilesOnly, Without, Range
<1>2. Without({"directory"}) =>
        /\ \A path \in DOMAIN disk : disk[path] \notin Dirs
        /\ \A id \in DOMAIN bin : bin[id] \notin Dirs
  BY DEF FilesOnly, Range
<1>3. ASSUME UNCHANGED <<disk, faults>>,
             \A id \in DOMAIN bin' : id \in DOMAIN bin /\ bin'[id] = bin[id]
      PROVE  FilesOnly'
  BY <1>1, <1>2, <1>3
<1>4. ASSUME NEW i \in Items, Create(i) PROVE FilesOnly'
  BY <1>1, <1>2, <1>4 DEF Create, Put, Without
<1>5. ASSUME NEW s \in Slots, NEW path \in Paths, Delete(s, path) PROVE FilesOnly'
  BY <1>1, <1>2, <1>5 DEF Delete, Put, Drop, Restrict
<1>6. ASSUME NEW s \in Slots, Drive(s) PROVE FilesOnly'
  BY <1>3, <1>5, <1>6 DEF Drive, DeleteRow, Recount
<1>7. ASSUME NEW s \in Slots, NEW id \in Rows, RestoreRename(s, id) PROVE FilesOnly'
  BY <1>1, <1>2, <1>7 DEF RestoreRename, Put, Drop, Restrict
<1>8. ASSUME NEW s \in Slots, NEW id \in Rows, RestoreReject(s, id) PROVE FilesOnly'
  BY <1>1, <1>2, <1>8 DEF RestoreReject, Put, Drop, Restrict
<1>9. ASSUME NEW s \in Slots, RestoreStep(s) PROVE FilesOnly'
  BY <1>3, <1>7, <1>8, <1>9
     DEF RestoreStep, RestoreConflict, RestoreGone, RestoreCheck, RestoreCommit
<1>10. ASSUME NEW s \in Slots, RemoveStep(s) PROVE FilesOnly'
  BY <1>3, <1>10 DEF RemoveStep, Remove, RemoveFails, ForgetOne, ForgetAll, ForgetFails,
     Drop, Restrict
<1>11. ASSUME NEW s \in Slots, Enter(s) \/ Disconnect(s) PROVE FilesOnly'
  BY <1>3, <1>11 DEF Enter, ReadRow, ReadAll, ReadExpired, Ask, Acquire, Disconnect
<1>12. CASE UNCHANGED vars \/ Crash
  BY <1>3, <1>12 DEF vars, Crash
<1> QED BY <1>4, <1>6, <1>9, <1>10, <1>11, <1>12 DEF Next

------------------------------------------------------------------------------
(* used_mb                                                                 *)

LEMMA ListedIsNat ==
  ASSUME NEW i \in Items \cup {None}
  PROVE  Listed(i) \in Nat
<1>1. CASE i = None
  BY <1>1 DEF Listed
<1>2. CASE i # None
  BY <1>2, LengthsAreNat
<1> QED BY <1>1, <1>2

Lengthy(f) == IsFiniteSet(DOMAIN f) /\ \A p \in DOMAIN f : Listed(f[p]) \in Nat

LEMMA TotalIsNat == ASSUME NEW f, Lengthy(f) PROVE Sum(f) \in Nat
<1> DEFINE g == [p \in DOMAIN f |-> Listed(f[p])]
<1>1. DOMAIN g = DOMAIN f /\ IsFiniteSet(DOMAIN g) /\ \A p \in DOMAIN g : g[p] \in Nat
  BY DEF Lengthy
<1>2. Sum(f) = SumFunctionOnSet(g, DOMAIN g)
  BY DEF Sum, SumFunction
<1> HIDE DEF g
<1> QED BY <1>1, <1>2, SumIsNat

LEMMA TotalOfPut ==
  ASSUME NEW f, Lengthy(f), NEW k, k \notin DOMAIN f, NEW v, Listed(v) \in Nat
  PROVE  Lengthy(Put(f, k, v)) /\ Sum(Put(f, k, v)) = Sum(f) + Listed(v)
<1> DEFINE D == DOMAIN f
           h == Put(f, k, v)
           g == [p \in D |-> Listed(f[p])]
           m == [p \in D \cup {k} |-> Listed(h[p])]
<1>1. DOMAIN h = D \cup {k} /\ h[k] = v /\ \A p \in D : h[p] = f[p]
  BY DEF Put
<1>2. Sum(f) = SumFunctionOnSet(g, D) /\ Sum(h) = SumFunctionOnSet(m, D \cup {k})
  <2> HIDE DEF h
  <2> QED BY <1>1 DEF Sum, SumFunction
<1>3. IsFiniteSet(D) /\ IsFiniteSet(D \cup {k})
  BY FS_AddElement DEF Lengthy
<1>4. /\ m[k] = Listed(v) /\ Listed(v) \in Nat
      /\ \A p \in D : g[p] \in Int /\ m[p] = g[p]
  <2> HIDE DEF h
  <2> QED BY <1>1 DEF Lengthy
<1>5. Lengthy(h)
  <2> HIDE DEF h
  <2> QED BY <1>1, <1>3 DEF Lengthy
<1>6. SumFunctionOnSet(m, D \cup {k}) = SumFunctionOnSet(g, D) + m[k]
  <2>1. m[k] \in Int /\ k \notin D /\ IsFiniteSet(D)
    BY <1>3, <1>4
  <2>2. \A p \in D : g[p] \in Int /\ m[p] = g[p]
    BY <1>4
  <2> HIDE DEF m, g, D, h
  <2> QED BY <2>1, <2>2, SumInsert
<1> QED BY <1>2, <1>4, <1>5, <1>6

LEMMA TotalOfDrop ==
  ASSUME NEW f, Lengthy(f), NEW k
  PROVE  /\ Lengthy(Drop(f, {k})) /\ Sum(Drop(f, {k})) <= Sum(f)
         /\ k \notin DOMAIN f => Sum(Drop(f, {k})) = Sum(f)
<1> DEFINE D == DOMAIN f
           h == Drop(f, {k})
           g == [p \in D |-> Listed(f[p])]
           m == [p \in D \ {k} |-> Listed(h[p])]
<1>1. DOMAIN h = D \ {k} /\ \A p \in D \ {k} : h[p] = f[p]
  BY DEF Drop, Restrict
<1>2. Sum(f) = SumFunctionOnSet(g, D) /\ Sum(h) = SumFunctionOnSet(m, D \ {k})
  <2> HIDE DEF h
  <2> QED BY <1>1 DEF Sum, SumFunction
<1>3. IsFiniteSet(D) /\ IsFiniteSet(D \ {k})
  BY FS_RemoveElement DEF Lengthy
<1>4. \A p \in D : g[p] \in Nat
  BY DEF Lengthy
<1>5. \A p \in D \ {k} : m[p] = g[p]
  <2> HIDE DEF h
  <2> QED BY <1>1
<1>6. Lengthy(h)
  <2> HIDE DEF h
  <2> QED BY <1>1, <1>3 DEF Lengthy
<1>7. CASE k \in D
  <2>1. g[k] \in Nat /\ \A p \in D : g[p] \in Int
    BY <1>4, <1>7
  <2>2. SumFunctionOnSet(m, D \ {k}) = SumFunctionOnSet(g, D) - g[k]
    <3> HIDE DEF m, g, D
    <3> QED BY <1>3, <1>5, <1>7, <2>1, SumRemove
  <2>3. SumFunctionOnSet(g, D) \in Nat
    <3> HIDE DEF m, g, D
    <3> QED BY <1>3, <1>4, SumIsNat
  <2> QED BY <1>2, <1>6, <1>7, <2>1, <2>2, <2>3
<1>8. CASE k \notin D
  <2>1. D \ {k} = D
    BY <1>8
  <2>2. SumFunctionOnSet(m, D) = SumFunctionOnSet(g, D)
    <3> HIDE DEF m, g, D
    <3> QED BY <1>3, <1>5, <2>1, SumAgrees
  <2>3. SumFunctionOnSet(g, D) \in Nat
    <3> HIDE DEF m, g, D
    <3> QED BY <1>3, <1>4, SumIsNat
  <2> QED BY <1>2, <1>6, <2>1, <2>2, <2>3
<1> QED BY <1>7, <1>8

------------------------------------------------------------------------------
Accounts == used \in Nat /\ IsFiniteSet(DOMAIN files)

\* used_mb covers what is registered, and is within the quota.
Funds == Without({"overlap", "directory"}) => Sum(files) <= used /\ used <= Quota

\* Only a recount that is still to come may lower it.
Settled ==
  Without({"dberror", "crash", "disconnect", "overlap", "directory"}) =>
    used = Sum(files) \/ \E s \in Slots : At(s, "recount")

MoneyInv == DriveInv /\ Origin /\ Priced /\ FilesOnly /\ Accounts /\ Funds /\ Settled

LEMMA FilesLengthy ==
  ASSUME RequestInv, Accounts
  PROVE  Lengthy(files) /\ Sum(files) \in Nat
<1>1. \A p \in DOMAIN files : files[p] \in Items \cup {None}
  BY DEF RequestInv, Stored, Partial, Range
<1>2. Lengthy(files)
  BY <1>1, ListedIsNat DEF Lengthy, Accounts
<1> QED BY <1>2, TotalIsNat

\* A step that leaves the rows and used_mb, and all the recounts to come.
LEMMA MoneyStays ==
  ASSUME MoneyInv, UNCHANGED <<files, used, faults>>,
         \/ \A s \in Slots : At(s, "recount") => At(s, "recount")'
         \/ ~Without({"crash", "disconnect"})
  PROVE  Accounts' /\ Funds' /\ Settled'
<1>1. Sum(files') = Sum(files)
  OBVIOUS
<1>2. Accounts' /\ Funds'
  BY <1>1 DEF MoneyInv, Accounts, Funds, Without
<1>3. Settled'
  BY <1>1 DEF MoneyInv, Settled, Without
<1> QED BY <1>2, <1>3

LEMMA CreateCharges ==
  ASSUME MoneyInv, NEW i \in Items, Create(i)
  PROVE  Accounts' /\ Funds' /\ Settled'
<1>0. RequestInv /\ Accounts
  BY DEF MoneyInv, DriveInv
<1>1. /\ UNCHANGED <<req, faults>> /\ Home[i] \notin DOMAIN files
      /\ files' = Put(files, Home[i], i)
      /\ used' = used + Listed(i) /\ used + Listed(i) <= Quota
  BY DEF Create
<1>2. Listed(i) \in Nat /\ Lengthy(files) /\ Sum(files) \in Nat /\ used \in Nat
  BY <1>0, FilesLengthy, LengthsAreNat DEF Accounts
<1>3. Lengthy(files') /\ Sum(files') = Sum(files) + Listed(i)
  BY <1>1, <1>2, TotalOfPut
<1>4. Accounts'
  BY <1>1, <1>2, <1>3 DEF Accounts, Lengthy
<1>5. Funds'
  BY <1>1, <1>2, <1>3 DEF MoneyInv, Funds, Without
<1>6. \A s \in Slots : At(s, "recount")' <=> At(s, "recount")
  BY <1>1 DEF At
<1>7. Settled'
  BY <1>1, <1>2, <1>3, <1>6 DEF MoneyInv, Settled, Without
<1> QED BY <1>4, <1>5, <1>7

LEMMA DeleteOwes ==
  ASSUME MoneyInv, NEW s \in Slots, NEW path \in Paths, Delete(s, path) \/ DeleteRow(s, path)
  PROVE  Accounts' /\ Funds' /\ Settled'
<1>0. RequestInv /\ Accounts /\ Shape
  BY DEF MoneyInv, DriveInv, RequestInv
<1>1. /\ UNCHANGED <<used, faults>> /\ files' = Drop(files, {path})
      /\ Start(s, "recount", "delete", {}, path)
  BY DEF Delete, DeleteRow
<1>2. Lengthy(files) /\ Sum(files) \in Nat /\ used \in Nat
  BY <1>0, FilesLengthy DEF Accounts
<1>3. Lengthy(files') /\ Sum(files') <= Sum(files)
  BY <1>1, <1>2, TotalOfDrop
<1>4. Sum(files') \in Nat
  BY <1>3, TotalIsNat
<1>5. Accounts'
  BY <1>1, <1>2, <1>3 DEF Accounts, Lengthy
<1>6. Funds'
  BY <1>1, <1>2, <1>3, <1>4, TrashAssumption DEF MoneyInv, Funds, Without
<1>7. At(s, "recount")'
  <2>1. req'[s] = [pc |-> "recount", op |-> "delete", path |-> path, rows |-> {},
                   todo |-> {}, want |-> None, held |-> {}, charge |-> 0]
    BY <1>0, <1>1, StartFacts
  <2>2. req'[s] \in Request /\ req'[s].pc = "recount"
    BY <2>1 DEF Request
  <2> QED BY <2>2, RequestIsSome DEF At
<1> QED BY <1>5, <1>6, <1>7 DEF Settled

LEMMA RecountSettles ==
  ASSUME MoneyInv, NEW s \in Slots, Recount(s)
  PROVE  Accounts' /\ Funds' /\ Settled'
<1>0. RequestInv /\ Accounts /\ Shape
  BY DEF MoneyInv, DriveInv, RequestInv
<1>1. /\ UNCHANGED <<files, faults>>
      /\ used' = Sum(files) \/ ("dberror" \in faults /\ UNCHANGED used)
  BY DEF Recount
<1>2. Sum(files) \in Nat /\ used \in Nat
  BY <1>0, FilesLengthy DEF Accounts
<1>3. Sum(files') = Sum(files)
  BY <1>1
<1>4. Accounts'
  BY <1>0, <1>1, <1>2 DEF Accounts
<1>5. Funds'
  BY <1>1, <1>2, <1>3, TrashAssumption DEF MoneyInv, Funds, Without
<1>6. Settled'
  BY <1>1, <1>3 DEF Settled, Without
<1> QED BY <1>4, <1>5, <1>6

\* What a restore charges is what the recount finds of its file.
LEMMA CommitCharges ==
  ASSUME MoneyInv, NEW s \in Slots, NEW id \in Rows, RestoreCommit(s, id)
  PROVE  Accounts' /\ Funds' /\ Settled'
<1> DEFINE path == req[s].path
           c    == req[s].charge
<1>0. RequestInv /\ Accounts /\ Shape /\ Registered /\ Priced /\ FilesOnly /\ Stored
  BY DEF MoneyInv, DriveInv, RequestInv
<1>1. /\ UNCHANGED <<disk, faults>> /\ At(s, "moved") /\ Done(s)
      /\ files' = Put(files, path, Found(path))
      /\ used' = used + c /\ used + c <= Quota
  BY DEF RestoreCommit
<1>2. c \in Nat /\ used \in Nat /\ IsFiniteSet(DOMAIN files)
  BY <1>0, <1>1 DEF RequestInv, Local, At, Request, Accounts
<1>3. Accounts'
  <2>1. DOMAIN files' = DOMAIN files \cup {path}
    <3> HIDE DEF path
    <3> QED BY <1>1 DEF Put
  <2>2. IsFiniteSet(DOMAIN files')
    BY <1>2, <2>1, FS_AddElement
  <2> QED BY <1>1, <1>2, <2>2 DEF Accounts
<1>4. ASSUME Without({"overlap", "directory"})
      PROVE  Sum(files) \in Nat /\ Sum(files') = Sum(files) + c
  <2>1. path \in DOMAIN disk \ DOMAIN files /\ c = Charge(disk[path]) /\ Found(path) = disk[path]
    BY <1>0, <1>1, <1>4 DEF Registered, Priced, Without, Found
  <2>2. disk[path] \in Items \ Dirs
    BY <1>0, <1>4, <2>1 DEF FilesOnly, Without, Range, Stored, Partial
  <2>3. Listed(disk[path]) = c
    BY <2>1, <2>2, FileIsListedWhole
  <2>4. Lengthy(files) /\ Sum(files) \in Nat
    BY <1>0, FilesLengthy
  <2> HIDE DEF path, c
  <2>5. Sum(Put(files, path, disk[path])) = Sum(files) + Listed(disk[path])
    BY <1>2, <2>1, <2>3, <2>4, TotalOfPut
  <2> QED BY <1>1, <2>1, <2>3, <2>4, <2>5
<1>5. Funds'
  <2> SUFFICES ASSUME Without({"overlap", "directory"})
               PROVE  Sum(files') <= used' /\ used' <= Quota
    BY <1>1 DEF Funds, Without
  <2>1. Sum(files) <= used
    BY DEF MoneyInv, Funds
  <2> HIDE DEF c
  <2> QED BY <1>1, <1>2, <1>4, <2>1
<1>6. Settled'
  <2> SUFFICES ASSUME Without({"dberror", "crash", "disconnect", "overlap", "directory"})
               PROVE  used' = Sum(files') \/ \E t \in Slots : At(t, "recount")'
    BY <1>1 DEF Settled, Without
  <2>1. Without({"overlap", "directory"})
    BY DEF Without
  <2>2. CASE used = Sum(files)
    <3> HIDE DEF c
    <3> QED BY <1>1, <1>2, <1>4, <2>1, <2>2
  <2>3. ASSUME NEW t \in Slots, At(t, "recount") PROVE At(t, "recount")'
    <3>1. t # s /\ Frame(s)
      BY <1>0, <1>1, <2>3, DoneFacts DEF At
    <3> QED BY <2>3, <3>1 DEF Frame, At
  <2> QED BY <2>2, <2>3 DEF MoneyInv, Settled
<1> QED BY <1>3, <1>5, <1>6

LEMMA MoneyInvNext == ASSUME MoneyInv, [Next]_vars PROVE MoneyInv'
<1>0. DriveInv /\ RequestInv /\ Shape /\ Origin /\ Priced /\ FilesOnly
  BY DEF MoneyInv, DriveInv, RequestInv
<1>1. DriveInv' /\ Origin' /\ Priced' /\ FilesOnly'
  BY <1>0, DriveInvNext, OriginNext, PricedNext, FilesOnlyNext
<1>2. Accounts' /\ Funds' /\ Settled'
  <2>1. ASSUME NEW s \in Slots, UNCHANGED <<files, used, faults>>, Frame(s), ~At(s, "recount")
        PROVE  Accounts' /\ Funds' /\ Settled'
    <3>1. \A t \in Slots : At(t, "recount") => At(t, "recount")'
      BY <2>1 DEF At, Frame
    <3> QED BY <2>1, <3>1, MoneyStays
  <2>2. ASSUME NEW s \in Slots, Drive(s) PROVE Accounts' /\ Funds' /\ Settled'
    BY <2>2, DeleteOwes, RecountSettles DEF Drive
  <2>3. ASSUME NEW s \in Slots, Enter(s) PROVE Accounts' /\ Funds' /\ Settled'
    <3>1. UNCHANGED <<files, used, faults>> /\ Frame(s) /\ ~At(s, "recount")
      BY <1>0, <2>3, EnterEffect DEF At
    <3> QED BY <2>1, <3>1
  <2>4. ASSUME NEW s \in Slots, RestoreStep(s) PROVE Accounts' /\ Funds' /\ Settled'
    <3>1. Frame(s) /\ ~At(s, "recount")
      BY <1>0, <2>4, RestoreKeeps
         DEF Keeps, At, RestoreStep, RestoreConflict, RestoreGone, RestoreCheck, RestoreRename,
             RestoreCommit, RestoreReject
    <3>2. UNCHANGED <<files, used, faults>> \/ \E id \in Rows : RestoreCommit(s, id)
      BY <2>4 DEF RestoreStep, RestoreConflict, RestoreGone, RestoreCheck, RestoreRename,
                  RestoreReject
    <3> QED BY <2>1, <3>1, <3>2, CommitCharges
  <2>5. ASSUME NEW s \in Slots, RemoveStep(s) PROVE Accounts' /\ Funds' /\ Settled'
    <3>1. UNCHANGED <<files, used, faults>> /\ Frame(s) /\ ~At(s, "recount")
      BY <1>0, <2>5, RemoveEffect DEF At
    <3> QED BY <2>1, <3>1
  <2>6. ASSUME NEW s \in Slots, Disconnect(s) PROVE Accounts' /\ Funds' /\ Settled'
    BY <2>6, MoneyStays DEF Disconnect, Without
  <2>7. CASE Crash
    BY <2>7, MoneyStays DEF Crash, Without
  <2>8. CASE UNCHANGED vars
    <3>1. \A s \in Slots : At(s, "recount") => At(s, "recount")'
      BY <2>8 DEF vars, At
    <3> QED BY <2>8, <3>1, MoneyStays DEF vars
  <2> QED BY <2>2, <2>3, <2>4, <2>5, <2>6, <2>7, <2>8, CreateCharges DEF Next
<1> QED BY <1>1, <1>2 DEF MoneyInv

LEMMA MoneyInvInit == Init => MoneyInv
<1> SUFFICES ASSUME Init PROVE MoneyInv
  OBVIOUS
<1>1. DriveInv
  BY DriveInvInit
<1>2. Origin /\ Priced /\ FilesOnly
  BY DEF Init, Origin, Priced, FilesOnly, Op, At, Empty, Range
<1>3. DOMAIN files = {} /\ used = 0
  BY DEF Init, Empty
<1>4. IsFiniteSet(DOMAIN files)
  BY <1>3, FS_EmptySet
<1>5. Sum(files) = 0
  BY <1>3, SumEmpty DEF Sum, SumFunction
<1>6. Accounts /\ Funds /\ Settled
  BY <1>3, <1>4, <1>5, TrashAssumption DEF Accounts, Funds, Settled
<1> QED BY <1>1, <1>2, <1>6 DEF MoneyInv

------------------------------------------------------------------------------
\* The quota covers the registered files at every moment, for any files, quota
\* and number of requests: a restore charges what the recount will find, and only
\* a recount lowers used_mb.
THEOREM QuotaCoversFiles == Spec => []UsedCoversFiles
<1>1. MoneyInv => UsedCoversFiles
  BY DEF MoneyInv, Funds, UsedCoversFiles
<1> QED BY <1>1, MoneyInvInit, MoneyInvNext, PTL DEF Spec

\* When no request runs used_mb is the sum of the registered files, in whatever
\* order charges and recounts came.
THEOREM RestingUseIsExact == Spec => []UsedIsTheSum
<1>1. MoneyInv => UsedIsTheSum
  BY DEF MoneyInv, Settled, UsedIsTheSum, At
<1> QED BY <1>1, MoneyInvInit, MoneyInvNext, PTL DEF Spec

\* Every variable keeps its type, and there is always a mutex for whoever asks:
\* the pairs that Fresh chooses from never run out.
THEOREM TypeCorrect == Spec => []TypeOK
<1> DEFINE Bounds == faults \in FaultSets /\ breaks \in 0..MaxBreaks
<1>1. Init => MoneyInv /\ Bounds
  <2>1. Init => Bounds
    BY TrashAssumption DEF Init
  <2> QED BY <2>1, MoneyInvInit
<1>2. MoneyInv /\ Bounds /\ [Next]_vars => (MoneyInv /\ Bounds)'
  <2> SUFFICES ASSUME MoneyInv, Bounds, [Next]_vars PROVE Bounds'
    BY MoneyInvNext
  <2>1. ASSUME Break PROVE breaks' \in 0..MaxBreaks
    BY <2>1, TrashAssumption DEF Break
  <2> DEFINE Counted == UNCHANGED <<faults, breaks>> \/ (UNCHANGED faults /\ Break)
  <2>2. ASSUME NEW s \in Slots, Drive(s) \/ Enter(s) PROVE Counted
    BY <2>2 DEF Drive, Delete, DeleteRow, Recount, Enter, ReadRow, ReadAll, ReadExpired, Ask,
                Acquire
  <2>3. ASSUME NEW s \in Slots, RestoreStep(s) PROVE Counted
    BY <2>3 DEF RestoreStep, RestoreConflict, RestoreGone, RestoreCheck, RestoreRename,
                RestoreCommit, RestoreReject
  <2>4. ASSUME NEW s \in Slots, RemoveStep(s) \/ Disconnect(s) PROVE Counted
    BY <2>4 DEF RemoveStep, Remove, RemoveFails, ForgetOne, ForgetAll, ForgetFails, Disconnect
  <2>5. ASSUME UNCHANGED vars \/ Crash \/ \E i \in Items : Create(i) PROVE Counted
    BY <2>5 DEF vars, Crash, Create
  <2>6. Counted
    <3> HIDE DEF Counted
    <3> QED BY <2>2, <2>3, <2>4, <2>5 DEF Next
  <2> QED BY <2>1, <2>6
<1>3. MoneyInv /\ Bounds => TypeOK
  <2> SUFFICES ASSUME MoneyInv, Bounds PROVE TypeOK
    OBVIOUS
  <2>1. Stored /\ Map /\ Shape /\ Accounts /\ \A s \in Slots : Local(s)
    BY DEF MoneyInv, DriveInv, RequestInv
  <2>2. Partial(locks, Rows, Mutexes)
    <3>1. \A id \in DOMAIN locks : id \in Rows /\ locks[id] \in Pairs(id)
      BY <2>1 DEF Map
    <3>2. \A id \in DOMAIN locks : locks[id] \in Mutexes
      BY <3>1, MutexFacts
    <3> QED BY <3>1, <3>2 DEF Partial, Range
  <2>3. req \in [Slots -> Request \cup {None}]
    BY <2>1 DEF Shape, Local
  <2>4. \A s \in Slots : req[s] # None => req[s].todo \subseteq req[s].rows
    BY <2>1 DEF Local
  <2> QED BY <2>1, <2>2, <2>3, <2>4 DEF TypeOK, Stored, Accounts
<1> HIDE DEF Bounds
<1> QED BY <1>1, <1>2, <1>3, PTL DEF Spec

=============================================================================

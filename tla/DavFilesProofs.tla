--------------------------- MODULE DavFilesProofs ---------------------------
(***************************************************************************)
(* What holds of DavFiles for any paths, sizes, requests and faults: the   *)
(* types, that a refused request leaves its target as it was, that used_mb *)
(* stays within the quota, and that a drive at rest is counted.            *)
(*                                                                         *)
(* Base says what each request holds at each stage; Kept, where the target *)
(* of a request is; AllWork, that a file and its row agree unless a        *)
(* request is between the two, and what each request relies on; Balance,   *)
(* that used_mb is what the table adds up to and what the requests owe.    *)
(***************************************************************************)
EXTENDS DavFiles, Sums, TLAPS

\* Tables of sizes and sets of files.
Table(f) ==
  /\ DOMAIN f \subseteq Paths /\ IsFiniteSet(DOMAIN f)
  /\ f = [p \in DOMAIN f |-> f[p]]
  /\ \A p \in DOMAIN f : f[p] \in Nat

Files(f) == DOMAIN f \subseteq Paths /\ \A p \in DOMAIN f : f[p] \in Contents \cup {Torn}

LEMMA DropFacts ==
  ASSUME NEW f, NEW k
  PROVE  /\ DOMAIN Drop(f, k) = DOMAIN f \ {k}
         /\ \A i \in DOMAIN f \ {k} : Drop(f, k)[i] = f[i]
  BY DEF Drop, Restrict

LEMMA TablePut ==
  ASSUME NEW f, Table(f), NEW p \in Paths, NEW v \in Nat
  PROVE  Table(Put(f, p, v))
<1> HIDE DEF Paths
<1>1. IsFiniteSet(DOMAIN f \cup {p})
  BY FS_AddElement DEF Table
<1> QED BY <1>1 DEF Table, Put

LEMMA TableDrop ==
  ASSUME NEW f, Table(f), NEW p
  PROVE  Table(Drop(f, p))
<1>1. IsFiniteSet(DOMAIN f \ {p})
  BY FS_RemoveElement DEF Table
<1> QED BY <1>1 DEF Table, Drop, Restrict

LEMMA TableMove ==
  ASSUME NEW f, Table(f), NEW p, NEW q \in Paths
  PROVE  Table(MoveKey(f, p, q))
<1>1. CASE p \in DOMAIN f
  <2>1. Table(Drop(f, p)) /\ f[p] \in Nat
    BY <1>1, TableDrop DEF Table
  <2>2. Table(Put(Drop(f, p), q, f[p]))
    BY <2>1, TablePut
  <2> QED BY <1>1, <2>2 DEF MoveKey
<1>2. CASE p \notin DOMAIN f
  BY <1>2 DEF MoveKey
<1> QED BY <1>1, <1>2

LEMMA FilesPut ==
  ASSUME NEW f, Files(f), NEW p \in Paths, NEW c \in Contents \cup {Torn}
  PROVE  Files(Put(f, p, c))
  BY DEF Files, Put

LEMMA FilesDrop ==
  ASSUME NEW f, Files(f), NEW p
  PROVE  Files(Drop(f, p))
  BY DEF Files, Drop, Restrict

LEMMA FilesMove ==
  ASSUME NEW f, Files(f), NEW p, NEW q \in Paths
  PROVE  Files(MoveKey(f, p, q))
  BY DEF Files, MoveKey, Put, Drop, Restrict

------------------------------------------------------------------------------
\* What the sizes of a table add up to.
LEMMA TotalIsInt == ASSUME NEW f, Table(f) PROVE Sum(f) \in Nat
  BY SumIsNat DEF Sum, SumFunction, Table

LEMMA TotalPut ==
  ASSUME NEW f, Table(f), NEW p, NEW v \in Nat
  PROVE  Sum(Put(f, p, v)) = Sum(f) - At0(f, p, 0) + v
<1> DEFINE g == Put(f, p, v) D == DOMAIN f
<1>1. DOMAIN g = D \cup {p} /\ g[p] = v /\ \A i \in D \ {p} : g[i] = f[i]
  BY DEF Put
<1>2. IsFiniteSet(D) /\ \A i \in D : f[i] \in Int
  BY DEF Table
<1>3. Sum(f) = SumFunctionOnSet(f, D) /\ Sum(g) = SumFunctionOnSet(g, D \cup {p})
  BY <1>1 DEF Sum, SumFunction
<1>4. v \in Int
  OBVIOUS
<1>5. Sum(f) \in Int
  BY TotalIsInt
<1> HIDE DEF g, D
<1>6. CASE p \in D
  <2>1. D \cup {p} = D
    BY <1>6
  <2>2. SumFunctionOnSet(g, D) = SumFunctionOnSet(f, D) - f[p] + g[p]
    BY <1>1, <1>2, <1>4, <1>6, SumChange
  <2>3. Sum(g) = Sum(f) - f[p] + v
    BY <1>1, <1>3, <2>1, <2>2
  <2> QED BY <1>6, <2>3 DEF At0, D, g
<1>7. CASE p \notin D
  <2>1. SumFunctionOnSet(g, D \cup {p}) = SumFunctionOnSet(f, D) + g[p]
    <3>1. \A i \in D : f[i] \in Int /\ g[i] = f[i]
      BY <1>1, <1>2, <1>7
    <3>2. g[p] \in Int
      BY <1>1, <1>4
    <3> QED BY <1>2, <1>7, <3>1, <3>2, SumInsert
  <2>2. Sum(g) = Sum(f) + v
    BY <1>1, <1>3, <2>1
  <2> QED BY <1>5, <1>7, <2>2 DEF At0, D, g
<1> QED BY <1>6, <1>7

LEMMA TotalDrop ==
  ASSUME NEW f, Table(f), NEW p
  PROVE  Sum(Drop(f, p)) = Sum(f) - At0(f, p, 0)
<1> DEFINE g == Drop(f, p) D == DOMAIN f
<1>1. DOMAIN g = D \ {p} /\ \A i \in D \ {p} : g[i] = f[i]
  BY DropFacts
<1>2. IsFiniteSet(D) /\ \A i \in D : f[i] \in Int
  BY DEF Table
<1>3. Sum(f) = SumFunctionOnSet(f, D) /\ Sum(g) = SumFunctionOnSet(g, D \ {p})
  BY <1>1 DEF Sum, SumFunction
<1>4. Sum(f) \in Int
  BY TotalIsInt
<1> HIDE DEF g, D
<1>5. CASE p \in D
  <2>1. SumFunctionOnSet(g, D \ {p}) = SumFunctionOnSet(f, D) - f[p]
    BY <1>1, <1>2, <1>5, SumRemove
  <2> QED BY <1>3, <1>5, <2>1 DEF At0, D, g
<1>6. CASE p \notin D
  <2>1. D \ {p} = D
    BY <1>6
  <2>2. SumFunctionOnSet(g, D) = SumFunctionOnSet(f, D)
    <3>1. \A x \in D : g[x] = f[x]
      BY <1>1, <2>1
    <3> QED BY <1>2, <3>1, SumAgrees
  <2>3. Sum(g) = Sum(f)
    BY <1>3, <2>1, <2>2
  <2> QED BY <1>4, <1>6, <2>3 DEF At0, D, g
<1> QED BY <1>5, <1>6

LEMMA TotalMove ==
  ASSUME NEW f, Table(f), NEW p, NEW q, q \notin DOMAIN f
  PROVE  Sum(MoveKey(f, p, q)) = Sum(f)
<1>1. CASE p \notin DOMAIN f
  BY <1>1 DEF MoveKey
<1>2. CASE p \in DOMAIN f
  <2>1. Table(Drop(f, p)) /\ f[p] \in Nat /\ Sum(f) \in Nat
    BY <1>2, TableDrop, TotalIsInt DEF Table
  <2>2. Sum(Drop(f, p)) = Sum(f) - f[p]
    BY <1>2, TotalDrop DEF At0
  <2>3. At0(Drop(f, p), q, 0) = 0
    BY DEF At0, Drop, Restrict
  <2>4. Sum(Put(Drop(f, p), q, f[p])) = Sum(Drop(f, p)) - 0 + f[p]
    BY <2>1, <2>3, TotalPut
  <2>5. Sum(Put(Drop(f, p), q, f[p])) = Sum(f)
    BY <2>1, <2>2, <2>4
  <2> QED BY <1>2, <2>5 DEF MoveKey
<1> QED BY <1>1, <1>2

------------------------------------------------------------------------------
(* The shape of the state.                                                 *)

\* f and g differ at most on S.
Beyond(f, g, S) ==
  /\ DOMAIN f \ S = DOMAIN g \ S
  /\ \A i \in DOMAIN f \ S : g[i] = f[i]

\* The stages that each operation goes through.
Fits(op, stage) ==
  \/ op = "put" /\ stage \in {"stream", "charge", "write", "register", "recount"}
  \/ op = "edit" /\ stage \in {"charge", "write", "filling", "register", "recount"}
  \/ op = "move" /\ stage \in {"displace", "error", "stage", "unlist", "begin", "second",
                               "finish", "restore", "refused", "recount"}
  \/ op = "copy" /\ stage \in {"displace", "error", "stage", "unlist", "begin", "write",
                               "filling", "register", "finish", "restore", "refused",
                               "recount"}
  \/ op = "delete" /\ stage = "recount"

Moving == {"begin", "second", "write", "filling", "register", "finish", "restore"}

Form(s) ==
  /\ Fits(req[s].op, req[s].stage)
  /\ req[s].op \in {"put", "edit"} => req[s].content \in Contents /\ req[s].src = req[s].dst
  /\ req[s].stage \in {"filling", "register"} => req[s].content \in Contents \cup {Torn}
  /\ req[s].op \in {"move", "copy"} => req[s].delta \in Nat /\ req[s].src # req[s].dst
  /\ req[s].id <= ops
  /\ req[s].stage \in {"stage", "unlist"} => req[s].id \in DOMAIN disp \ DOMAIN meta
  /\ req[s].stage = "restore" => req[s].id \in DOMAIN meta
  /\ req[s].id \in DOMAIN meta => req[s].op \in {"move", "copy"} /\ req[s].stage \in Moving

Stored ==
  /\ Files(drive) /\ Table(rows) /\ used \in Int
  /\ DOMAIN meta \subseteq DOMAIN disp /\ DOMAIN disp \subseteq 1..ops
  /\ \A u \in DOMAIN meta : meta[u] \in Paths
  /\ \A u \in DOMAIN disp : disp[u] \in Contents \cup {Torn}

Limits ==
  /\ ops \in 0..MaxOps /\ breaks \in 0..MaxBreaks
  /\ faults \in FaultSets /\ dispDir \in BOOLEAN

Requests == req \in [Slots -> Handled \cup {None}]

Numbered ==
  \A s, t \in Slots : s # t /\ req[s] # None /\ req[t] # None => req[s].id # req[t].id

Base ==
  /\ Requests /\ Stored /\ Limits /\ Numbered
  /\ \A s \in Slots : req[s] # None => Form(s)

LEMMA BaseType == Base => TypeOK
<1> SUFFICES ASSUME Base PROVE TypeOK
  OBVIOUS
<1> USE DEF Base, Stored, Limits, Files, Table
<1>1. Range(drive) \subseteq Contents \cup {Torn} /\ Range(rows) \subseteq Nat
  BY DEF Range
<1>2. Range(meta) \subseteq Paths /\ Range(disp) \subseteq Contents \cup {Torn}
  BY DEF Range
<1>3. DOMAIN disp \subseteq 1..MaxOps
  BY DavAssumption
<1> QED BY <1>1, <1>2, <1>3 DEF TypeOK, Requests

------------------------------------------------------------------------------
\* What a step does to the request that takes it.
Others(s) == Requests' /\ \A t \in Slots \ {s} : req'[t] = req[t]

Same(s) ==
  /\ req'[s] \in Handled /\ req'[s] # None
  /\ req'[s].op = req[s].op /\ req'[s].src = req[s].src /\ req'[s].dst = req[s].dst
  /\ req'[s].id = req[s].id /\ req'[s].before = req[s].before

Keeps(s) ==
  /\ req'[s].content = req[s].content /\ req'[s].existed = req[s].existed
  /\ req'[s].staged = req[s].staged /\ req'[s].delta = req[s].delta

To(s, stage) == Others(s) /\ Same(s) /\ req'[s].stage = stage

Ends(s) == Others(s) /\ req'[s] = None

LEMMA InFlight ==
  ASSUME Base, NEW s \in Slots, req[s] # None
  PROVE  req[s] \in Handled
  BY DEF Base, Requests

LEMMA NoneIsNoRequest == \A r \in Handled : r # None
  BY DavAssumption

LEMMA StepFacts ==
  ASSUME Base, NEW s \in Slots, req[s] # None, NEW stage \in Stages, Step(s, stage)
  PROVE  To(s, stage) /\ Keeps(s)
<1> DEFINE r == [req[s] EXCEPT !.stage = stage]
<1>1. req[s] \in Handled
  BY InFlight
<1>2. r \in Handled
  BY <1>1 DEF Handled
<1>3. req' = [req EXCEPT ![s] = r]
  BY DEF Step
<1>4. Others(s) /\ req'[s] = r
  BY <1>2, <1>3 DEF Others, Base, Requests
<1>5. r # None
  BY <1>2, NoneIsNoRequest
<1> QED BY <1>1, <1>2, <1>4, <1>5 DEF To, Keeps, Same, Handled

LEMMA DoneFacts ==
  ASSUME Base, NEW s \in Slots, Done(s)
  PROVE  Ends(s)
  BY DEF Base, Requests, Done, Ends, Others

LEMMA AdjustFacts ==
  ASSUME Base, NEW s \in Slots, req[s] # None, NEW delta \in Int, NEW stage \in Stages,
         Adjust(s, delta, stage)
  PROVE  \/ Ends(s) /\ UNCHANGED used
         \/ /\ To(s, stage) /\ used + delta <= Quota /\ used' = used + delta
            /\ req'[s].delta = delta /\ req'[s].content = req[s].content
            /\ req'[s].existed = req[s].existed /\ req'[s].staged = req[s].staged
<1>1. CASE used + delta > Quota
  BY <1>1, DoneFacts DEF Adjust
<1>2. CASE ~(used + delta > Quota)
  <2> DEFINE r == [req[s] EXCEPT !.stage = stage, !.delta = delta]
  <2>1. req[s] \in Handled
    BY InFlight
  <2>2. r \in Handled
    BY <2>1 DEF Handled
  <2>3. req' = [req EXCEPT ![s] = r] /\ used' = used + delta
    BY <1>2 DEF Adjust
  <2>4. Others(s) /\ req'[s] = r
    BY <2>2, <2>3 DEF Others, Base, Requests
  <2>5. r # None
    BY <2>2, NoneIsNoRequest
  <2>6. used + delta <= Quota
    BY <1>2, DavAssumption DEF Base, Stored
  <2>7. Same(s) /\ req'[s].stage = stage
    BY <2>1, <2>2, <2>4, <2>5 DEF Same, Handled
  <2>8. /\ req'[s].delta = delta /\ req'[s].content = req[s].content
        /\ req'[s].existed = req[s].existed /\ req'[s].staged = req[s].staged
    BY <2>1, <2>4 DEF Handled
  <2> QED BY <2>3, <2>4, <2>6, <2>7, <2>8 DEF To
<1> QED BY <1>1, <1>2

LEMMA StartFacts ==
  ASSUME Base, NEW s \in Slots, NEW op, NEW stage \in Stages, NEW src \in Paths,
         NEW dst \in Paths, NEW content \in Contents \cup {None},
         op \in {"put", "edit", "move", "copy", "delete"},
         Start(s, op, stage, src, dst, content)
  PROVE  /\ req[s] = None /\ Quiet(s, op, src, dst)
         /\ ops' = ops + 1 /\ ops' \in 1..MaxOps
         /\ Others(s) /\ req'[s] \in Handled /\ req'[s] # None
         /\ req'[s].op = op /\ req'[s].stage = stage /\ req'[s].src = src /\ req'[s].dst = dst
         /\ req'[s].content = content /\ req'[s].id = ops'
         /\ req'[s].before = At0(drive, dst, None) /\ req'[s].staged = None
         /\ req'[s].existed = FALSE /\ req'[s].delta = 0
<1> DEFINE r == [op |-> op, stage |-> stage, src |-> src, dst |-> dst, content |-> content,
                 id |-> ops + 1, existed |-> FALSE, staged |-> None, delta |-> 0,
                 before |-> At0(drive, dst, None)]
<1>1. ops \in 0..MaxOps /\ breaks \in Nat /\ ops + breaks < MaxOps /\ ops' = ops + 1
  BY DavAssumption DEF Base, Limits, Start
<1>2. ops + 1 \in 1..MaxOps
  BY <1>1, DavAssumption
<1>3. At0(drive, dst, None) \in Contents \cup {Torn, None}
  BY DEF At0, Base, Stored, Files
<1>4. r \in Handled
  BY <1>2, <1>3 DEF Handled
<1>5. req' = [req EXCEPT ![s] = r] /\ req[s] = None /\ Quiet(s, op, src, dst)
  BY DEF Start
<1>6. Others(s) /\ req'[s] = r
  BY <1>4, <1>5 DEF Others, Base, Requests
<1>7. r # None
  BY <1>4, NoneIsNoRequest
<1> QED BY <1>1, <1>2, <1>4, <1>5, <1>6, <1>7

------------------------------------------------------------------------------
\* What a step of one request leaves of the others.
LEMMA BaseKeeps ==
  ASSUME Base, NEW s \in Slots, req[s] # None, Others(s), Stored', Limits',
         UNCHANGED ops,
         Beyond(disp, disp', {req[s].id}), Beyond(meta, meta', {req[s].id}),
         req'[s] # None => req'[s].id = req[s].id /\ Form(s)'
  PROVE  Base'
<1>1. ASSUME NEW t \in Slots \ {s}, req'[t] # None PROVE Form(t)'
  <2>1. req'[t] = req[t] /\ req[t] # None /\ Form(t) /\ req[t].id # req[s].id
    BY <1>1 DEF Others, Base, Numbered
  <2>2. req[t].id \in DOMAIN disp <=> req[t].id \in DOMAIN disp'
    BY <2>1 DEF Beyond
  <2>3. req[t].id \in DOMAIN meta <=> req[t].id \in DOMAIN meta'
    BY <2>1 DEF Beyond
  <2> QED BY <2>1, <2>2, <2>3 DEF Form
<1>2. Numbered'
  BY DEF Base, Numbered, Others
<1>3. Requests'
  BY DEF Others
<1>4. \A t \in Slots : req'[t] # None => Form(t)'
  BY <1>1
<1> QED BY <1>2, <1>3, <1>4 DEF Base

------------------------------------------------------------------------------
(* What each action does, by the request that takes it.                    *)

Still == UNCHANGED <<disk, rows, used>>

LEMMA PutStreamedFacts ==
  ASSUME Base, NEW s \in Slots, PutStreamed(s)
  PROVE  /\ At(s, "put", "stream") /\ Still /\ UNCHANGED <<ops, limits>>
         /\ To(s, "charge") /\ req'[s].existed = (req[s].dst \in DOMAIN drive)
         /\ req'[s].content = req[s].content /\ req'[s].staged = req[s].staged
<1> DEFINE there == req[s].dst \in DOMAIN drive
           r     == [req[s] EXCEPT !.stage = "charge", !.existed = there]
<1>1. req[s] # None
  BY DEF PutStreamed, At
<1>2. req[s] \in Handled
  BY <1>1, InFlight
<1>3. req' = [req EXCEPT ![s] = r]
  BY DEF PutStreamed
<1>4. there \in BOOLEAN
  OBVIOUS
<1> HIDE DEF there
<1>5. r \in Handled
  BY <1>4, <1>2 DEF Handled, Stages
<1>6. Others(s) /\ req'[s] = r
  BY <1>5, <1>3 DEF Others, Base, Requests
<1>7. r # None
  BY <1>5, NoneIsNoRequest
<1>8. Same(s) /\ req'[s].stage = "charge" /\ req'[s].existed = there
  BY <1>2, <1>5, <1>6, <1>7 DEF Same, Handled
<1>9. req'[s].content = req[s].content /\ req'[s].staged = req[s].staged
  BY <1>2, <1>6 DEF Handled
<1> QED BY <1>6, <1>8, <1>9 DEF To, PutStreamed, Still, there

LEMMA PutRefusedFacts ==
  ASSUME Base, NEW s \in Slots, PutRefused(s)
  PROVE  /\ At(s, "put", "stream") \/ At(s, "put", "charge")
         /\ Still /\ UNCHANGED <<ops, limits>> /\ Ends(s)
  BY DoneFacts DEF PutRefused, Still

LEMMA PutChargeFacts ==
  ASSUME Base, NEW s \in Slots, PutCharge(s)
  PROVE  /\ At(s, "put", "charge") /\ UNCHANGED <<disk, rows, ops, limits>>
         /\ \/ Ends(s) /\ UNCHANGED used
            \/ LET delta == Size[req[s].content]
                              - (IF req[s].existed THEN At0(rows, req[s].dst, 0) ELSE 0)
               IN  /\ delta \in Int
                   /\ To(s, "write") /\ used + delta <= Quota /\ used' = used + delta
                   /\ req'[s].delta = delta /\ req'[s].content = req[s].content
                   /\ req'[s].existed = req[s].existed /\ req'[s].staged = req[s].staged
<1> DEFINE delta == Size[req[s].content] - (IF req[s].existed THEN At0(rows, req[s].dst, 0) ELSE 0)
<1>1. At(s, "put", "charge") /\ UNCHANGED <<disk, rows, ops, limits>> /\ Adjust(s, delta, "write")
  BY DEF PutCharge
<1>2. req[s].content \in Contents
  BY <1>1 DEF At, Base, Form
<1>3. delta \in Int
  <2>1. At0(rows, req[s].dst, 0) \in Int
    BY DEF At0, Base, Stored, Table
  <2>2. Size[req[s].content] \in Int
    BY <1>2, DavAssumption
  <2> QED BY <2>1, <2>2
<1> HIDE DEF delta
<1>4. "write" \in Stages /\ req[s] # None
  BY <1>1 DEF Stages, At
<1>5. \/ Ends(s) /\ UNCHANGED used
      \/ /\ To(s, "write") /\ used + delta <= Quota /\ used' = used + delta
         /\ req'[s].delta = delta /\ req'[s].content = req[s].content
         /\ req'[s].existed = req[s].existed /\ req'[s].staged = req[s].staged
  BY <1>1, <1>3, <1>4, AdjustFacts
<1> QED BY <1>1, <1>3, <1>5 DEF delta

LEMMA PutRenameFacts ==
  ASSUME Base, NEW s \in Slots, PutRename(s)
  PROVE  /\ At(s, "put", "write") /\ UNCHANGED <<disp, meta, dispDir, rows, used, ops, limits>>
         /\ Keeps(s)
         /\ \/ drive' = Put(drive, req[s].dst, req[s].content) /\ To(s, "register")
            \/ "iofail" \in faults /\ UNCHANGED drive /\ To(s, "recount")
  BY StepFacts DEF PutRename, Stages, At

LEMMA PutRegisterFacts ==
  ASSUME Base, NEW s \in Slots, PutRegister(s)
  PROVE  LET p == req[s].dst
         IN  /\ At(s, "put", "register") /\ UNCHANGED <<disk, used, ops, limits>>
             /\ \/ /\ req[s].existed \/ p \notin DOMAIN rows
                   /\ rows' = IF req[s].existed /\ p \notin DOMAIN rows
                              THEN rows ELSE Put(rows, p, Size[req[s].content])
                   /\ Ends(s)
                \/ /\ (~req[s].existed /\ p \in DOMAIN rows) \/ "dberror" \in faults
                   /\ UNCHANGED rows
                   /\ To(s, "recount") /\ Keeps(s)
  BY StepFacts, DoneFacts DEF PutRegister, Stages, At

LEMMA RecountFacts ==
  ASSUME Base, NEW s \in Slots, Recount(s)
  PROVE  /\ req[s] # None /\ req[s].stage = "recount" /\ UNCHANGED <<disk, rows, ops, limits>>
         /\ "recount" \in faults \/ \A t \in Slots : ~Owing(t)
         /\ used' = Sum(rows) \/ ("dberror" \in faults /\ UNCHANGED used)
         /\ Ends(s)
  BY DoneFacts DEF Recount

LEMMA EditChargeFacts ==
  ASSUME Base, NEW s \in Slots, EditCharge(s)
  PROVE  /\ At(s, "edit", "charge") /\ UNCHANGED <<disk, rows, ops, limits>>
         /\ \/ Ends(s) /\ UNCHANGED used
            \/ LET delta == Size[req[s].content] - At0(Size, req[s].before, 0)
               IN  /\ delta \in Int
                   /\ To(s, "write") /\ used + delta <= Quota /\ used' = used + delta
                   /\ req'[s].delta = delta /\ req'[s].content = req[s].content
                   /\ req'[s].existed = req[s].existed /\ req'[s].staged = req[s].staged
<1> DEFINE delta == Size[req[s].content] - At0(Size, req[s].before, 0)
<1>1. At(s, "edit", "charge") /\ UNCHANGED <<disk, rows, ops, limits>> /\ Adjust(s, delta, "write")
  BY DEF EditCharge
<1>2. req[s].content \in Contents
  BY <1>1 DEF At, Base, Form
<1>3. delta \in Int
  <2>1. At0(Size, req[s].before, 0) \in Int
    BY DavAssumption DEF At0
  <2>2. Size[req[s].content] \in Int
    BY <1>2, DavAssumption
  <2> QED BY <2>1, <2>2
<1> HIDE DEF delta
<1>4. "write" \in Stages /\ req[s] # None
  BY <1>1 DEF Stages, At
<1>5. \/ Ends(s) /\ UNCHANGED used
      \/ /\ To(s, "write") /\ used + delta <= Quota /\ used' = used + delta
         /\ req'[s].delta = delta /\ req'[s].content = req[s].content
         /\ req'[s].existed = req[s].existed /\ req'[s].staged = req[s].staged
  BY <1>1, <1>3, <1>4, AdjustFacts
<1> QED BY <1>1, <1>3, <1>5 DEF delta

LEMMA EditTruncateFacts ==
  ASSUME Base, NEW s \in Slots, EditTruncate(s)
  PROVE  /\ At(s, "edit", "write") /\ UNCHANGED <<disp, meta, dispDir, rows, used, ops, limits>>
         /\ Keeps(s)
         /\ \/ drive' = Put(drive, req[s].dst, Torn) /\ To(s, "filling")
            \/ "iofail" \in faults /\ UNCHANGED drive /\ To(s, "recount")
  BY StepFacts DEF EditTruncate, Stages, At

LEMMA FillFacts ==
  ASSUME Base, NEW s \in Slots, Fill(s)
  PROVE  /\ req[s] # None /\ req[s].stage = "filling"
         /\ UNCHANGED <<disp, meta, dispDir, rows, used, ops, limits>>
         /\ drive' = Put(drive, req[s].dst, req[s].content)
         /\ Keeps(s) /\ To(s, "register")
  BY StepFacts DEF Fill, Stages

LEMMA EditRegisterFacts ==
  ASSUME Base, NEW s \in Slots, EditRegister(s)
  PROVE  LET p == req[s].dst
         IN  /\ At(s, "edit", "register") /\ UNCHANGED <<disk, used, ops, limits>>
             /\ rows' = IF p \in DOMAIN rows THEN Put(rows, p, Length(p)) ELSE rows
             /\ Ends(s)
  BY DoneFacts DEF EditRegister, Length

LEMMA DisplaceFacts ==
  ASSUME Base, NEW s \in Slots, Displace(s)
  PROVE  /\ req[s] # None /\ req[s].stage = "displace"
         /\ UNCHANGED <<meta, dispDir, rows, used, ops, limits>>
         /\ Keeps(s)
         /\ \/ /\ req[s].dst \in DOMAIN drive
               /\ disp' = Put(disp, req[s].id, drive[req[s].dst])
               /\ drive' = Drop(drive, req[s].dst)
               /\ To(s, "stage")
            \/ UNCHANGED <<disp, drive>> /\ To(s, "error")
  BY StepFacts DEF Displace, Stages

LEMMA AnswerFacts ==
  ASSUME Base, NEW s \in Slots, Answer500(s) \/ Answer409(s)
  PROVE  /\ req[s] # None /\ req[s].stage \in {"error", "refused"}
         /\ Still /\ UNCHANGED <<ops, limits>> /\ Ends(s)
  BY DoneFacts DEF Answer500, Answer409, Still

LEMMA StageRowFacts ==
  ASSUME Base, NEW s \in Slots, StageRow(s)
  PROVE  /\ req[s] # None /\ req[s].stage = "stage" /\ Still /\ UNCHANGED <<ops, limits>>
         /\ To(s, "unlist") /\ req'[s].staged = At0(rows, req[s].dst, None)
         /\ req'[s].content = req[s].content /\ req'[s].delta = req[s].delta
<1> DEFINE r == [req[s] EXCEPT !.stage = "unlist", !.staged = At0(rows, req[s].dst, None)]
<1>1. req[s] # None /\ req[s].stage = "stage"
  BY DEF StageRow
<1>2. req[s] \in Handled
  BY <1>1, InFlight
<1>3. At0(rows, req[s].dst, None) \in Nat \cup {None}
  BY DEF At0, Base, Stored, Table
<1>4. r \in Handled
  BY <1>2, <1>3 DEF Handled, Stages
<1>5. req' = [req EXCEPT ![s] = r]
  BY DEF StageRow
<1>6. Others(s) /\ req'[s] = r
  BY <1>4, <1>5 DEF Others, Base, Requests
<1>7. r # None
  BY <1>4, NoneIsNoRequest
<1>8. Same(s) /\ req'[s].stage = "unlist" /\ req'[s].staged = At0(rows, req[s].dst, None)
  BY <1>2, <1>4, <1>6, <1>7 DEF Same, Handled
<1>9. req'[s].content = req[s].content /\ req'[s].delta = req[s].delta
  BY <1>2, <1>6 DEF Handled
<1> QED BY <1>1, <1>6, <1>8, <1>9 DEF To, StageRow, Still

LEMMA UnlistTargetFacts ==
  ASSUME Base, NEW s \in Slots, UnlistTarget(s)
  PROVE  /\ req[s] # None /\ req[s].stage = "unlist"
         /\ UNCHANGED <<drive, disp, dispDir, used, ops, limits>>
         /\ rows' = Drop(rows, req[s].dst) /\ meta' = Put(meta, req[s].id, req[s].dst)
         /\ Keeps(s) /\ To(s, "begin")
  BY StepFacts DEF UnlistTarget, Stages

LEMMA RefusedFacts ==
  ASSUME Base, NEW s \in Slots, req[s] # None, Refused(s)
  PROVE  /\ Keeps(s)
         /\ \/ req[s].id \in DOMAIN meta /\ To(s, "restore")
            \/ req[s].id \notin DOMAIN meta /\ To(s, "refused")
  BY StepFacts DEF Refused, Stages

LEMMA MoveLegFacts ==
  ASSUME Base, NEW s \in Slots, req[s] # None, NEW src, NEW dst, NEW next \in Stages,
         MoveLeg(s, src, dst, next)
  PROVE  /\ UNCHANGED <<disp, meta, dispDir, used, ops, limits>> /\ Keeps(s)
         /\ \/ Relocate(src, dst) /\ To(s, next)
            \/ UNCHANGED <<drive, rows>> /\ req[s].id \in DOMAIN meta /\ To(s, "restore")
            \/ UNCHANGED <<drive, rows>> /\ req[s].id \notin DOMAIN meta /\ To(s, "refused")
  BY StepFacts, RefusedFacts DEF MoveLeg

\* Each leg goes from one path of the request to another one.
LEMMA MoveFacts ==
  ASSUME Base, NEW s \in Slots, MoveFirst(s) \/ MoveSecond(s)
  PROVE  \E p, q \in Touched(req[s]) :
           /\ req[s] # None /\ req[s].op = "move" /\ req[s].stage \in {"begin", "second"}
           /\ p \in Paths /\ q \in Paths
           /\ UNCHANGED <<disp, meta, dispDir, used, ops, limits>> /\ Keeps(s)
           /\ \/ Relocate(p, q) /\ q = req[s].dst /\ To(s, "finish")
              \/ Relocate(p, q) /\ q # req[s].dst /\ To(s, "second")
              \/ UNCHANGED <<drive, rows>> /\ req[s].id \in DOMAIN meta /\ To(s, "restore")
              \/ UNCHANGED <<drive, rows>> /\ req[s].id \notin DOMAIN meta /\ To(s, "refused")
<1> DEFINE src == req[s].src dst == req[s].dst mid == Midway(src, dst)
<1>1. req[s] # None /\ req[s].op = "move" /\ req[s].stage \in {"begin", "second"}
  BY DEF MoveFirst, MoveSecond, At
<1>2. req[s] \in Handled
  BY <1>1, InFlight
<1>3. src \in Paths /\ dst \in Paths /\ mid \in Paths
  BY <1>2 DEF Handled, Paths, Midway
<1>4. src \in Touched(req[s]) /\ dst \in Touched(req[s]) /\ mid \in Touched(req[s])
  BY DEF Touched
<1>5. "finish" \in Stages /\ "second" \in Stages
  BY DEF Stages
<1> HIDE DEF src, dst, mid
<1>6. CASE MoveFirst(s)
  <2>1. CASE mid = src
    <3>1. MoveLeg(s, src, dst, "finish")
      BY <1>6, <2>1 DEF MoveFirst, src, dst, mid
    <3> QED BY <1>1, <1>3, <1>4, <1>5, <3>1, MoveLegFacts DEF dst
  <2>2. CASE mid # src /\ mid = dst
    <3>1. MoveLeg(s, src, dst, "finish")
      BY <1>6, <2>2 DEF MoveFirst, src, dst, mid
    <3> QED BY <1>1, <1>3, <1>4, <1>5, <3>1, MoveLegFacts DEF dst
  <2>3. CASE mid # src /\ mid # dst
    <3>1. MoveLeg(s, src, mid, "second")
      BY <1>6, <2>3 DEF MoveFirst, src, dst, mid
    <3> QED BY <1>1, <1>3, <1>4, <1>5, <2>3, <3>1, MoveLegFacts DEF dst
  <2> QED BY <2>1, <2>2, <2>3
<1>7. CASE MoveSecond(s)
  <2>1. MoveLeg(s, mid, dst, "finish")
    BY <1>7 DEF MoveSecond, src, dst, mid
  <2> QED BY <1>1, <1>3, <1>4, <1>5, <2>1, MoveLegFacts DEF dst
<1> QED BY <1>6, <1>7

LEMMA CopyReadFacts ==
  ASSUME Base, NEW s \in Slots, CopyRead(s)
  PROVE  /\ At(s, "copy", "begin") /\ Still /\ UNCHANGED <<ops, limits>>
         /\ \/ req[s].src \in DOMAIN rows /\ To(s, "write")
            \/ req[s].src \notin DOMAIN rows /\ To(s, "finish")
         /\ req'[s].delta = At0(rows, req[s].src, 0) /\ req'[s].delta \in Nat
         /\ req'[s].staged = req[s].staged /\ req'[s].content = req[s].content
<1> DEFINE next == IF req[s].src \in DOMAIN rows THEN "write" ELSE "finish"
           r    == [req[s] EXCEPT !.stage = next, !.delta = At0(rows, req[s].src, 0)]
<1>1. At(s, "copy", "begin") /\ req[s] # None
  BY DEF CopyRead, At
<1>2. req[s] \in Handled
  BY <1>1, InFlight
<1>3. At0(rows, req[s].src, 0) \in Nat /\ At0(rows, req[s].src, 0) \in Int
  BY DEF At0, Base, Stored, Table
<1>4. next \in Stages
  BY DEF Stages
<1>5. req' = [req EXCEPT ![s] = r]
  BY DEF CopyRead
<1> HIDE DEF next
<1>6. r \in Handled
  BY <1>4, <1>2, <1>3 DEF Handled
<1>7. Others(s) /\ req'[s] = r
  BY <1>6, <1>5 DEF Others, Base, Requests
<1>8. r # None
  BY <1>6, NoneIsNoRequest
<1>9. Same(s) /\ req'[s].stage = next /\ req'[s].delta = At0(rows, req[s].src, 0)
  BY <1>2, <1>6, <1>7, <1>8 DEF Same, Handled
<1>10. req'[s].content = req[s].content /\ req'[s].staged = req[s].staged
  BY <1>2, <1>7 DEF Handled
<1> QED BY <1>1, <1>3, <1>7, <1>9, <1>10 DEF To, CopyRead, Still, next

LEMMA CopyTruncateFacts ==
  ASSUME Base, NEW s \in Slots, CopyTruncate(s)
  PROVE  /\ At(s, "copy", "write") /\ UNCHANGED <<disp, meta, dispDir, rows, used, ops, limits>>
         /\ req'[s].delta = req[s].delta /\ req'[s].staged = req[s].staged
         /\ \/ /\ req[s].src \in DOMAIN drive /\ drive' = Put(drive, req[s].dst, Torn)
               /\ To(s, "filling") /\ req'[s].content = drive[req[s].src]
            \/ UNCHANGED drive /\ req[s].id \in DOMAIN meta /\ To(s, "restore")
            \/ UNCHANGED drive /\ req[s].id \notin DOMAIN meta /\ To(s, "refused")
<1>1. At(s, "copy", "write") /\ req[s] # None
  BY DEF CopyTruncate, At
<1>2. CASE req[s].src \in DOMAIN drive
  <2> DEFINE r == [req[s] EXCEPT !.stage = "filling", !.content = drive[req[s].src]]
  <2>1. req[s] \in Handled
    BY <1>1, InFlight
  <2>2. drive[req[s].src] \in Contents \cup {Torn}
    BY <1>2 DEF Base, Stored, Files
  <2>3. r \in Handled
    BY <2>1, <2>2 DEF Handled, Stages
  <2>4. req' = [req EXCEPT ![s] = r] /\ drive' = Put(drive, req[s].dst, Torn)
    BY <1>2 DEF CopyTruncate
  <2>5. Others(s) /\ req'[s] = r
    BY <2>3, <2>4 DEF Others, Base, Requests
  <2>6. r # None
    BY <2>3, NoneIsNoRequest
  <2>7. Same(s) /\ req'[s].stage = "filling" /\ req'[s].content = drive[req[s].src]
    BY <2>1, <2>3, <2>5, <2>6 DEF Same, Handled
  <2>8. req'[s].delta = req[s].delta /\ req'[s].staged = req[s].staged
    BY <2>1, <2>5 DEF Handled
  <2> QED BY <1>1, <1>2, <2>4, <2>5, <2>7, <2>8 DEF To, CopyTruncate
<1>3. CASE req[s].src \notin DOMAIN drive
  <2>1. UNCHANGED drive /\ Refused(s)
    BY <1>3 DEF CopyTruncate
  <2> QED BY <1>1, <2>1, RefusedFacts DEF CopyTruncate, Keeps
<1> QED BY <1>2, <1>3

LEMMA CopyCommitFacts ==
  ASSUME Base, NEW s \in Slots, CopyCommit(s)
  PROVE  /\ At(s, "copy", "register") /\ UNCHANGED <<disk, ops, limits>> /\ Keeps(s)
         /\ \/ /\ used + req[s].delta <= Quota
               /\ rows' = IF req[s].dst \in DOMAIN rows THEN rows
                          ELSE Put(rows, req[s].dst, req[s].delta)
               /\ used' = used + req[s].delta
               /\ To(s, "finish")
            \/ "txfail" \in faults /\ UNCHANGED <<rows, used>> /\ To(s, "finish")
            \/ /\ "fullcopy" \in faults /\ UNCHANGED <<rows, used>>
               /\ \/ req[s].id \in DOMAIN meta /\ To(s, "restore")
                  \/ req[s].id \notin DOMAIN meta /\ To(s, "refused")
<1>1. At(s, "copy", "register") /\ req[s] # None /\ UNCHANGED <<disk, ops, limits>>
  BY DEF CopyCommit, At
<1>2. "finish" \in Stages
  BY DEF Stages
<1>3. Step(s, "finish") => To(s, "finish") /\ Keeps(s)
  BY <1>1, <1>2, StepFacts
<1> QED BY <1>1, <1>3, RefusedFacts DEF CopyCommit

LEMMA FinishFacts ==
  ASSUME Base, NEW s \in Slots, Finish(s)
  PROVE  /\ req[s] # None /\ req[s].stage = "finish"
         /\ UNCHANGED <<drive, disp, dispDir, rows, used, ops, limits>>
         /\ meta' = Drop(meta, req[s].id) /\ Keeps(s) /\ To(s, "recount")
  BY StepFacts DEF Finish, Stages

LEMMA RestoreTargetFacts ==
  ASSUME Base, NEW s \in Slots, RestoreTarget(s)
  PROVE  /\ req[s] # None /\ req[s].stage = "restore" /\ req[s].id \in DOMAIN disp
         /\ UNCHANGED <<dispDir, used, ops, limits>>
         /\ drive' = Put(drive, req[s].dst, disp[req[s].id])
         /\ disp' = Drop(disp, req[s].id) /\ meta' = Drop(meta, req[s].id)
         /\ rows' = IF req[s].staged = None \/ req[s].dst \in DOMAIN rows
                    THEN rows ELSE Put(rows, req[s].dst, req[s].staged)
         /\ Keeps(s) /\ To(s, "refused")
<1>1. req[s] # None /\ req[s].stage = "restore"
  BY DEF RestoreTarget
<1>2. req[s].id \in DOMAIN disp
  BY <1>1 DEF Base, Form, Stored
<1> QED BY <1>1, <1>2, StepFacts DEF RestoreTarget, Stages

\* A step that ends a request and leaves the records of displaced targets.
LEMMA EndsKeeps ==
  ASSUME Base, NEW s \in Slots, req[s] # None, Ends(s), Stored',
         UNCHANGED <<disp, meta, dispDir, ops, limits>>
  PROVE  Base'
<1>1. Limits'
  BY DEF Base, Limits, limits
<1>2. Beyond(disp, disp', {req[s].id}) /\ Beyond(meta, meta', {req[s].id})
  BY DEF Beyond
<1>3. Others(s) /\ req'[s] = None
  BY DEF Ends
<1> QED BY <1>1, <1>2, <1>3, BaseKeeps

\* A step to another stage.
LEMMA ToKeeps ==
  ASSUME Base, NEW s \in Slots, req[s] # None, NEW stage, To(s, stage), Stored',
         UNCHANGED <<dispDir, ops, limits>>,
         Beyond(disp, disp', {req[s].id}), Beyond(meta, meta', {req[s].id}),
         Fits(req[s].op, stage),
         req[s].op \in {"put", "edit"} => req'[s].content = req[s].content,
         stage \in {"filling", "register"} => req'[s].content \in Contents \cup {Torn},
         req[s].op \in {"move", "copy"} => req'[s].delta \in Nat,
         stage \in {"stage", "unlist"} => req[s].id \in DOMAIN disp' \ DOMAIN meta',
         stage = "restore" => req[s].id \in DOMAIN meta',
         req[s].id \in DOMAIN meta' => req[s].op \in {"move", "copy"} /\ stage \in Moving
  PROVE  Base'
<1>1. Limits'
  BY DEF Base, Limits, limits
<1>2. Form(s) /\ req[s].id <= ops
  BY DEF Base, Form
<1>3. /\ Others(s) /\ req'[s].op = req[s].op /\ req'[s].src = req[s].src
      /\ req'[s].dst = req[s].dst /\ req'[s].id = req[s].id /\ req'[s].stage = stage
  BY DEF To, Same
<1>4. Form(s)'
  BY <1>2, <1>3 DEF Form
<1> QED BY <1>1, <1>3, <1>4, BaseKeeps

LEMMA UploadBase ==
  ASSUME Base, NEW s \in Slots,
         \/ PutStreamed(s) \/ PutRefused(s) \/ PutCharge(s) \/ PutRename(s) \/ PutRegister(s)
         \/ Recount(s)
  PROVE  Base'
<1>1. Stored /\ (req[s] # None => Form(s) /\ req[s] \in Handled)
  BY InFlight DEF Base
<1> USE DEF At
<1>2. CASE PutStreamed(s)
  <2>1. At(s, "put", "stream") /\ Still /\ UNCHANGED <<ops, limits>> /\ To(s, "charge")
        /\ req'[s].content = req[s].content
    BY <1>2, PutStreamedFacts
  <2>2. Stored' /\ UNCHANGED <<dispDir, disp, meta>>
    BY <1>1, <2>1 DEF Stored, Still, disk, Files, Table
  <2>3. Beyond(disp, disp', {req[s].id}) /\ Beyond(meta, meta', {req[s].id})
    BY <2>2 DEF Beyond
  <2>4. req[s].id \notin DOMAIN meta'
    BY <1>1, <2>1, <2>2 DEF Form
  <2> QED BY <2>1, <2>2, <2>3, <2>4, ToKeeps DEF Fits
<1>3. CASE PutRefused(s)
  <2>1. req[s] # None /\ Still /\ UNCHANGED <<ops, limits>> /\ Ends(s)
    BY <1>3, PutRefusedFacts
  <2>2. Stored' /\ UNCHANGED <<dispDir, disp, meta>>
    BY <1>1, <2>1 DEF Stored, Still, disk, Files, Table
  <2> QED BY <2>1, <2>2, EndsKeeps
<1>4. CASE PutCharge(s)
  <2>1. At(s, "put", "charge") /\ UNCHANGED <<disk, rows, ops, limits>>
    BY <1>4, PutChargeFacts
  <2>2. UNCHANGED <<dispDir, disp, meta>> /\ (used' \in Int => Stored')
    BY <1>1, <2>1 DEF Stored, disk, Files, Table
  <2>3. Beyond(disp, disp', {req[s].id}) /\ Beyond(meta, meta', {req[s].id})
    BY <2>2 DEF Beyond
  <2>4. req[s].id \notin DOMAIN meta'
    BY <1>1, <2>1, <2>2 DEF Form
  <2>5. CASE Ends(s) /\ UNCHANGED used
    BY <1>1, <2>1, <2>2, <2>5, EndsKeeps DEF Stored
  <2>6. CASE \E delta \in Int : To(s, "write") /\ used' = used + delta
                                 /\ req'[s].content = req[s].content
    <3>1. used' \in Int /\ To(s, "write") /\ req'[s].content = req[s].content
      BY <1>1, <2>6 DEF Stored
    <3> QED BY <2>1, <2>2, <2>3, <2>4, <3>1, ToKeeps DEF Fits
  <2> QED BY <1>4, <2>5, <2>6, PutChargeFacts
<1>5. CASE PutRename(s)
  <2>1. /\ At(s, "put", "write") /\ Keeps(s)
        /\ UNCHANGED <<disp, meta, dispDir, rows, used, ops, limits>>
    BY <1>5, PutRenameFacts
  <2>2. req[s].content \in Contents /\ req[s].dst \in Paths
    BY <1>1, <2>1 DEF Form, Handled
  <2>3. drive' = drive \/ drive' = Put(drive, req[s].dst, req[s].content)
    BY <1>5, PutRenameFacts
  <2>4. Files(drive')
    BY <1>1, <2>2, <2>3, FilesPut DEF Stored
  <2>5. Stored'
    BY <1>1, <2>1, <2>4 DEF Stored
  <2>6. Beyond(disp, disp', {req[s].id}) /\ Beyond(meta, meta', {req[s].id})
    BY <2>1 DEF Beyond
  <2>7. req[s].id \notin DOMAIN meta' /\ req'[s].content = req[s].content
    BY <1>1, <2>1 DEF Form, Keeps
  <2>8. To(s, "register") \/ To(s, "recount")
    BY <1>5, PutRenameFacts
  <2> QED BY <2>1, <2>2, <2>5, <2>6, <2>7, <2>8, ToKeeps DEF Fits
<1>6. CASE PutRegister(s)
  <2>1. At(s, "put", "register") /\ UNCHANGED <<disk, used, ops, limits>>
    BY <1>6, PutRegisterFacts
  <2>2. Size[req[s].content] \in Nat /\ req[s].dst \in Paths
    BY <1>1, <2>1, DavAssumption DEF Form, Handled
  <2>3. rows' = rows \/ rows' = Put(rows, req[s].dst, Size[req[s].content])
    BY <1>6, PutRegisterFacts
  <2>4. Table(rows')
    BY <1>1, <2>2, <2>3, TablePut DEF Stored
  <2>5. UNCHANGED <<dispDir, disp, meta>> /\ Stored'
    BY <1>1, <2>1, <2>4 DEF Stored, disk
  <2>6. Beyond(disp, disp', {req[s].id}) /\ Beyond(meta, meta', {req[s].id})
    BY <2>5 DEF Beyond
  <2>7. req[s].id \notin DOMAIN meta'
    BY <1>1, <2>1, <2>5 DEF Form
  <2>8. CASE Ends(s)
    BY <2>1, <2>5, <2>8, EndsKeeps
  <2>9. CASE To(s, "recount") /\ Keeps(s)
    BY <2>1, <2>5, <2>6, <2>7, <2>9, ToKeeps DEF Fits, Keeps
  <2> QED BY <1>6, <2>8, <2>9, PutRegisterFacts
<1>7. CASE Recount(s)
  <2>1. req[s] # None /\ UNCHANGED <<disk, rows, ops, limits>> /\ Ends(s)
    BY <1>7, RecountFacts
  <2>2. Sum(rows) \in Int
    BY <1>1, TotalIsInt DEF Stored
  <2>3. used' \in Int
    BY <1>1, <1>7, <2>2, RecountFacts DEF Stored
  <2>4. UNCHANGED <<dispDir, disp, meta>> /\ Stored'
    BY <1>1, <2>1, <2>3 DEF Stored, disk
  <2> QED BY <2>1, <2>4, EndsKeeps
<1> QED BY <1>2, <1>3, <1>4, <1>5, <1>6, <1>7

LEMMA EditBase ==
  ASSUME Base, NEW s \in Slots,
         EditCharge(s) \/ EditTruncate(s) \/ EditRegister(s) \/ Fill(s)
  PROVE  Base'
<1>1. Stored /\ (req[s] # None => Form(s) /\ req[s] \in Handled)
  BY InFlight DEF Base
<1> USE DEF At
<1>2. CASE EditCharge(s)
  <2>1. At(s, "edit", "charge") /\ UNCHANGED <<disk, rows, ops, limits>>
    BY <1>2, EditChargeFacts
  <2>2. UNCHANGED <<dispDir, disp, meta>> /\ (used' \in Int => Stored')
    BY <1>1, <2>1 DEF Stored, disk, Files, Table
  <2>3. Beyond(disp, disp', {req[s].id}) /\ Beyond(meta, meta', {req[s].id})
    BY <2>2 DEF Beyond
  <2>4. req[s].id \notin DOMAIN meta'
    BY <1>1, <2>1, <2>2 DEF Form
  <2>5. CASE Ends(s) /\ UNCHANGED used
    BY <1>1, <2>1, <2>2, <2>5, EndsKeeps DEF Stored
  <2>6. CASE \E delta \in Int : To(s, "write") /\ used' = used + delta
                                 /\ req'[s].content = req[s].content
    <3>1. used' \in Int /\ To(s, "write") /\ req'[s].content = req[s].content
      BY <1>1, <2>6 DEF Stored
    <3> QED BY <2>1, <2>2, <2>3, <2>4, <3>1, ToKeeps DEF Fits
  <2> QED BY <1>2, <2>5, <2>6, EditChargeFacts
<1>3. CASE EditTruncate(s)
  <2>1. /\ At(s, "edit", "write") /\ Keeps(s)
        /\ UNCHANGED <<disp, meta, dispDir, rows, used, ops, limits>>
    BY <1>3, EditTruncateFacts
  <2>2. req[s].content \in Contents /\ req[s].dst \in Paths
    BY <1>1, <2>1 DEF Form, Handled
  <2>3. drive' = drive \/ drive' = Put(drive, req[s].dst, Torn)
    BY <1>3, EditTruncateFacts
  <2>4. Files(drive')
    BY <1>1, <2>2, <2>3, FilesPut DEF Stored
  <2>5. Stored'
    BY <1>1, <2>1, <2>4 DEF Stored
  <2>6. Beyond(disp, disp', {req[s].id}) /\ Beyond(meta, meta', {req[s].id})
    BY <2>1 DEF Beyond
  <2>7. req[s].id \notin DOMAIN meta' /\ req'[s].content = req[s].content
    BY <1>1, <2>1 DEF Form, Keeps
  <2>8. To(s, "filling") \/ To(s, "recount")
    BY <1>3, EditTruncateFacts
  <2> QED BY <2>1, <2>2, <2>5, <2>6, <2>7, <2>8, ToKeeps DEF Fits
<1>4. CASE Fill(s)
  <2>1. /\ req[s] # None /\ req[s].stage = "filling" /\ Keeps(s) /\ To(s, "register")
        /\ UNCHANGED <<disp, meta, dispDir, rows, used, ops, limits>>
        /\ drive' = Put(drive, req[s].dst, req[s].content)
    BY <1>4, FillFacts
  <2>2. req[s].content \in Contents \cup {Torn} /\ req[s].dst \in Paths
    BY <1>1, <2>1 DEF Form, Handled
  <2>3. Files(drive')
    BY <1>1, <2>1, <2>2, FilesPut DEF Stored
  <2>4. Stored'
    BY <1>1, <2>1, <2>3 DEF Stored
  <2>5. Beyond(disp, disp', {req[s].id}) /\ Beyond(meta, meta', {req[s].id})
    BY <2>1 DEF Beyond
  <2>6. Fits(req[s].op, "register")
    BY <1>1, <2>1 DEF Form, Fits
  <2>7. /\ req[s].op \in {"move", "copy"} => req'[s].delta \in Nat
        /\ req'[s].content = req[s].content
        /\ req[s].id \in DOMAIN meta' => req[s].op \in {"move", "copy"}
    BY <1>1, <2>1 DEF Form, Keeps
  <2>8. "register" \in Moving
    BY DEF Moving
  <2> QED BY <2>1, <2>2, <2>4, <2>5, <2>6, <2>7, <2>8, ToKeeps
<1>5. CASE EditRegister(s)
  <2>1. At(s, "edit", "register") /\ UNCHANGED <<disk, used, ops, limits>> /\ Ends(s)
    BY <1>5, EditRegisterFacts
  <2>2. Length(req[s].dst) \in Nat /\ req[s].dst \in Paths
    BY <1>1, <2>1, DavAssumption DEF Handled, Length, At0
  <2>3. rows' = rows \/ rows' = Put(rows, req[s].dst, Length(req[s].dst))
    BY <1>5, EditRegisterFacts
  <2>4. Table(rows')
    BY <1>1, <2>2, <2>3, TablePut DEF Stored
  <2>5. UNCHANGED <<dispDir, disp, meta>> /\ Stored'
    BY <1>1, <2>1, <2>4 DEF Stored, disk
  <2> QED BY <2>1, <2>5, EndsKeeps
<1> QED BY <1>2, <1>3, <1>4, <1>5

LEMMA DisplaceBase ==
  ASSUME Base, NEW s \in Slots,
         \/ Displace(s) \/ Answer500(s) \/ Answer409(s) \/ StageRow(s) \/ UnlistTarget(s)
         \/ Finish(s) \/ RestoreTarget(s)
  PROVE  Base'
<1>1. Stored /\ (req[s] # None => Form(s) /\ req[s] \in Handled)
  BY InFlight DEF Base
<1> DEFINE id == req[s].id
<1>2. CASE Displace(s)
  <2>1. /\ req[s] # None /\ req[s].stage = "displace" /\ Keeps(s)
        /\ UNCHANGED <<meta, dispDir, rows, used, ops, limits>>
    BY <1>2, DisplaceFacts
  <2>2. id \in 1..ops /\ id \notin DOMAIN meta /\ req[s].op \in {"move", "copy"}
    BY <1>1, <2>1 DEF Form, Handled, Moving, Fits
  <2>3. Beyond(meta, meta', {id}) /\ id \notin DOMAIN meta'
    BY <2>1, <2>2 DEF Beyond
  <2>4. /\ req[s].op \in {"move", "copy"} => req'[s].delta \in Nat
        /\ Fits(req[s].op, "stage") /\ Fits(req[s].op, "error")
    BY <1>1, <2>1, <2>2 DEF Form, Keeps, Fits
  <2>5. CASE /\ req[s].dst \in DOMAIN drive /\ disp' = Put(disp, id, drive[req[s].dst])
             /\ drive' = Drop(drive, req[s].dst) /\ To(s, "stage")
    <3>1. Files(drive')
      BY <1>1, <2>5, FilesDrop DEF Stored
    <3>2. drive[req[s].dst] \in Contents \cup {Torn}
      BY <1>1, <2>5 DEF Stored, Files
    <3>3. DOMAIN disp' = DOMAIN disp \cup {id} /\ \A u \in DOMAIN disp' : disp'[u] \in Contents \cup {Torn}
      BY <1>1, <2>5, <3>2 DEF Stored, Put
    <3>4. Stored'
      BY <1>1, <2>1, <2>2, <3>1, <3>3 DEF Stored
    <3>5. Beyond(disp, disp', {id})
      BY <2>5 DEF Beyond, Put
    <3> QED BY <2>1, <2>2, <2>3, <2>4, <2>5, <3>3, <3>4, <3>5, ToKeeps
  <2>6. CASE UNCHANGED <<disp, drive>> /\ To(s, "error")
    <3>1. Stored' /\ Beyond(disp, disp', {id})
      BY <1>1, <2>1, <2>6 DEF Stored, Beyond
    <3> QED BY <2>1, <2>2, <2>3, <2>4, <2>6, <3>1, ToKeeps
  <2> QED BY <1>2, <2>5, <2>6, DisplaceFacts
<1>3. CASE Answer500(s) \/ Answer409(s)
  <2>1. req[s] # None /\ Still /\ UNCHANGED <<ops, limits>> /\ Ends(s)
    BY <1>3, AnswerFacts
  <2>2. Stored' /\ UNCHANGED <<dispDir, disp, meta>>
    BY <1>1, <2>1 DEF Stored, Still, disk, Files, Table
  <2> QED BY <2>1, <2>2, EndsKeeps
<1>4. CASE StageRow(s)
  <2>1. /\ req[s] # None /\ req[s].stage = "stage" /\ Still /\ UNCHANGED <<ops, limits>>
        /\ To(s, "unlist") /\ req'[s].content = req[s].content /\ req'[s].delta = req[s].delta
    BY <1>4, StageRowFacts
  <2>2. Stored' /\ UNCHANGED <<dispDir, disp, meta>>
    BY <1>1, <2>1 DEF Stored, Still, disk, Files, Table
  <2>3. Beyond(disp, disp', {id}) /\ Beyond(meta, meta', {id})
    BY <2>2 DEF Beyond
  <2>4. id \in DOMAIN disp' \ DOMAIN meta' /\ Fits(req[s].op, "unlist")
    BY <1>1, <2>1, <2>2 DEF Form, Fits
  <2>5. req[s].op \in {"move", "copy"} => req'[s].delta \in Nat
    BY <1>1, <2>1 DEF Form
  <2> QED BY <2>1, <2>2, <2>3, <2>4, <2>5, ToKeeps
<1>5. CASE UnlistTarget(s)
  <2>1. /\ req[s] # None /\ req[s].stage = "unlist" /\ Keeps(s) /\ To(s, "begin")
        /\ UNCHANGED <<drive, disp, dispDir, used, ops, limits>>
        /\ rows' = Drop(rows, req[s].dst) /\ meta' = Put(meta, id, req[s].dst)
    BY <1>5, UnlistTargetFacts
  <2>2. id \in DOMAIN disp /\ req[s].dst \in Paths /\ Fits(req[s].op, "unlist")
    BY <1>1, <2>1 DEF Form, Handled
  <2>3. Table(rows')
    BY <1>1, <2>1, TableDrop DEF Stored
  <2>4. DOMAIN meta' = DOMAIN meta \cup {id} /\ \A u \in DOMAIN meta' : meta'[u] \in Paths
    BY <1>1, <2>1, <2>2 DEF Stored, Put
  <2>5. Stored'
    BY <1>1, <2>1, <2>2, <2>3, <2>4 DEF Stored
  <2>6. Beyond(disp, disp', {id}) /\ Beyond(meta, meta', {id})
    BY <2>1 DEF Beyond, Put
  <2>7. Fits(req[s].op, "begin") /\ req[s].op \in {"move", "copy"} /\ "begin" \in Moving
    BY <2>2 DEF Fits, Moving
  <2>8. req'[s].delta \in Nat
    BY <1>1, <2>1, <2>7 DEF Form, Keeps
  <2> QED BY <2>1, <2>5, <2>6, <2>7, <2>8, ToKeeps
<1>6. CASE Finish(s)
  <2>1. /\ req[s] # None /\ req[s].stage = "finish" /\ Keeps(s) /\ To(s, "recount")
        /\ UNCHANGED <<drive, disp, dispDir, rows, used, ops, limits>>
        /\ meta' = Drop(meta, id)
    BY <1>6, FinishFacts
  <2>2. DOMAIN meta' = DOMAIN meta \ {id} /\ \A u \in DOMAIN meta' : meta'[u] \in Paths
    BY <1>1, <2>1 DEF Stored, Drop, Restrict
  <2>3. Stored'
    BY <1>1, <2>1, <2>2 DEF Stored
  <2>4. Beyond(disp, disp', {id}) /\ Beyond(meta, meta', {id})
    BY <2>1 DEF Beyond, Drop, Restrict
  <2>5. Fits(req[s].op, "recount") /\ req[s].op \in {"move", "copy"}
    BY <1>1, <2>1 DEF Form, Fits
  <2>6. req'[s].delta \in Nat
    BY <1>1, <2>1, <2>5 DEF Form, Keeps
  <2> QED BY <2>1, <2>2, <2>3, <2>4, <2>5, <2>6, ToKeeps
<1>7. CASE RestoreTarget(s)
  <2>1. /\ req[s] # None /\ req[s].stage = "restore" /\ id \in DOMAIN disp
        /\ UNCHANGED <<dispDir, used, ops, limits>> /\ Keeps(s) /\ To(s, "refused")
        /\ drive' = Put(drive, req[s].dst, disp[id])
        /\ disp' = Drop(disp, id) /\ meta' = Drop(meta, id)
    BY <1>7, RestoreTargetFacts
  <2>2. req[s].dst \in Paths /\ disp[id] \in Contents \cup {Torn}
    BY <1>1, <2>1 DEF Stored, Handled
  <2>3. Files(drive')
    BY <1>1, <2>1, <2>2, FilesPut DEF Stored
  <2>4. Table(rows')
    <3>1. CASE UNCHANGED rows
      BY <1>1, <3>1 DEF Stored
    <3>2. CASE req[s].staged # None /\ rows' = Put(rows, req[s].dst, req[s].staged)
      <4>1. req[s].staged \in Nat
        BY <1>1, <2>1, <3>2 DEF Handled
      <4> QED BY <1>1, <2>2, <3>2, <4>1, TablePut DEF Stored
    <3> QED BY <1>7, <3>1, <3>2, RestoreTargetFacts
  <2>5. /\ DOMAIN meta' = DOMAIN meta \ {id} /\ \A u \in DOMAIN meta' : meta'[u] \in Paths
        /\ DOMAIN disp' = DOMAIN disp \ {id}
        /\ \A u \in DOMAIN disp' : disp'[u] \in Contents \cup {Torn}
    BY <1>1, <2>1 DEF Stored, Drop, Restrict
  <2>6. Stored'
    BY <1>1, <2>1, <2>3, <2>4, <2>5 DEF Stored
  <2>7. Beyond(disp, disp', {id}) /\ Beyond(meta, meta', {id})
    BY <2>1 DEF Beyond, Drop, Restrict
  <2>8. Fits(req[s].op, "refused") /\ req[s].op \in {"move", "copy"}
    BY <1>1, <2>1 DEF Form, Fits
  <2>9. req'[s].delta \in Nat
    BY <1>1, <2>1, <2>8 DEF Form, Keeps
  <2> QED BY <2>1, <2>5, <2>6, <2>7, <2>8, <2>9, ToKeeps
<1> QED BY <1>2, <1>3, <1>4, <1>5, <1>6, <1>7

LEMMA TransferBase ==
  ASSUME Base, NEW s \in Slots,
         \/ MoveFirst(s) \/ MoveSecond(s) \/ CopyRead(s) \/ CopyTruncate(s) \/ CopyCommit(s)
  PROVE  Base'
<1>1. Stored /\ (req[s] # None => Form(s) /\ req[s] \in Handled)
  BY InFlight DEF Base
<1> DEFINE id == req[s].id
<1>2. {"begin", "second", "write", "filling", "register", "finish", "restore"} \subseteq Moving
  BY DEF Moving
<1>3. CASE MoveFirst(s) \/ MoveSecond(s)
  <2>1. PICK p, q \in Touched(req[s]) :
          /\ req[s] # None /\ req[s].op = "move" /\ req[s].stage \in {"begin", "second"}
          /\ p \in Paths /\ q \in Paths
          /\ UNCHANGED <<disp, meta, dispDir, used, ops, limits>> /\ Keeps(s)
          /\ \/ Relocate(p, q) /\ To(s, "finish")
             \/ Relocate(p, q) /\ To(s, "second")
             \/ UNCHANGED <<drive, rows>> /\ id \in DOMAIN meta /\ To(s, "restore")
             \/ UNCHANGED <<drive, rows>> /\ id \notin DOMAIN meta /\ To(s, "refused")
    BY <1>3, MoveFacts
  <2>2. Files(drive') /\ Table(rows')
    <3>1. CASE Relocate(p, q)
      BY <1>1, <2>1, <3>1, FilesMove, TableMove DEF Relocate, Stored
    <3>2. CASE UNCHANGED <<drive, rows>>
      BY <1>1, <3>2 DEF Stored
    <3> QED BY <2>1, <3>1, <3>2
  <2>3. Stored'
    BY <1>1, <2>1, <2>2 DEF Stored
  <2>4. Beyond(disp, disp', {id}) /\ Beyond(meta, meta', {id})
    BY <2>1 DEF Beyond
  <2>5. req'[s].delta \in Nat
    BY <1>1, <2>1 DEF Form, Keeps
  <2>6. /\ Fits("move", "finish") /\ Fits("move", "second") /\ Fits("move", "restore")
        /\ Fits("move", "refused")
    BY DEF Fits
  <2> QED BY <1>2, <2>1, <2>3, <2>4, <2>5, <2>6, ToKeeps
<1>4. CASE CopyRead(s)
  <2>1. /\ req[s] # None /\ req[s].op = "copy" /\ Still /\ UNCHANGED <<ops, limits>>
        /\ To(s, "write") \/ To(s, "finish")
        /\ req'[s].delta \in Nat
    BY <1>4, CopyReadFacts DEF At
  <2>2. Stored' /\ UNCHANGED <<dispDir, disp, meta>>
    BY <1>1, <2>1 DEF Stored, Still, disk, Files, Table
  <2>3. Beyond(disp, disp', {id}) /\ Beyond(meta, meta', {id})
    BY <2>2 DEF Beyond
  <2>4. Fits("copy", "write") /\ Fits("copy", "finish")
    BY DEF Fits
  <2> QED BY <1>2, <2>1, <2>2, <2>3, <2>4, ToKeeps
<1>5. CASE CopyTruncate(s)
  <2>1. /\ req[s] # None /\ req[s].op = "copy"
        /\ UNCHANGED <<disp, meta, dispDir, rows, used, ops, limits>>
        /\ req'[s].delta = req[s].delta
        /\ \/ /\ req[s].src \in DOMAIN drive /\ drive' = Put(drive, req[s].dst, Torn)
              /\ To(s, "filling") /\ req'[s].content = drive[req[s].src]
           \/ UNCHANGED drive /\ id \in DOMAIN meta /\ To(s, "restore")
           \/ UNCHANGED drive /\ id \notin DOMAIN meta /\ To(s, "refused")
    BY <1>5, CopyTruncateFacts DEF At
  <2>2. Files(drive')
    <3>1. req[s].dst \in Paths
      BY <1>1, <2>1 DEF Handled
    <3> QED BY <1>1, <2>1, <3>1, FilesPut DEF Stored
  <2>3. Stored'
    BY <1>1, <2>1, <2>2 DEF Stored
  <2>4. Beyond(disp, disp', {id}) /\ Beyond(meta, meta', {id})
    BY <2>1 DEF Beyond
  <2>5. req'[s].delta \in Nat
    BY <1>1, <2>1 DEF Form
  <2>6. Fits("copy", "filling") /\ Fits("copy", "restore") /\ Fits("copy", "refused")
    BY DEF Fits
  <2>7. req[s].src \in DOMAIN drive => drive[req[s].src] \in Contents \cup {Torn}
    BY <1>1 DEF Stored, Files
  <2> QED BY <1>2, <2>1, <2>3, <2>4, <2>5, <2>6, <2>7, ToKeeps
<1>6. CASE CopyCommit(s)
  <2>1. /\ req[s] # None /\ req[s].op = "copy" /\ UNCHANGED <<disk, ops, limits>> /\ Keeps(s)
        /\ \/ To(s, "finish")
           \/ id \in DOMAIN meta /\ To(s, "restore")
           \/ id \notin DOMAIN meta /\ To(s, "refused")
    BY <1>6, CopyCommitFacts DEF At
  <2>2. req[s].delta \in Nat /\ req[s].dst \in Paths
    BY <1>1, <2>1 DEF Form, Handled
  <2>3. rows' = rows \/ rows' = Put(rows, req[s].dst, req[s].delta)
    BY <1>6, CopyCommitFacts
  <2>4. used' = used \/ used' = used + req[s].delta
    BY <1>6, CopyCommitFacts
  <2>5. Table(rows') /\ used' \in Int
    BY <1>1, <2>2, <2>3, <2>4, TablePut DEF Stored
  <2>6. UNCHANGED <<dispDir, disp, meta>> /\ Stored'
    BY <1>1, <2>1, <2>5 DEF Stored, disk
  <2>7. Beyond(disp, disp', {id}) /\ Beyond(meta, meta', {id})
    BY <2>6 DEF Beyond
  <2>8. Fits("copy", "finish") /\ Fits("copy", "restore") /\ Fits("copy", "refused")
    BY DEF Fits
  <2>9. req'[s].delta \in Nat
    BY <2>1, <2>2 DEF Keeps
  <2> QED BY <1>2, <2>1, <2>6, <2>7, <2>8, <2>9, ToKeeps
<1> QED BY <1>3, <1>4, <1>5, <1>6

\* A request enters with a number that none has had.
LEMMA StartBase ==
  ASSUME Base, NEW s \in Slots, NEW op, NEW stage \in Stages, NEW src \in Paths,
         NEW dst \in Paths, NEW content \in Contents \cup {None},
         op \in {"put", "edit", "move", "copy", "delete"}, Fits(op, stage),
         stage \in {"stream", "charge", "displace", "begin", "recount"},
         op \in {"put", "edit"} => content \in Contents /\ src = dst,
         op \in {"move", "copy"} => src # dst,
         Start(s, op, stage, src, dst, content),
         Files(drive'), Table(rows'), UNCHANGED <<disp, meta, dispDir, used, limits>>
  PROVE  Base'
<1>1. /\ req[s] = None /\ Quiet(s, op, src, dst)
      /\ ops' = ops + 1 /\ ops' \in 1..MaxOps
      /\ Others(s) /\ req'[s] \in Handled /\ req'[s] # None
      /\ req'[s].op = op /\ req'[s].stage = stage /\ req'[s].src = src /\ req'[s].dst = dst
      /\ req'[s].content = content /\ req'[s].id = ops'
      /\ req'[s].before = At0(drive, dst, None) /\ req'[s].staged = None
      /\ req'[s].existed = FALSE /\ req'[s].delta = 0
  BY StartFacts, Zenon
<1>2. Stored /\ Limits /\ Numbered /\ ops \in Nat
  BY DEF Base, Limits
<1>3. Stored' /\ Limits'
  BY <1>1, <1>2 DEF Stored, Limits, limits
<1>4. ops' \notin DOMAIN disp'
  BY <1>1, <1>2 DEF Stored
<1>5. Form(s)'
  BY <1>1, <1>3, <1>4 DEF Form, Stored
<1>6. ASSUME NEW t \in Slots \ {s}, req'[t] # None
      PROVE  Form(t)' /\ req'[t].id # req'[s].id
  <2>1. req'[t] = req[t] /\ req[t] # None /\ Form(t) /\ req[t] \in Handled
    BY <1>1, <1>6, InFlight DEF Others, Base
  <2>2. req[t].id <= ops /\ req[t].id \in Nat
    BY <2>1, DavAssumption DEF Form, Handled
  <2>3. Form(t)'
    BY <1>1, <1>2, <2>1, <2>2 DEF Form
  <2> QED BY <1>1, <1>2, <2>1, <2>2, <2>3
<1>7. Numbered'
  BY <1>1, <1>2, <1>6 DEF Numbered, Others
<1>8. \A t \in Slots : req'[t] # None => Form(t)'
  BY <1>5, <1>6
<1> QED BY <1>1, <1>3, <1>7, <1>8 DEF Base, Others

LEMMA RequestBase ==
  ASSUME Base, NEW s \in Slots, Request(s)
  PROVE  Base'
<1>1. Stored
  BY DEF Base
<1> USE DEF Stages, Fits
<1>2. ASSUME NEW p \in Paths, NEW c \in Contents, StartPut(s, p, c)
      PROVE  Base'
  <2>1. Start(s, "put", "stream", p, p, c) /\ UNCHANGED <<disp, meta, dispDir, used, limits>>
    BY <1>2 DEF StartPut, disk
  <2>2. Files(drive') /\ Table(rows')
    BY <1>1, <1>2 DEF Stored, StartPut, disk, Files, Table
  <2> QED BY <2>1, <2>2, StartBase
<1>3. ASSUME NEW p \in Paths, NEW c \in Contents, StartEdit(s, p, c)
      PROVE  Base'
  <2>1. Start(s, "edit", "charge", p, p, c) /\ UNCHANGED <<disp, meta, dispDir, used, limits>>
    BY <1>3 DEF StartEdit, disk
  <2>2. Files(drive') /\ Table(rows')
    BY <1>1, <1>3 DEF Stored, StartEdit, disk, Files, Table
  <2> QED BY <2>1, <2>2, StartBase
<1>4. ASSUME NEW p \in Paths, NEW q \in Paths, NEW op \in {"move", "copy"},
             StartTransfer(s, op, p, q)
      PROVE  Base'
  <2>1. \E stage \in {"displace", "begin"} : Start(s, op, stage, p, q, None)
    BY <1>4 DEF StartTransfer
  <2>2. p # q /\ UNCHANGED <<disp, meta, dispDir, used, limits>>
    BY <1>4 DEF StartTransfer, disk
  <2>3. Files(drive') /\ Table(rows')
    BY <1>1, <1>4 DEF Stored, StartTransfer, disk, Files, Table
  <2> QED BY <2>1, <2>2, <2>3, StartBase
<1>5. ASSUME NEW p \in Paths, Delete(s, p)
      PROVE  Base'
  <2>1. Start(s, "delete", "recount", p, p, None) /\ UNCHANGED <<disp, meta, dispDir, used, limits>>
    BY <1>5 DEF Delete
  <2>2. drive' = Drop(drive, p) /\ rows' = Drop(rows, p)
    BY <1>5 DEF Delete
  <2>3. Files(drive') /\ Table(rows')
    BY <1>1, <2>2, FilesDrop, TableDrop DEF Stored
  <2> QED BY <2>1, <2>3, StartBase
<1> QED BY <1>2, <1>3, <1>4, <1>5 DEF Request

LEMMA BreakBase ==
  ASSUME Base, (\E s \in Slots : Disconnect(s)) \/ Crash
  PROVE  Base'
<1>1. Stored /\ Limits /\ Requests
  BY DEF Base
<1>2. Break => breaks' \in 0..MaxBreaks
  BY <1>1, DavAssumption DEF Break, Limits
<1>3. ASSUME NEW s \in Slots, Disconnect(s) PROVE Base'
  <2>1. req[s] # None /\ Ends(s) /\ UNCHANGED <<disk, rows, used, ops, faults>> /\ Break
    BY <1>3, DoneFacts DEF Disconnect
  <2>2. Stored' /\ UNCHANGED <<disp, meta, dispDir>>
    BY <1>1, <2>1 DEF Stored, disk, Files, Table
  <2>3. Limits'
    BY <1>1, <1>2, <2>1, <2>2 DEF Limits
  <2>4. Beyond(disp, disp', {req[s].id}) /\ Beyond(meta, meta', {req[s].id})
    BY <2>2 DEF Beyond
  <2> QED BY <2>1, <2>2, <2>3, <2>4, BaseKeeps DEF Ends
<1>4. CASE Crash
  <2>1. /\ Break /\ req' = [s \in Slots |-> None]
        /\ meta' = Restrict(meta, {u \in DOMAIN meta : meta[u] \notin DOMAIN drive})
        /\ UNCHANGED <<drive, disp, dispDir, rows, used, ops, faults>>
    BY <1>4 DEF Crash
  <2>2. DOMAIN meta' \subseteq DOMAIN meta /\ \A u \in DOMAIN meta' : meta'[u] = meta[u]
    BY <2>1 DEF Restrict
  <2>3. Stored'
    BY <1>1, <2>1, <2>2 DEF Stored
  <2>4. Limits' /\ Requests' /\ Numbered'
    BY <1>1, <1>2, <2>1 DEF Limits, Requests, Numbered
  <2> QED BY <2>1, <2>3, <2>4 DEF Base
<1> QED BY <1>3, <1>4

LEMMA HandleBase ==
  ASSUME Base, NEW s \in Slots, Handle(s)
  PROVE  Base'
  BY UploadBase, EditBase, DisplaceBase, TransferBase DEF Handle

LEMMA BaseNext == ASSUME Base, [Next]_vars PROVE Base'
<1>1. CASE UNCHANGED vars
  BY <1>1 DEF vars, Base, Requests, Stored, Limits, Numbered, Files, Table, Form
<1>2. ASSUME NEW s \in Slots, Request(s) \/ Handle(s) PROVE Base'
  BY <1>2, RequestBase, HandleBase
<1> QED BY <1>1, <1>2, BreakBase DEF Next

LEMMA FirstTable == Table(FirstRows) /\ DOMAIN FirstRows = DOMAIN First
<1>1. \A p \in DOMAIN First : First[p] \in Contents
  BY DavAssumption DEF Range
<1> QED BY <1>1, DavAssumption DEF Table, FirstRows

LEMMA BaseInit == Init => Base
<1> SUFFICES ASSUME Init PROVE Base
  OBVIOUS
<1>1. Files(drive)
  BY DavAssumption DEF Init, Files, Range
<1>2. Table(rows)
  BY FirstTable DEF Init
<1>3. used \in Int
  BY <1>2, TotalIsInt DEF Init
<1>4. Stored
  BY <1>1, <1>2, <1>3 DEF Init, Stored, Empty
<1>5. Limits /\ Requests /\ Numbered
  BY DavAssumption DEF Init, Limits, Requests, Numbered
<1> QED BY <1>4, <1>5 DEF Base, Init

\* Files, rows, requests and the records of displaced targets keep their types, and
\* each record names a target that is there to be restored.
THEOREM TypeCorrect == Spec => []TypeOK
  BY BaseInit, BaseNext, BaseType, PTL DEF Spec

------------------------------------------------------------------------------
(* What a step leaves alone.                                               *)

\* What a step of a request leaves alone: the paths that the request does not touch,
\* and the displaced targets of the others.
Frame(s) ==
  /\ Others(s) /\ UNCHANGED <<dispDir, ops, limits>>
  /\ Beyond(drive, drive', Touched(req[s])) /\ Beyond(rows, rows', Touched(req[s]))
  /\ Beyond(disp, disp', {req[s].id}) /\ Beyond(meta, meta', {req[s].id})

LEMMA BeyondSame == ASSUME NEW f, NEW S PROVE Beyond(f, f, S)
  BY DEF Beyond

LEMMA BeyondPut == ASSUME NEW f, NEW k, NEW v, NEW S, k \in S PROVE Beyond(f, Put(f, k, v), S)
  BY DEF Beyond, Put

LEMMA BeyondDrop == ASSUME NEW f, NEW k, NEW S, k \in S PROVE Beyond(f, Drop(f, k), S)
  BY DEF Beyond, Drop, Restrict

LEMMA BeyondMove ==
  ASSUME NEW f, NEW k, NEW l, NEW S, k \in S, l \in S
  PROVE  Beyond(f, MoveKey(f, k, l), S)
  BY DEF Beyond, MoveKey, Put, Drop, Restrict

LEMMA HandleFrame ==
  ASSUME Base, NEW s \in Slots, Handle(s)
  PROVE  Frame(s)
<1> DEFINE id == req[s].id p == req[s].dst S == Touched(req[s])
<1>1. p \in S /\ id \in {id}
  BY DEF Touched
<1> HIDE DEF S, p, id
<1> USE DEF At, disk
<1>2. CASE PutStreamed(s) \/ PutRefused(s) \/ Answer500(s) \/ Answer409(s) \/ StageRow(s) \/ CopyRead(s)
  <2>1. Others(s) /\ Still /\ UNCHANGED <<ops, limits>>
    BY <1>2, PutStreamedFacts, PutRefusedFacts, AnswerFacts, StageRowFacts, CopyReadFacts
       DEF To, Ends
  <2> QED BY <2>1, BeyondSame DEF Frame, Still
<1>3. CASE PutCharge(s) \/ EditCharge(s) \/ Recount(s)
  <2>1. Others(s) /\ UNCHANGED <<disk, rows, ops, limits>>
    BY <1>3, PutChargeFacts, EditChargeFacts, RecountFacts DEF To, Ends
  <2> QED BY <2>1, BeyondSame DEF Frame
<1>4. CASE PutRename(s) \/ EditTruncate(s) \/ Fill(s) \/ CopyTruncate(s)
  <2>1. Others(s) /\ UNCHANGED <<disp, meta, dispDir, rows, ops, limits>>
    BY <1>4, PutRenameFacts, EditTruncateFacts, FillFacts, CopyTruncateFacts DEF To
  <2>2. drive' = drive \/ \E c : drive' = Put(drive, p, c)
    BY <1>4, PutRenameFacts, EditTruncateFacts, FillFacts, CopyTruncateFacts DEF p
  <2>3. Beyond(drive, drive', S)
    BY <1>1, <2>2, BeyondSame, BeyondPut
  <2> QED BY <2>1, <2>3, BeyondSame DEF Frame, S
<1>5. CASE PutRegister(s) \/ EditRegister(s) \/ CopyCommit(s)
  <2>1. Others(s) /\ UNCHANGED <<disk, ops, limits>>
    BY <1>5, PutRegisterFacts, EditRegisterFacts, CopyCommitFacts DEF To, Ends
  <2>2. rows' = rows \/ \E n : rows' = Put(rows, p, n)
    BY <1>5, PutRegisterFacts, EditRegisterFacts, CopyCommitFacts DEF p
  <2>3. Beyond(rows, rows', S)
    BY <1>1, <2>2, BeyondSame, BeyondPut
  <2> QED BY <2>1, <2>3, BeyondSame DEF Frame, S
<1>6. CASE Displace(s)
  <2>1. Others(s) /\ UNCHANGED <<meta, dispDir, rows, ops, limits>>
    BY <1>6, DisplaceFacts DEF To
  <2>2. \/ UNCHANGED <<drive, disp>>
        \/ drive' = Drop(drive, p) /\ \E c : disp' = Put(disp, id, c)
    BY <1>6, DisplaceFacts DEF p, id
  <2>3. Beyond(drive, drive', S) /\ Beyond(disp, disp', {id})
    BY <1>1, <2>2, BeyondSame, BeyondDrop, BeyondPut
  <2> QED BY <2>1, <2>3, BeyondSame DEF Frame, S, id
<1>7. CASE UnlistTarget(s)
  <2>1. /\ Others(s) /\ UNCHANGED <<drive, disp, dispDir, ops, limits>>
        /\ rows' = Drop(rows, p) /\ meta' = Put(meta, id, p)
    BY <1>7, UnlistTargetFacts DEF To, p, id
  <2>2. Beyond(rows, rows', S) /\ Beyond(meta, meta', {id})
    BY <1>1, <2>1, BeyondDrop, BeyondPut
  <2> QED BY <2>1, <2>2, BeyondSame DEF Frame, S, id
<1>8. CASE Finish(s)
  <2>1. /\ Others(s) /\ UNCHANGED <<drive, disp, dispDir, rows, ops, limits>>
        /\ meta' = Drop(meta, id)
    BY <1>8, FinishFacts DEF To, id
  <2>2. Beyond(meta, meta', {id})
    BY <1>1, <2>1, BeyondDrop
  <2> QED BY <2>1, <2>2, BeyondSame DEF Frame, S, id
<1>9. CASE RestoreTarget(s)
  <2>1. /\ Others(s) /\ UNCHANGED <<dispDir, ops, limits>>
        /\ disp' = Drop(disp, id) /\ meta' = Drop(meta, id)
    BY <1>9, RestoreTargetFacts DEF To, id
  <2>2. rows' = rows \/ \E n : rows' = Put(rows, p, n)
    BY <1>9, RestoreTargetFacts DEF p
  <2>3. \E c : drive' = Put(drive, p, c)
    BY <1>9, RestoreTargetFacts DEF p
  <2>4. Beyond(drive, drive', S) /\ Beyond(rows, rows', S)
    BY <1>1, <2>2, <2>3, BeyondSame, BeyondPut
  <2>5. Beyond(disp, disp', {id}) /\ Beyond(meta, meta', {id})
    BY <1>1, <2>1, BeyondDrop
  <2> QED BY <2>1, <2>4, <2>5 DEF Frame, S, id
<1>10. CASE MoveFirst(s) \/ MoveSecond(s)
  <2>1. PICK k, l \in S :
          /\ UNCHANGED <<disp, meta, dispDir, ops, limits>> /\ Others(s)
          /\ Relocate(k, l) \/ UNCHANGED <<drive, rows>>
    BY <1>10, MoveFacts DEF To, S
  <2>2. Beyond(drive, drive', S) /\ Beyond(rows, rows', S)
    BY <2>1, BeyondSame, BeyondMove DEF Relocate
  <2> QED BY <2>1, <2>2, BeyondSame DEF Frame, S
<1> QED BY <1>2, <1>3, <1>4, <1>5, <1>6, <1>7, <1>8, <1>9, <1>10 DEF Handle

\* Requests that enter do not touch what the others do.
Apart ==
  \A s, t \in Slots : s # t /\ req[s] # None /\ req[t] # None =>
    Touched(req[s]) \cap Touched(req[t]) = {}

LEMMA StartApart ==
  ASSUME Apart, Without({"overlap"}), NEW s \in Slots, NEW op, NEW src, NEW dst,
         req[s] = None, Quiet(s, op, src, dst), Others(s),
         req'[s] # None => req'[s].src = src /\ req'[s].dst = dst
  PROVE  /\ Apart'
         /\ \A t \in Slots \ {s} : req[t] # None =>
              {src, dst, Midway(src, dst)} \cap Touched(req[t]) = {}
<1>1. \A t \in Slots \ {s} : req[t] # None =>
        {src, dst, Midway(src, dst)} \cap Touched(req[t]) = {}
  BY DEF Quiet, Without
<1>2. req'[s] # None => Touched(req'[s]) = {src, dst, Midway(src, dst)}
  BY DEF Touched
<1>3. \A t \in Slots \ {s} : req'[t] = req[t]
  BY DEF Others
<1>4. ASSUME NEW t \in Slots, NEW u \in Slots, t # u, req'[t] # None, req'[u] # None
      PROVE  Touched(req'[t]) \cap Touched(req'[u]) = {}
  <2>1. CASE t # s /\ u # s
    BY <1>3, <1>4, <2>1 DEF Apart
  <2>2. CASE t = s
    BY <1>1, <1>2, <1>3, <1>4, <2>2
  <2>3. CASE u = s
    BY <1>1, <1>2, <1>3, <1>4, <2>3
  <2> QED BY <2>1, <2>2, <2>3
<1>5. Apart'
  BY <1>4 DEF Apart
<1> QED BY <1>1, <1>5

LEMMA HandleApart ==
  ASSUME Apart, NEW s \in Slots, req[s] # None, Others(s),
         req'[s] # None => req'[s].src = req[s].src /\ req'[s].dst = req[s].dst
  PROVE  Apart'
<1>1. \A t \in Slots : req'[t] # None => req[t] # None /\ Touched(req'[t]) = Touched(req[t])
  BY DEF Others, Touched
<1> QED BY <1>1 DEF Apart

LEMMA HandleSame ==
  ASSUME Base, NEW s \in Slots, Handle(s)
  PROVE  req[s] # None /\ (req'[s] = None \/ Same(s))
<1> USE DEF At, To, Ends
<1>1. CASE \/ PutStreamed(s) \/ PutRefused(s) \/ PutCharge(s) \/ PutRename(s) \/ PutRegister(s)
           \/ EditCharge(s) \/ EditTruncate(s) \/ EditRegister(s) \/ Fill(s) \/ Recount(s)
  BY <1>1, PutStreamedFacts, PutRefusedFacts, PutChargeFacts, PutRenameFacts, PutRegisterFacts,
     EditChargeFacts, EditTruncateFacts, EditRegisterFacts, FillFacts, RecountFacts
<1>2. CASE \/ Displace(s) \/ Answer500(s) \/ Answer409(s) \/ StageRow(s) \/ UnlistTarget(s)
           \/ Finish(s) \/ RestoreTarget(s)
  BY <1>2, DisplaceFacts, AnswerFacts, StageRowFacts, UnlistTargetFacts, FinishFacts,
     RestoreTargetFacts
<1>3. CASE MoveFirst(s) \/ MoveSecond(s) \/ CopyRead(s) \/ CopyTruncate(s) \/ CopyCommit(s)
  BY <1>3, MoveFacts, CopyReadFacts, CopyTruncateFacts, CopyCommitFacts
<1> QED BY <1>1, <1>2, <1>3 DEF Handle

------------------------------------------------------------------------------
\* The target of a request holds what it held when the request came, or that is
\* displaced under the number of the request, or there was nothing.
Untouched(s) ==
  \/ req[s].op = "put" /\ req[s].stage \in {"stream", "charge"}
  \/ req[s].op = "edit" /\ req[s].stage = "charge"
  \/ req[s].stage \in {"displace", "error"}

Target(s) ==
  /\ Untouched(s) => req[s].before = At0(drive, req[s].dst, None)
  /\ req[s].stage \in {"stage", "unlist"} \/ req[s].id \in DOMAIN meta =>
       req[s].before = disp[req[s].id]
  /\ /\ req[s].op \in {"move", "copy"} /\ req[s].stage \in Moving \ {"finish"}
     /\ req[s].id \notin DOMAIN meta
     => req[s].before = None
  /\ req[s].stage = "refused" => req[s].before \in {None, At0(drive, req[s].dst, None)}

Kept == Without({"overlap"}) => Apart /\ \A s \in Slots : req[s] # None => Target(s)

\* A step of another request does not disturb it.
LEMMA TargetOfOthers ==
  ASSUME Base, NEW s \in Slots, NEW t \in Slots \ {s}, req[t] # None, req'[t] = req[t],
         Target(t), NEW S, NEW id,
         Beyond(drive, drive', S), Beyond(disp, disp', {id}), Beyond(meta, meta', {id}),
         S \cap Touched(req[t]) = {}, req[t].id # id
  PROVE  Target(t)'
<1>1. req[t].dst \notin S
  BY DEF Touched
<1>2. At0(drive', req[t].dst, None) = At0(drive, req[t].dst, None)
  BY <1>1 DEF At0, Beyond
<1>3. req[t].id \in DOMAIN meta' <=> req[t].id \in DOMAIN meta
  BY DEF Beyond
<1>4. req[t].id \in DOMAIN disp => disp'[req[t].id] = disp[req[t].id]
  BY DEF Beyond
<1>5. req[t].stage \in {"stage", "unlist"} \/ req[t].id \in DOMAIN meta => req[t].id \in DOMAIN disp
  BY DEF Base, Form, Stored
<1> QED BY <1>2, <1>3, <1>4, <1>5 DEF Target, Untouched, At0

LEMMA TargetOfHandler ==
  ASSUME Base, NEW s \in Slots, Handle(s), Target(s), req'[s] # None
  PROVE  Target(s)'
<1> USE DEF At, To, disk, Still
<1>1. req[s] # None /\ Same(s) /\ Form(s)
  BY HandleSame DEF Base
<1>2. CASE PutStreamed(s) \/ StageRow(s) \/ CopyRead(s)
  <2>1. CASE PutStreamed(s)
    BY <1>1, <2>1, PutStreamedFacts DEF Target, Same, Untouched, Form
  <2>2. CASE StageRow(s)
    BY <1>1, <2>2, StageRowFacts DEF Target, Same, Untouched, Moving
  <2>3. CASE CopyRead(s)
    BY <1>1, <2>3, CopyReadFacts DEF Target, Same, Untouched, Moving
  <2> QED BY <1>2, <2>1, <2>2, <2>3
<1>3. CASE PutCharge(s) \/ EditCharge(s) \/ Recount(s) \/ PutRefused(s) \/ Answer500(s)
           \/ Answer409(s) \/ EditRegister(s)
  <2>1. CASE PutCharge(s)
    BY <1>1, <2>1, PutChargeFacts DEF Target, Same, Untouched, Ends, Form
  <2>2. CASE EditCharge(s)
    BY <1>1, <2>2, EditChargeFacts DEF Target, Same, Untouched, Ends, Form
  <2> QED
    BY <1>1, <1>3, <2>1, <2>2, RecountFacts, PutRefusedFacts, AnswerFacts, EditRegisterFacts
       DEF Ends
<1>4. CASE PutRename(s) \/ EditTruncate(s) \/ PutRegister(s)
  <2>1. CASE PutRename(s)
    BY <1>1, <2>1, PutRenameFacts DEF Target, Same, Untouched, Form
  <2>2. CASE EditTruncate(s)
    BY <1>1, <2>2, EditTruncateFacts DEF Target, Same, Untouched, Form
  <2>3. CASE PutRegister(s)
    BY <1>1, <2>3, PutRegisterFacts DEF Target, Same, Untouched, Form, Ends
  <2> QED BY <1>4, <2>1, <2>2, <2>3
<1>5. CASE Fill(s)
  BY <1>1, <1>5, FillFacts DEF Target, Same, Untouched, Form, Moving
<1>6. CASE Displace(s)
  <2>1. CASE /\ req[s].dst \in DOMAIN drive
             /\ disp' = Put(disp, req[s].id, drive[req[s].dst])
             /\ To(s, "stage") /\ UNCHANGED meta
    <3>1. disp'[req[s].id] = drive[req[s].dst]
      BY <2>1 DEF Put
    <3>2. req[s].stage = "displace" /\ req[s].id \notin DOMAIN meta
      BY <1>1, <1>6, DisplaceFacts DEF Form, Moving
    <3> QED BY <1>1, <2>1, <3>1, <3>2 DEF Target, Same, Untouched, At0, Moving
  <2>2. CASE UNCHANGED <<disp, drive, meta>> /\ To(s, "error") /\ req[s].stage = "displace"
    <3>1. req[s].id \notin DOMAIN meta
      BY <1>1, <2>2 DEF Form, Moving
    <3> QED BY <1>1, <2>2, <3>1 DEF Target, Same, Untouched, Moving
  <2> QED BY <1>6, <2>1, <2>2, DisplaceFacts
<1>7. CASE UnlistTarget(s)
  <2>1. req[s].id \in DOMAIN meta'
    BY <1>7, UnlistTargetFacts DEF Put
  <2> QED BY <1>1, <1>7, <2>1, UnlistTargetFacts DEF Target, Same, Untouched, Fits, Form
<1>8. CASE Finish(s)
  <2>1. req[s].id \notin DOMAIN meta'
    BY <1>8, FinishFacts DEF Drop, Restrict
  <2> QED BY <1>1, <1>8, <2>1, FinishFacts DEF Target, Same, Untouched, Fits, Form, Moving
<1>9. CASE RestoreTarget(s)
  <2>1. req[s].id \notin DOMAIN meta' /\ req[s].id \in DOMAIN meta
    BY <1>1, <1>9, RestoreTargetFacts DEF Drop, Restrict, Form
  <2>2. At0(drive', req[s].dst, None) = disp[req[s].id]
    BY <1>9, RestoreTargetFacts DEF Put, At0
  <2> QED BY <1>1, <1>9, <2>1, <2>2, RestoreTargetFacts DEF Target, Same, Untouched, Fits, Form, Moving, At0
<1>10. CASE MoveFirst(s) \/ MoveSecond(s)
  <2>1. /\ UNCHANGED <<disp, meta>> /\ req[s].op = "move" /\ req[s].stage \in {"begin", "second"}
        /\ \/ To(s, "finish") \/ To(s, "second")
           \/ req[s].id \in DOMAIN meta /\ To(s, "restore")
           \/ req[s].id \notin DOMAIN meta /\ To(s, "refused")
    BY <1>10, MoveFacts
  <2> QED BY <1>1, <2>1 DEF Target, Same, Untouched, Moving
<1>11. CASE CopyTruncate(s)
  BY <1>1, <1>11, CopyTruncateFacts DEF Target, Same, Untouched, Moving
<1>12. CASE CopyCommit(s)
  BY <1>1, <1>12, CopyCommitFacts DEF Target, Same, Untouched, Moving
<1> QED BY <1>2, <1>3, <1>4, <1>5, <1>6, <1>7, <1>8, <1>9, <1>10, <1>11, <1>12 DEF Handle

\* What a request that enters brings with it.
LEMMA StartKeeps ==
  ASSUME Base, Apart, Without({"overlap"}), \A t \in Slots : req[t] # None => Target(t),
         NEW s \in Slots, NEW op, NEW stage \in Stages, NEW src \in Paths,
         NEW dst \in Paths, NEW content \in Contents \cup {None},
         op \in {"put", "edit", "move", "copy", "delete"}, Fits(op, stage),
         stage \in {"stream", "charge", "displace", "begin", "recount"},
         op \in {"move", "copy"} /\ stage = "begin" => dst \notin DOMAIN drive,
         Start(s, op, stage, src, dst, content),
         op # "delete" => UNCHANGED drive,
         Beyond(drive, drive', {dst}), UNCHANGED <<disp, meta>>
  PROVE  Apart' /\ \A t \in Slots : req'[t] # None => Target(t)'
<1>1. /\ req[s] = None /\ Quiet(s, op, src, dst)
      /\ ops' = ops + 1 /\ ops' \in 1..MaxOps
      /\ Others(s) /\ req'[s] \in Handled /\ req'[s] # None
      /\ req'[s].op = op /\ req'[s].stage = stage /\ req'[s].src = src /\ req'[s].dst = dst
      /\ req'[s].content = content /\ req'[s].id = ops'
      /\ req'[s].before = At0(drive, dst, None) /\ req'[s].staged = None
      /\ req'[s].existed = FALSE /\ req'[s].delta = 0
  BY StartFacts, Zenon
<1>2. /\ Apart'
      /\ \A t \in Slots \ {s} : req[t] # None =>
           {src, dst, Midway(src, dst)} \cap Touched(req[t]) = {}
  BY <1>1, StartApart
<1>3. ops \in Nat /\ ops' \notin DOMAIN disp /\ ops' \notin DOMAIN meta
  BY <1>1 DEF Base, Limits, Stored
<1>4. ASSUME NEW t \in Slots \ {s}, req'[t] # None PROVE Target(t)'
  <2>1. req'[t] = req[t] /\ req[t] # None
    BY <1>1, <1>4 DEF Others
  <2>2. {dst} \cap Touched(req[t]) = {}
    BY <1>2, <2>1
  <2>3. req[t].id # ops' /\ Target(t)
    <3>1. req[t].id <= ops /\ req[t].id \in Nat
      BY <2>1, InFlight, DavAssumption DEF Base, Form, Handled
    <3> QED BY <1>1, <1>3, <2>1, <3>1
  <2>4. Beyond(disp, disp', {ops'}) /\ Beyond(meta, meta', {ops'})
    BY BeyondSame
  <2> DEFINE id == ops'
  <2> HIDE DEF id
  <2>5. Beyond(disp, disp', {id}) /\ Beyond(meta, meta', {id}) /\ req[t].id # id
    BY <2>3, <2>4 DEF id
  <2> QED BY <2>1, <2>2, <2>3, <2>5, TargetOfOthers
<1>5. Target(s)'
  <2>1. ops' \notin DOMAIN meta'
    BY <1>3
  <2>2. stage \in {"begin", "recount"} \/ UNCHANGED drive
    BY DEF Fits
  <2>3. op \in {"move", "copy"} /\ stage = "begin" => At0(drive, dst, None) = None
    BY DEF At0
  <2>4. stage = "begin" \/ stage = "recount" => ~Untouched(s)'
    BY <1>1 DEF Untouched, Fits
  <2> QED BY <1>1, <2>1, <2>2, <2>3, <2>4 DEF Target, Moving, At0, Fits
<1> QED BY <1>2, <1>4, <1>5

LEMMA RequestKeeps ==
  ASSUME Base, Apart, Without({"overlap"}), \A t \in Slots : req[t] # None => Target(t),
         NEW s \in Slots, Request(s)
  PROVE  Apart' /\ \A t \in Slots : req'[t] # None => Target(t)'
<1> DEFINE Goal == Apart' /\ \A t \in Slots : req'[t] # None => Target(t)'
<1> USE DEF Stages, Fits
<1>1. ASSUME NEW p \in Paths, NEW c \in Contents, StartPut(s, p, c)
      PROVE  Goal
  <2>1. /\ Start(s, "put", "stream", p, p, c) /\ UNCHANGED drive /\ UNCHANGED <<disp, meta>>
        /\ Beyond(drive, drive', {p})
    BY <1>1, BeyondSame DEF StartPut, disk
  <2> QED BY <2>1, StartKeeps
<1>2. ASSUME NEW p \in Paths, NEW c \in Contents, StartEdit(s, p, c)
      PROVE  Goal
  <2>1. /\ Start(s, "edit", "charge", p, p, c) /\ UNCHANGED drive /\ UNCHANGED <<disp, meta>>
        /\ Beyond(drive, drive', {p})
    BY <1>2, BeyondSame DEF StartEdit, disk
  <2> QED BY <2>1, StartKeeps
<1>3. ASSUME NEW p \in Paths, NEW q \in Paths, NEW op \in {"move", "copy"},
             StartTransfer(s, op, p, q)
      PROVE  Goal
  <2>1. UNCHANGED drive /\ UNCHANGED <<disp, meta>> /\ Beyond(drive, drive', {q})
    BY <1>3, BeyondSame DEF StartTransfer, disk
  <2>2. CASE q \in DOMAIN drive
    <3>1. Start(s, op, "displace", p, q, None)
      BY <1>3, <2>2 DEF StartTransfer
    <3> QED BY <2>1, <3>1, StartKeeps
  <2>3. CASE q \notin DOMAIN drive
    <3>1. Start(s, op, "begin", p, q, None)
      BY <1>3, <2>3 DEF StartTransfer
    <3> QED BY <2>1, <2>3, <3>1, StartKeeps
  <2> QED BY <2>2, <2>3
<1>4. ASSUME NEW p \in Paths, Delete(s, p)
      PROVE  Goal
  <2>1. /\ Start(s, "delete", "recount", p, p, None) /\ UNCHANGED <<disp, meta>>
        /\ drive' = Drop(drive, p)
    BY <1>4 DEF Delete
  <2>2. Beyond(drive, drive', {p})
    BY <2>1, BeyondDrop
  <2> QED BY <2>1, <2>2, StartKeeps
<1> QED BY <1>1, <1>2, <1>3, <1>4 DEF Request

LEMMA HandleKeeps ==
  ASSUME Base, Apart, \A t \in Slots : req[t] # None => Target(t),
         NEW s \in Slots, Handle(s)
  PROVE  Apart' /\ \A t \in Slots : req'[t] # None => Target(t)'
<1>1. Frame(s) /\ req[s] # None /\ (req'[s] = None \/ Same(s))
  BY HandleFrame, HandleSame
<1>2. Apart'
  BY <1>1, HandleApart DEF Frame, Same
<1>3. ASSUME NEW t \in Slots \ {s}, req'[t] # None PROVE Target(t)'
  <2>1. req'[t] = req[t] /\ req[t] # None /\ Target(t)
    BY <1>1, <1>3 DEF Frame, Others
  <2>2. Touched(req[s]) \cap Touched(req[t]) = {}
    BY <1>1, <2>1 DEF Apart
  <2>3. req[t].id # req[s].id
    BY <1>1, <2>1 DEF Base, Numbered
  <2>4. /\ Beyond(drive, drive', Touched(req[s])) /\ Beyond(disp, disp', {req[s].id})
        /\ Beyond(meta, meta', {req[s].id})
    BY <1>1 DEF Frame
  <2> QED BY <2>1, <2>2, <2>3, <2>4, TargetOfOthers
<1>4. ASSUME req'[s] # None PROVE Target(s)'
  BY <1>1, <1>4, TargetOfHandler
<1> QED BY <1>2, <1>3, <1>4

LEMMA KeptNext == ASSUME Base, Kept, [Next]_vars PROVE Kept'
<1> SUFFICES ASSUME Without({"overlap"})'
             PROVE  Apart' /\ \A t \in Slots : req'[t] # None => Target(t)'
  BY DEF Kept
<1> DEFINE Goal == Apart' /\ \A t \in Slots : req'[t] # None => Target(t)'
<1>1. UNCHANGED faults
  <2>1. ASSUME NEW s \in Slots, Handle(s) PROVE UNCHANGED faults
    BY <2>1, HandleFrame DEF Frame, limits
  <2>2. ASSUME NEW s \in Slots, Request(s) PROVE UNCHANGED faults
    BY <2>2 DEF Request, StartPut, StartEdit, StartTransfer, Delete, limits
  <2> QED BY <2>1, <2>2 DEF Next, Disconnect, Crash, vars
<1>2. Without({"overlap"}) /\ Apart /\ \A t \in Slots : req[t] # None => Target(t)
  BY <1>1 DEF Kept, Without
<1>3. CASE UNCHANGED vars
  BY <1>2, <1>3 DEF vars, Apart, Target, Untouched, Touched
<1>4. ASSUME NEW s \in Slots, Request(s) PROVE Goal
  BY <1>2, <1>4, RequestKeeps
<1>5. ASSUME NEW s \in Slots, Handle(s) PROVE Goal
  BY <1>2, <1>5, HandleKeeps
<1>6. ASSUME NEW s \in Slots, Disconnect(s) PROVE Goal
  <2>1. Ends(s) /\ UNCHANGED <<drive, disp, meta>>
    BY <1>6, DoneFacts DEF Disconnect, disk
  <2>2. \A t \in Slots : req'[t] # None => req[t] = req'[t]
    BY <2>1 DEF Ends, Others
  <2> QED BY <1>2, <2>1, <2>2 DEF Apart, Target, Untouched
<1>7. CASE Crash
  BY <1>7 DEF Crash, Apart
<1> QED BY <1>3, <1>4, <1>5, <1>6, <1>7 DEF Next

LEMMA KeptInit == Init => Kept
  BY DEF Init, Kept, Apart

\* For any requests and whatever fails, is dropped or crashes: a request that is
\* refused has left its target alone or has brought it back (put_file: the order of
\* policy, quota and rename; move_or_copy: the displaced target).
THEOREM RefusedLeaveTargets == Spec => RefusedKeepsTarget
<1>1. ASSUME Base, Kept, [Next]_vars
      PROVE  \A s \in Slots : Without({"overlap"}) /\ Refuses(s) =>
               req[s].before \in {None, At0(drive', req[s].dst, None)}
  <2> SUFFICES ASSUME NEW s \in Slots, Without({"overlap"}), Refuses(s)
               PROVE  req[s].before \in {None, At0(drive', req[s].dst, None)}
    OBVIOUS
  <2>1. UNCHANGED drive /\ req[s] # None /\ (Untouched(s) \/ req[s].stage = "refused")
    BY DEF Refuses, PutRefused, Answer500, Answer409, PutCharge, At, disk, Untouched
  <2>2. Target(s)
    BY <1>1, <2>1 DEF Kept
  <2> QED BY <2>1, <2>2 DEF Target
<1>2. Base /\ Kept /\ [Next]_vars => Base' /\ Kept'
  BY BaseNext, KeptNext
<1>3. Init => Base /\ Kept
  BY BaseInit, KeptInit
<1>4. Base /\ Kept /\ [Next]_vars =>
        [\A s \in Slots : Without({"overlap"}) /\ Refuses(s) =>
           req[s].before \in {None, At0(drive', req[s].dst, None)}]_vars
  BY <1>1
<1> QED BY <1>2, <1>3, <1>4, PTL DEF Spec, RefusedKeepsTarget

------------------------------------------------------------------------------
(* Files and rows.                                                         *)

Calm   == Without(FaultKinds \ {"iofail", "txfail", "fullcopy"})
Exact  == Without(FaultKinds \ {"iofail"})
Frugal == Without(FaultKinds \ {"txfail", "fullcopy"})

LEMMA CalmFacts ==
  /\ Exact \/ Frugal => Calm
  /\ Exact => "txfail" \notin faults /\ "fullcopy" \notin faults
  /\ Frugal => "iofail" \notin faults
  /\ Calm => /\ "overlap" \notin faults /\ "dberror" \notin faults /\ "missing" \notin faults
             /\ "recount" \notin faults /\ "crash" \notin faults /\ "disconnect" \notin faults
             /\ Without({"overlap"})
  BY DEF Exact, Frugal, Calm, Without, FaultKinds

\* A request that has changed the file and not yet its row, or the other way round.
Between(s) == req[s] # None /\ req[s].stage \in {"filling", "register", "stage", "unlist"}

\* The row of a path says what is on disk; without lost rows each file has one.
Agrees(p) ==
  /\ p \in DOMAIN rows => p \in DOMAIN drive /\ rows[p] = Length(p)
  /\ Exact /\ p \in DOMAIN drive => p \in DOMAIN rows

Counted == \A p \in Paths : Agrees(p) \/ \E s \in Slots : Between(s) /\ p = req[s].dst

\* What a request relies on: what it has charged, displaced or measured.
Works(s) ==
  /\ req[s].op = "put" /\ req[s].stage \in {"charge", "write", "register"} =>
       /\ ~req[s].existed => req[s].dst \notin DOMAIN rows
       /\ req[s].existed /\ Exact => req[s].dst \in DOMAIN rows
  /\ req[s].op = "put" /\ req[s].stage \in {"write", "register"} =>
       req[s].delta = Size[req[s].content] - At0(rows, req[s].dst, 0)
  /\ req[s].op = "edit" /\ req[s].stage # "recount" => req[s].dst \in DOMAIN rows
  /\ req[s].op = "edit" /\ req[s].stage \in {"write", "filling", "register"} =>
       req[s].delta = Size[req[s].content] - rows[req[s].dst]
  /\ req[s].stage = "register" =>
       req[s].dst \in DOMAIN drive /\ drive[req[s].dst] = req[s].content
  /\ req[s].stage \in {"stage", "unlist"} =>
       /\ req[s].dst \notin DOMAIN drive
       /\ req[s].dst \in DOMAIN rows => rows[req[s].dst] = At0(Size, disp[req[s].id], 0)
       /\ Exact => req[s].dst \in DOMAIN rows
  /\ req[s].stage = "unlist" => req[s].staged = At0(rows, req[s].dst, None)
  /\ req[s].id \in DOMAIN meta =>
       /\ req[s].staged # None => req[s].staged = At0(Size, disp[req[s].id], 0)
       /\ Exact => req[s].staged # None
  /\ req[s].op \in {"move", "copy"} /\ req[s].stage \in Moving \ {"finish"} =>
       req[s].dst \notin DOMAIN rows
  /\ req[s].op = "copy" /\ req[s].stage = "write" =>
       req[s].src \in DOMAIN rows /\ req[s].delta = rows[req[s].src]
  /\ req[s].op = "copy" /\ req[s].stage \in {"filling", "register"} =>
       req[s].delta = At0(Size, req[s].content, 0)

AllWork == Counted /\ \A s \in Slots : req[s] # None => Works(s)

\* Nobody but the request itself works on what it touches.
LEMMA OwnPaths ==
  ASSUME Base, Apart, Counted, NEW s \in Slots, req[s] # None, NEW p \in Touched(req[s])
  PROVE  p \in Paths /\ (Agrees(p) \/ (Between(s) /\ p = req[s].dst))
<1>1. req[s] \in Handled
  BY InFlight
<1>2. p \in Paths
  BY <1>1 DEF Touched, Midway, Handled, Paths
<1>3. ASSUME NEW t \in Slots, Between(t), p = req[t].dst PROVE t = s
  BY <1>3 DEF Apart, Between, Touched
<1> QED BY <1>2, <1>3 DEF Counted

\* A step that leaves the other paths alone and keeps its own in order.
LEMMA CountedKeeps ==
  ASSUME Base, Apart, Counted, UNCHANGED faults, NEW s \in Slots, Others(s),
         NEW S, Beyond(drive, drive', S), Beyond(rows, rows', S),
         req[s] # None => req[s].dst \in S,
         \A p \in S \cap Paths : Agrees(p)' \/ (Between(s)' /\ p = req'[s].dst)
                        \/ \E t \in Slots \ {s} : Between(t) /\ p = req[t].dst
  PROVE  Counted'
<1>1. \A t \in Slots \ {s} : req'[t] = req[t]
  BY DEF Others
<1>2. ASSUME NEW p \in Paths, p \notin S
      PROVE  Agrees(p)' \/ \E t \in Slots : Between(t)' /\ p = req'[t].dst
  <2>1. CASE Agrees(p)
    <3>1. p \in DOMAIN rows' <=> p \in DOMAIN rows
      BY <1>2 DEF Beyond
    <3>2. p \in DOMAIN drive' <=> p \in DOMAIN drive
      BY <1>2 DEF Beyond
    <3>3. /\ p \in DOMAIN rows => rows'[p] = rows[p]
          /\ p \in DOMAIN drive => drive'[p] = drive[p]
      BY <1>2 DEF Beyond
    <3>4. Length(p)' = Length(p)
      BY <3>2, <3>3 DEF Length, At0
    <3>5. Exact' <=> Exact
      BY DEF Exact, Without
    <3> QED BY <2>1, <3>1, <3>2, <3>3, <3>4, <3>5 DEF Agrees
  <2>2. CASE \E t \in Slots : Between(t) /\ p = req[t].dst
    BY <1>1, <1>2, <2>2 DEF Between
  <2> QED BY <2>1, <2>2 DEF Counted
<1>3. ASSUME NEW p \in Paths, p \in S
      PROVE  Agrees(p)' \/ \E t \in Slots : Between(t)' /\ p = req'[t].dst
  BY <1>1, <1>3 DEF Between
<1> QED BY <1>2, <1>3 DEF Counted

LEMMA WorksOfOthers ==
  ASSUME Base, UNCHANGED faults, NEW s \in Slots, NEW t \in Slots \ {s},
         req[t] # None, req'[t] = req[t], Works(t), NEW S, NEW id,
         Beyond(drive, drive', S), Beyond(rows, rows', S),
         Beyond(disp, disp', {id}), Beyond(meta, meta', {id}),
         S \cap Touched(req[t]) = {}, req[t].id # id
  PROVE  Works(t)'
<1>1. req[t].dst \notin S /\ req[t].src \notin S
  BY DEF Touched
<1>2. /\ req[t].dst \in DOMAIN drive' <=> req[t].dst \in DOMAIN drive
      /\ req[t].dst \in DOMAIN drive => drive'[req[t].dst] = drive[req[t].dst]
  BY <1>1 DEF Beyond
<1>3. /\ req[t].dst \in DOMAIN rows' <=> req[t].dst \in DOMAIN rows
      /\ req[t].dst \in DOMAIN rows => rows'[req[t].dst] = rows[req[t].dst]
  BY <1>1 DEF Beyond
<1>4. /\ req[t].src \in DOMAIN rows' <=> req[t].src \in DOMAIN rows
      /\ req[t].src \in DOMAIN rows => rows'[req[t].src] = rows[req[t].src]
  BY <1>1 DEF Beyond
<1>5. /\ req[t].id \in DOMAIN meta' <=> req[t].id \in DOMAIN meta
      /\ req[t].id \in DOMAIN disp => disp'[req[t].id] = disp[req[t].id]
  BY DEF Beyond
<1>6. req[t].stage \in {"stage", "unlist"} \/ req[t].id \in DOMAIN meta => req[t].id \in DOMAIN disp
  BY DEF Base, Form, Stored
<1>7. Exact' <=> Exact
  BY DEF Exact, Without
<1>8. /\ At0(rows', req[t].dst, 0) = At0(rows, req[t].dst, 0)
      /\ At0(rows', req[t].dst, None) = At0(rows, req[t].dst, None)
  BY <1>3 DEF At0
<1> HIDE DEF Exact
<1> QED BY <1>2, <1>3, <1>4, <1>5, <1>6, <1>7, <1>8 DEF Works

LEMMA AgreesKeeps ==
  ASSUME UNCHANGED faults, NEW S, Beyond(drive, drive', S), Beyond(rows, rows', S),
         NEW p, p \notin S, Agrees(p)
  PROVE  Agrees(p)'
<1>1. /\ p \in DOMAIN rows' <=> p \in DOMAIN rows
      /\ p \in DOMAIN drive' <=> p \in DOMAIN drive
      /\ p \in DOMAIN rows => rows'[p] = rows[p]
      /\ p \in DOMAIN drive => drive'[p] = drive[p]
  BY DEF Beyond
<1>2. Length(p)' = Length(p)
  BY <1>1 DEF Length, At0
<1>3. Exact' <=> Exact
  BY DEF Exact, Without
<1> QED BY <1>1, <1>2, <1>3 DEF Agrees

\* What a step of a request has to answer for.
Ready(s) ==
  /\ Calm /\ Base /\ Apart /\ Counted /\ req[s] # None /\ Form(s) /\ Target(s) /\ Works(s)

Good(s) ==
  /\ \A p \in Touched(req[s]) : Agrees(p)' \/ (Between(s)' /\ p = req[s].dst)
  /\ req'[s] # None => Works(s)'

LEMMA ReadyFacts ==
  ASSUME NEW s \in Slots, Ready(s)
  PROVE  /\ req[s] \in Handled /\ req[s].dst \in Paths /\ req[s].src \in Paths /\ req[s].id \in Nat
         /\ Agrees(req[s].dst) \/ Between(s)
         /\ req[s].src # req[s].dst => Agrees(req[s].src)
         /\ ~Between(s) => \A p \in Touched(req[s]) : Agrees(p)
         /\ Table(rows) /\ Files(drive)
<1>1. req[s] \in Handled
  BY InFlight DEF Ready
<1>2. req[s].dst \in Touched(req[s]) /\ req[s].src \in Touched(req[s])
  BY DEF Touched
<1>3. \A p \in Touched(req[s]) : p \in Paths /\ (Agrees(p) \/ (Between(s) /\ p = req[s].dst))
  BY OwnPaths DEF Ready
<1>4. req[s].id \in Nat
  BY <1>1, DavAssumption DEF Handled
<1> QED BY <1>1, <1>2, <1>3, <1>4 DEF Ready, Base, Stored

\* A step that changes nothing but the target.
LEMMA OnlyTarget ==
  ASSUME NEW s \in Slots, Ready(s), UNCHANGED faults, NEW p, p = req[s].dst,
         Beyond(drive, drive', {p}), Beyond(rows, rows', {p}),
         Agrees(p)' \/ Between(s)', req'[s] # None => Works(s)'
  PROVE  Good(s)
<1>1. ASSUME NEW q \in Touched(req[s]), q # p PROVE Agrees(q)'
  <2>1. Agrees(q)
    BY <1>1, OwnPaths DEF Ready
  <2>2. q \notin {p}
    BY <1>1
  <2> QED BY <2>1, <2>2, AgreesKeeps
<1> QED BY <1>1 DEF Good

LEMMA GoodStill ==
  ASSUME NEW s \in Slots, Ready(s),
         PutStreamed(s) \/ PutRefused(s) \/ Answer500(s) \/ Answer409(s) \/ StageRow(s) \/ CopyRead(s)
  PROVE  Good(s)
<1>1. PICK p : p = req[s].dst
  OBVIOUS
<1> USE DEF At, To, Still, disk, limits
<1>2. Base /\ Form(s) /\ Works(s)
  BY DEF Ready
<1>3. UNCHANGED <<drive, rows, disp, meta, faults>>
  BY <1>2, PutStreamedFacts, PutRefusedFacts, AnswerFacts, StageRowFacts, CopyReadFacts
<1>4. Beyond(drive, drive', {p}) /\ Beyond(rows, rows', {p})
  BY <1>3, BeyondSame
<1>5. Exact' <=> Exact
  BY <1>3 DEF Exact, Without
<1>6. Agrees(p)' <=> Agrees(p)
  BY <1>3, <1>5 DEF Agrees, Length
<1>7. Agrees(p) \/ Between(s)
  BY <1>1, ReadyFacts
<1>8. CASE PutStreamed(s)
  <2>1. /\ req'[s].op = "put" /\ req'[s].stage = "charge" /\ req'[s].dst = req[s].dst
        /\ req'[s].id = req[s].id /\ req[s].op = "put" /\ req[s].stage = "stream"
        /\ req'[s].existed = (req[s].dst \in DOMAIN drive) /\ req'[s] # None /\ req[s] # None
    BY <1>2, <1>8, PutStreamedFacts DEF Same
  <2>2. ~Between(s) /\ req[s].id \notin DOMAIN meta
    BY <1>2, <2>1 DEF Between, Form
  <2>3. Agrees(p)
    BY <1>7, <2>2
  <2>4. /\ ~req'[s].existed => req'[s].dst \notin DOMAIN rows'
        /\ req'[s].existed /\ Exact' => req'[s].dst \in DOMAIN rows'
    BY <1>1, <1>3, <1>5, <2>1, <2>3 DEF Agrees
  <2>5. Works(s)'
    BY <1>3, <2>1, <2>2, <2>4 DEF Works
  <2> QED BY <1>1, <1>3, <1>4, <1>6, <2>3, <2>5, OnlyTarget
<1>9. CASE PutRefused(s) \/ Answer500(s) \/ Answer409(s)
  <2>1. ~Between(s) /\ req'[s] = None
    BY <1>2, <1>9, PutRefusedFacts, AnswerFacts DEF Between, Ends
  <2> QED BY <1>1, <1>3, <1>4, <1>6, <1>7, <2>1, OnlyTarget
<1>10. CASE StageRow(s)
  <2>1. Between(s)' /\ Works(s)'
    BY <1>2, <1>3, <1>5, <1>10, StageRowFacts DEF Works, Same, Form, Between, Moving, Fits
  <2> QED BY <1>1, <1>3, <1>4, <2>1, OnlyTarget
<1>11. CASE CopyRead(s)
  <2>1. ~Between(s) /\ Works(s)'
    BY <1>2, <1>3, <1>5, <1>11, CopyReadFacts DEF Works, Same, Form, Between, Moving, Fits, At0
  <2> QED BY <1>1, <1>3, <1>4, <1>6, <1>7, <2>1, OnlyTarget
<1> QED BY <1>8, <1>9, <1>10, <1>11

\* A step that touches no file and no row, from a request that is not between them.
LEMMA OnlyRequest ==
  ASSUME NEW s \in Slots, Ready(s), UNCHANGED <<drive, rows, faults>>, ~Between(s),
         req'[s] # None => Works(s)'
  PROVE  Good(s)
<1>1. PICK p : p = req[s].dst
  OBVIOUS
<1>2. Beyond(drive, drive', {p}) /\ Beyond(rows, rows', {p})
  BY BeyondSame
<1>3. Exact' <=> Exact
  BY DEF Exact, Without
<1>4. Agrees(p)
  BY <1>1, ReadyFacts
<1>5. Agrees(p)'
  BY <1>3, <1>4 DEF Agrees, Length
<1> QED BY <1>1, <1>2, <1>5, OnlyTarget

LEMMA GoodCharge ==
  ASSUME NEW s \in Slots, Ready(s), PutCharge(s) \/ EditCharge(s) \/ Recount(s)
  PROVE  Good(s)
<1> USE DEF At, To, disk, limits
<1>1. Base /\ Form(s) /\ Works(s) /\ Target(s)
  BY DEF Ready
<1>2. UNCHANGED <<drive, rows, disp, meta, faults>> /\ ~Between(s)
  BY <1>1, PutChargeFacts, EditChargeFacts, RecountFacts DEF Between
<1>3. Exact' <=> Exact
  BY <1>2 DEF Exact, Without
<1>4. CASE req'[s] = None
  BY <1>2, <1>4, OnlyRequest
<1>5. CASE PutCharge(s) /\ req'[s] # None
  <2>1. /\ req[s].op = "put" /\ req[s].stage = "charge" /\ req[s] # None
        /\ Same(s) /\ req'[s].stage = "write" /\ req'[s].existed = req[s].existed
        /\ req'[s].delta = Size[req[s].content]
                             - (IF req[s].existed THEN At0(rows, req[s].dst, 0) ELSE 0)
        /\ req'[s].content = req[s].content
    BY <1>1, <1>5, PutChargeFacts DEF Ends
  <2>2. req[s].id \notin DOMAIN meta
    BY <1>1, <2>1 DEF Form
  <2>3. /\ ~req[s].existed => req[s].dst \notin DOMAIN rows
        /\ req[s].existed /\ Exact => req[s].dst \in DOMAIN rows
    BY <1>1, <2>1 DEF Works
  <2>4. req'[s].delta = Size[req[s].content] - At0(rows, req[s].dst, 0)
    BY <2>1, <2>3 DEF At0
  <2> HIDE DEF Exact
  <2>5. Works(s)'
    BY <1>2, <1>3, <2>1, <2>2, <2>3, <2>4 DEF Works, Same
  <2> QED BY <1>2, <2>5, OnlyRequest
<1>6. CASE EditCharge(s) /\ req'[s] # None
  <2>1. /\ req[s].op = "edit" /\ req[s].stage = "charge" /\ req[s] # None
        /\ Same(s) /\ req'[s].stage = "write"
        /\ req'[s].delta = Size[req[s].content] - At0(Size, req[s].before, 0)
        /\ req'[s].content = req[s].content
    BY <1>1, <1>6, EditChargeFacts DEF Ends
  <2>2. req[s].id \notin DOMAIN meta /\ req[s].dst \in DOMAIN rows
    BY <1>1, <2>1 DEF Form, Works
  <2>3. req[s].before = At0(drive, req[s].dst, None)
    BY <1>1, <2>1 DEF Target, Untouched
  <2>4. Agrees(req[s].dst)
    BY <1>2, ReadyFacts
  <2>5. rows[req[s].dst] = At0(Size, req[s].before, 0)
    BY <2>2, <2>3, <2>4 DEF Agrees, Length
  <2>6. Works(s)'
    BY <1>2, <2>1, <2>2, <2>5 DEF Works, Same
  <2> QED BY <1>2, <2>6, OnlyRequest
<1>7. Recount(s) => req'[s] = None
  BY <1>1, RecountFacts DEF Ends
<1> QED BY <1>4, <1>5, <1>6, <1>7

\* A step that writes the target and is not done with it.
LEMMA OnlyWritten ==
  ASSUME NEW s \in Slots, Ready(s), UNCHANGED <<rows, faults>>, NEW c,
         drive' = Put(drive, req[s].dst, c), Between(s)', Works(s)'
  PROVE  Good(s)
<1>1. PICK p : p = req[s].dst
  OBVIOUS
<1>2. Beyond(drive, drive', {p}) /\ Beyond(rows, rows', {p})
  BY <1>1, BeyondPut, BeyondSame
<1> QED BY <1>1, <1>2, OnlyTarget

LEMMA GoodPutRename ==
  ASSUME NEW s \in Slots, Ready(s), PutRename(s)
  PROVE  Good(s)
<1> USE DEF At, To, disk, limits
<1>1. Base /\ Form(s) /\ Works(s)
  BY DEF Ready
<1>2. /\ UNCHANGED <<rows, disp, meta, faults>> /\ Same(s) /\ Keeps(s) /\ req[s] # None
      /\ req[s].op = "put" /\ req[s].stage = "write"
  BY <1>1, PutRenameFacts
<1>3. (Exact' <=> Exact) /\ req[s].id \notin DOMAIN meta
  BY <1>1, <1>2 DEF Exact, Without, Form
<1> HIDE DEF Exact
<1>4. CASE drive' = Put(drive, req[s].dst, req[s].content) /\ req'[s].stage = "register"
  <2>1. Between(s)'
    BY <1>2, <1>4 DEF Between, Same
  <2>2. req[s].dst \in DOMAIN drive' /\ drive'[req[s].dst] = req[s].content
    BY <1>4 DEF Put
  <2>3. Works(s)'
    BY <1>1, <1>2, <1>3, <1>4, <2>2 DEF Works, Same, Keeps
  <2> QED BY <1>2, <1>4, <2>1, <2>3, OnlyWritten
<1>5. CASE UNCHANGED drive /\ req'[s].stage = "recount"
  <2>1. Works(s)' /\ ~Between(s)
    BY <1>1, <1>2, <1>3, <1>5 DEF Works, Same, Between
  <2> QED BY <1>2, <1>5, <2>1, OnlyRequest
<1> QED BY <1>1, <1>4, <1>5, PutRenameFacts

LEMMA GoodEditTruncate ==
  ASSUME NEW s \in Slots, Ready(s), EditTruncate(s)
  PROVE  Good(s)
<1> USE DEF At, To, disk, limits
<1>1. Base /\ Form(s) /\ Works(s)
  BY DEF Ready
<1>2. /\ UNCHANGED <<rows, disp, meta, faults>> /\ Same(s) /\ Keeps(s) /\ req[s] # None
      /\ req[s].op = "edit" /\ req[s].stage = "write"
  BY <1>1, EditTruncateFacts
<1>3. (Exact' <=> Exact) /\ req[s].id \notin DOMAIN meta
  BY <1>1, <1>2 DEF Exact, Without, Form
<1> HIDE DEF Exact
<1>4. CASE drive' = Put(drive, req[s].dst, Torn) /\ req'[s].stage = "filling"
  <2>1. Between(s)'
    BY <1>2, <1>4 DEF Between, Same
  <2>2. Works(s)'
    BY <1>1, <1>2, <1>3, <1>4 DEF Works, Same, Keeps
  <2> QED BY <1>2, <1>4, <2>1, <2>2, OnlyWritten
<1>5. CASE UNCHANGED drive /\ req'[s].stage = "recount"
  <2>1. Works(s)' /\ ~Between(s)
    BY <1>1, <1>2, <1>3, <1>5 DEF Works, Same, Between
  <2> QED BY <1>2, <1>5, <2>1, OnlyRequest
<1> QED BY <1>1, <1>4, <1>5, EditTruncateFacts

LEMMA GoodFill ==
  ASSUME NEW s \in Slots, Ready(s), Fill(s)
  PROVE  Good(s)
<1> USE DEF At, To, disk, limits
<1>1. Base /\ Form(s) /\ Works(s)
  BY DEF Ready
<1>2. /\ UNCHANGED <<rows, disp, meta, faults>> /\ Same(s) /\ Keeps(s) /\ req[s] # None
      /\ req[s].stage = "filling" /\ req'[s].stage = "register" /\ req[s].op \in {"edit", "copy"}
      /\ drive' = Put(drive, req[s].dst, req[s].content)
  BY <1>1, FillFacts DEF Form, Fits
<1>3. Exact' <=> Exact
  BY <1>2 DEF Exact, Without
<1> HIDE DEF Exact
<1>4. Between(s)'
  BY <1>2 DEF Between, Same
<1>5. req[s].dst \in DOMAIN drive' /\ drive'[req[s].dst] = req[s].content
  BY <1>2 DEF Put
<1>6. Works(s)'
  BY <1>1, <1>2, <1>3, <1>5 DEF Works, Same, Keeps, Moving
<1> QED BY <1>2, <1>4, <1>6, OnlyWritten

LEMMA GoodCopyTruncate ==
  ASSUME NEW s \in Slots, Ready(s), CopyTruncate(s)
  PROVE  Good(s)
<1> USE DEF At, To, disk, limits
<1>1. Base /\ Form(s) /\ Works(s)
  BY DEF Ready
<1>2. /\ UNCHANGED <<rows, disp, meta, faults>> /\ Same(s) /\ req[s] # None
      /\ req'[s].delta = req[s].delta /\ req'[s].staged = req[s].staged
      /\ req[s].op = "copy" /\ req[s].stage = "write" /\ req[s].src # req[s].dst
  BY <1>1, CopyTruncateFacts DEF Form
<1>3. Exact' <=> Exact
  BY <1>2 DEF Exact, Without
<1>4. ~Between(s)
  BY <1>2 DEF Between
<1> HIDE DEF Exact
<1>5. CASE /\ req[s].src \in DOMAIN drive /\ drive' = Put(drive, req[s].dst, Torn)
           /\ req'[s].stage = "filling" /\ req'[s].content = drive[req[s].src]
  <2>1. Between(s)'
    BY <1>2, <1>5 DEF Between, Same
  <2>2. req[s].src \in DOMAIN rows /\ req[s].delta = rows[req[s].src] /\ Agrees(req[s].src)
    BY <1>1, <1>2, ReadyFacts DEF Works
  <2>3. req'[s].delta = At0(Size, req'[s].content, 0)
    BY <1>2, <1>5, <2>2 DEF Agrees, Length, At0
  <2>4. Works(s)'
    BY <1>1, <1>2, <1>3, <1>5, <2>3 DEF Works, Same, Moving
  <2> QED BY <1>2, <1>5, <2>1, <2>4, OnlyWritten
<1>6. CASE UNCHANGED drive /\ req'[s].stage \in {"restore", "refused"}
  <2>1. Works(s)'
    BY <1>1, <1>2, <1>3, <1>6 DEF Works, Same, Moving
  <2> QED BY <1>2, <1>4, <1>6, <2>1, OnlyRequest
<1> QED BY <1>1, <1>5, <1>6, CopyTruncateFacts

\* A step that gives the target its row, or loses it, with the file in place.
LEMMA OnlyCounted ==
  ASSUME NEW s \in Slots, Ready(s), UNCHANGED <<drive, faults>>,
         \/ /\ req[s].dst \in DOMAIN drive
            /\ rows' = Put(rows, req[s].dst, Length(req[s].dst))
         \/ ~Exact /\ req[s].dst \notin DOMAIN rows /\ UNCHANGED rows,
         req'[s] # None => Works(s)'
  PROVE  Good(s)
<1>1. PICK p : p = req[s].dst
  OBVIOUS
<1>2. Exact' <=> Exact
  BY DEF Exact, Without
<1> HIDE DEF Exact
<1>3. CASE p \in DOMAIN drive /\ rows' = Put(rows, p, Length(p))
  <2>1. Beyond(drive, drive', {p}) /\ Beyond(rows, rows', {p})
    BY <1>3, BeyondPut, BeyondSame
  <2>2. DOMAIN rows' = DOMAIN rows \cup {p} /\ rows'[p] = Length(p) /\ Length(p)' = Length(p)
    BY <1>3 DEF Put, Length
  <2>3. Agrees(p)'
    BY <1>3, <2>2 DEF Agrees
  <2> QED BY <1>1, <2>1, <2>3, OnlyTarget
<1>4. CASE ~Exact /\ p \notin DOMAIN rows /\ UNCHANGED rows
  <2>1. Beyond(drive, drive', {p}) /\ Beyond(rows, rows', {p})
    BY <1>4, BeyondSame
  <2>2. Agrees(p)'
    BY <1>2, <1>4 DEF Agrees
  <2> QED BY <1>1, <2>1, <2>2, OnlyTarget
<1> QED BY <1>1, <1>3, <1>4

LEMMA SizeOfTarget ==
  ASSUME NEW s \in Slots, Ready(s), req[s].stage = "register"
  PROVE  /\ req[s].dst \in DOMAIN drive
         /\ Length(req[s].dst) = At0(Size, req[s].content, 0)
         /\ req[s].content \in Contents => Length(req[s].dst) = Size[req[s].content]
<1>1. req[s].dst \in DOMAIN drive /\ drive[req[s].dst] = req[s].content
  BY DEF Ready, Works
<1>2. Length(req[s].dst) = At0(Size, req[s].content, 0)
  BY <1>1 DEF Length, At0
<1>3. req[s].content \in Contents => At0(Size, req[s].content, 0) = Size[req[s].content]
  BY DavAssumption DEF At0
<1> QED BY <1>1, <1>2, <1>3

LEMMA GoodPutRegister ==
  ASSUME NEW s \in Slots, Ready(s), PutRegister(s)
  PROVE  Good(s)
<1> USE DEF At, To, disk, limits
<1>1. Base /\ Form(s) /\ Works(s) /\ "dberror" \notin faults
  BY CalmFacts DEF Ready
<1>2. /\ UNCHANGED <<drive, faults>> /\ req[s] # None
      /\ req[s].op = "put" /\ req[s].stage = "register"
  BY <1>1, PutRegisterFacts
<1>3. /\ req[s].dst \in DOMAIN drive /\ Length(req[s].dst) = Size[req[s].content]
  BY <1>1, <1>2, SizeOfTarget DEF Form
<1>4. /\ ~req[s].existed => req[s].dst \notin DOMAIN rows
      /\ req[s].existed /\ Exact => req[s].dst \in DOMAIN rows
  BY <1>1, <1>2 DEF Works
<1> HIDE DEF Exact
<1>5. /\ req'[s] = None
      /\ rows' = IF req[s].existed /\ req[s].dst \notin DOMAIN rows
                 THEN rows ELSE Put(rows, req[s].dst, Size[req[s].content])
  BY <1>1, <1>4, PutRegisterFacts DEF Ends
<1> QED BY <1>2, <1>3, <1>4, <1>5, OnlyCounted

LEMMA GoodEditRegister ==
  ASSUME NEW s \in Slots, Ready(s), EditRegister(s)
  PROVE  Good(s)
<1> USE DEF At, To, disk, limits
<1>1. Base /\ Form(s) /\ Works(s)
  BY DEF Ready
<1>2. /\ UNCHANGED <<drive, faults>> /\ req[s] # None /\ req'[s] = None
      /\ req[s].op = "edit" /\ req[s].stage = "register"
  BY <1>1, EditRegisterFacts DEF Ends
<1>3. req[s].dst \in DOMAIN drive /\ req[s].dst \in DOMAIN rows
  BY <1>1, <1>2, SizeOfTarget DEF Works
<1>4. rows' = Put(rows, req[s].dst, Length(req[s].dst))
  BY <1>1, <1>3, EditRegisterFacts
<1> QED BY <1>2, <1>3, <1>4, OnlyCounted

LEMMA GoodCopyCommit ==
  ASSUME NEW s \in Slots, Ready(s), CopyCommit(s)
  PROVE  Good(s)
<1> USE DEF At, To, disk, limits
<1>1. Base /\ Form(s) /\ Works(s)
  BY DEF Ready
<1>2. /\ UNCHANGED <<drive, disp, meta, faults>> /\ req[s] # None /\ Same(s) /\ Keeps(s)
      /\ req[s].op = "copy" /\ req[s].stage = "register"
  BY <1>1, CopyCommitFacts
<1>3. /\ req[s].dst \in DOMAIN drive /\ Length(req[s].dst) = req[s].delta
      /\ req[s].dst \notin DOMAIN rows
  BY <1>1, <1>2, SizeOfTarget DEF Works, Moving
<1>4. Exact' <=> Exact
  BY <1>2 DEF Exact, Without
<1>5. Exact => "txfail" \notin faults /\ "fullcopy" \notin faults
  BY CalmFacts
<1> HIDE DEF Exact
<1>6. /\ \/ rows' = Put(rows, req[s].dst, req[s].delta) /\ req'[s].stage = "finish"
         \/ ~Exact /\ UNCHANGED rows /\ req'[s].stage \in {"finish", "restore", "refused"}
  BY <1>1, <1>3, <1>5, CopyCommitFacts
<1>7. Works(s)'
  <2>1. CASE req'[s].stage = "finish"
    BY <1>1, <1>2, <1>4, <2>1 DEF Works, Same, Keeps
  <2>2. CASE UNCHANGED rows /\ req'[s].stage \in {"restore", "refused"}
    BY <1>1, <1>2, <1>3, <1>4, <2>2 DEF Works, Same, Keeps
  <2> QED BY <1>6, <2>1, <2>2
<1> QED BY <1>2, <1>3, <1>6, <1>7, OnlyCounted

LEMMA GoodDisplace ==
  ASSUME NEW s \in Slots, Ready(s), Displace(s)
  PROVE  Good(s)
<1> USE DEF At, To, disk, limits
<1>1. Base /\ Form(s) /\ Works(s)
  BY DEF Ready
<1>2. /\ UNCHANGED <<rows, meta, faults>> /\ req[s] # None /\ Same(s) /\ Keeps(s)
      /\ req[s].op \in {"move", "copy"} /\ req[s].stage = "displace"
  BY <1>1, DisplaceFacts DEF Form, Fits
<1>3. (Exact' <=> Exact) /\ ~Between(s) /\ req[s].id \notin DOMAIN meta
  BY <1>1, <1>2 DEF Exact, Without, Between, Form, Moving
<1>4. PICK p : p = req[s].dst
  OBVIOUS
<1> HIDE DEF Exact
<1>5. CASE /\ req[s].dst \in DOMAIN drive
           /\ disp' = Put(disp, req[s].id, drive[req[s].dst])
           /\ drive' = Drop(drive, req[s].dst) /\ req'[s].stage = "stage"
  <2>1. Between(s)'
    BY <1>2, <1>5 DEF Between, Same
  <2>2. p \notin DOMAIN drive' /\ disp'[req[s].id] = drive[p]
    BY <1>4, <1>5 DEF Drop, Restrict, Put
  <2>3. Agrees(p)
    BY <1>3, <1>4, ReadyFacts
  <2>4. /\ p \in DOMAIN rows => rows[p] = At0(Size, disp'[req[s].id], 0)
        /\ Exact => p \in DOMAIN rows
    BY <1>4, <1>5, <2>2, <2>3 DEF Agrees, Length, At0
  <2>5. Works(s)'
    BY <1>2, <1>3, <1>4, <1>5, <2>2, <2>4 DEF Works, Same, Moving
  <2>6. Beyond(drive, drive', {p}) /\ Beyond(rows, rows', {p})
    BY <1>2, <1>4, <1>5, BeyondDrop, BeyondSame
  <2> QED BY <1>2, <1>4, <2>1, <2>5, <2>6, OnlyTarget
<1>6. CASE UNCHANGED <<disp, drive>> /\ req'[s].stage = "error"
  <2>1. Works(s)'
    BY <1>1, <1>2, <1>3, <1>6 DEF Works, Same, Moving
  <2> QED BY <1>2, <1>3, <1>6, <2>1, OnlyRequest
<1> QED BY <1>1, <1>5, <1>6, DisplaceFacts

LEMMA GoodUnlistTarget ==
  ASSUME NEW s \in Slots, Ready(s), UnlistTarget(s)
  PROVE  Good(s)
<1> USE DEF At, To, disk, limits
<1>1. Base /\ Form(s) /\ Works(s)
  BY DEF Ready
<1>2. /\ UNCHANGED <<drive, disp, faults>> /\ req[s] # None /\ Same(s) /\ Keeps(s)
      /\ req[s].op \in {"move", "copy"} /\ req[s].stage = "unlist" /\ req'[s].stage = "begin"
      /\ rows' = Drop(rows, req[s].dst)
  BY <1>1, UnlistTargetFacts DEF Form, Fits
<1>3. Exact' <=> Exact
  BY <1>2 DEF Exact, Without
<1>4. PICK p : p = req[s].dst
  OBVIOUS
<1> HIDE DEF Exact
<1>5. /\ p \notin DOMAIN drive /\ p \notin DOMAIN rows'
      /\ p \in DOMAIN rows => rows[p] = At0(Size, disp[req[s].id], 0)
      /\ Exact => p \in DOMAIN rows
      /\ req[s].staged = At0(rows, p, None)
  BY <1>1, <1>2, <1>4 DEF Works, Drop, Restrict
<1>6. Agrees(p)'
  BY <1>2, <1>5 DEF Agrees
<1>7. Exact => rows[p] \in Nat
  BY <1>5, ReadyFacts DEF Table
<1>8. /\ req[s].staged # None => req[s].staged = At0(Size, disp[req[s].id], 0)
      /\ Exact => req[s].staged # None
  BY <1>5, <1>7, DavAssumption DEF At0
<1>9. Works(s)'
  BY <1>2, <1>3, <1>4, <1>5, <1>8 DEF Works, Same, Keeps, Moving
<1>10. Beyond(drive, drive', {p}) /\ Beyond(rows, rows', {p})
  BY <1>2, <1>4, BeyondDrop, BeyondSame
<1> QED BY <1>2, <1>4, <1>6, <1>9, <1>10, OnlyTarget

LEMMA GoodFinish ==
  ASSUME NEW s \in Slots, Ready(s), Finish(s)
  PROVE  Good(s)
<1> USE DEF At, To, disk, limits
<1>1. Base /\ Form(s) /\ Works(s)
  BY DEF Ready
<1>2. /\ UNCHANGED <<drive, rows, disp, faults>> /\ req[s] # None /\ Same(s)
      /\ req[s].op \in {"move", "copy"} /\ req[s].stage = "finish" /\ req'[s].stage = "recount"
      /\ meta' = Drop(meta, req[s].id)
  BY <1>1, FinishFacts DEF Form, Fits
<1>3. ~Between(s) /\ req[s].id \notin DOMAIN meta'
  BY <1>2 DEF Between, Drop, Restrict
<1>4. Works(s)'
  BY <1>2, <1>3 DEF Works, Same, Moving
<1> QED BY <1>2, <1>3, <1>4, OnlyRequest

LEMMA GoodRestoreTarget ==
  ASSUME NEW s \in Slots, Ready(s), RestoreTarget(s)
  PROVE  Good(s)
<1> USE DEF At, To, disk, limits
<1>1. Base /\ Form(s) /\ Works(s)
  BY DEF Ready
<1>2. /\ UNCHANGED faults /\ req[s] # None /\ Same(s)
      /\ req[s].op \in {"move", "copy"} /\ req[s].stage = "restore" /\ req'[s].stage = "refused"
      /\ drive' = Put(drive, req[s].dst, disp[req[s].id]) /\ meta' = Drop(meta, req[s].id)
      /\ rows' = IF req[s].staged = None \/ req[s].dst \in DOMAIN rows
                 THEN rows ELSE Put(rows, req[s].dst, req[s].staged)
  BY <1>1, RestoreTargetFacts DEF Form, Fits
<1>3. Exact' <=> Exact
  BY <1>2 DEF Exact, Without
<1>4. PICK p : p = req[s].dst
  OBVIOUS
<1> HIDE DEF Exact
<1>5. /\ p \notin DOMAIN rows /\ req[s].id \in DOMAIN meta
      /\ req[s].staged # None => req[s].staged = At0(Size, disp[req[s].id], 0)
      /\ Exact => req[s].staged # None
  BY <1>1, <1>2, <1>4 DEF Works, Form, Moving
<1>6. p \in DOMAIN drive' /\ Length(p)' = At0(Size, disp[req[s].id], 0)
  BY <1>2, <1>4 DEF Put, Length, At0
<1>7. Agrees(p)'
  <2>1. CASE req[s].staged = None
    BY <1>2, <1>3, <1>5, <2>1 DEF Agrees
  <2>2. CASE req[s].staged # None
    <3>1. rows' = Put(rows, p, req[s].staged)
      BY <1>2, <1>4, <1>5, <2>2
    <3>2. p \in DOMAIN rows' /\ rows'[p] = Length(p)'
      BY <1>5, <1>6, <2>2, <3>1 DEF Put
    <3> QED BY <1>6, <3>2 DEF Agrees
  <2> QED BY <2>1, <2>2
<1>8. Works(s)'
  <2>1. req[s].id \notin DOMAIN meta'
    BY <1>2 DEF Drop, Restrict
  <2> QED BY <1>2, <2>1 DEF Works, Same, Moving
<1>9. Beyond(drive, drive', {p}) /\ Beyond(rows, rows', {p})
  BY <1>2, <1>4, BeyondPut, BeyondSame
<1> QED BY <1>2, <1>4, <1>7, <1>8, <1>9, OnlyTarget

LEMMA RelocateAgrees ==
  ASSUME Base, UNCHANGED faults, NEW p, NEW q, Relocate(p, q), Agrees(p)
  PROVE  Agrees(p)' /\ Agrees(q)' /\ DOMAIN rows' \subseteq DOMAIN rows \cup {q}
         /\ Beyond(drive, drive', {p, q}) /\ Beyond(rows, rows', {p, q})
<1>1. /\ p \in DOMAIN drive /\ q \notin DOMAIN drive /\ q \notin DOMAIN rows /\ p # q
      /\ drive' = MoveKey(drive, p, q) /\ rows' = MoveKey(rows, p, q)
  BY DEF Relocate
<1>2. p \notin DOMAIN drive' /\ q \in DOMAIN drive' /\ drive'[q] = drive[p]
  BY <1>1 DEF MoveKey, Put, Drop, Restrict
<1>3. /\ p \notin DOMAIN rows' /\ (q \in DOMAIN rows' <=> p \in DOMAIN rows)
      /\ p \in DOMAIN rows => rows'[q] = rows[p]
      /\ DOMAIN rows' \subseteq DOMAIN rows \cup {q}
  BY <1>1 DEF MoveKey, Put, Drop, Restrict
<1>4. Length(q)' = Length(p)
  BY <1>1, <1>2 DEF Length, At0
<1>5. Exact' <=> Exact
  BY DEF Exact, Without
<1> HIDE DEF Exact
<1>6. Agrees(p)' /\ Agrees(q)'
  BY <1>1, <1>2, <1>3, <1>4, <1>5 DEF Agrees
<1>7. Beyond(drive, drive', {p, q}) /\ Beyond(rows, rows', {p, q})
  BY <1>1, BeyondMove
<1> QED BY <1>3, <1>6, <1>7

LEMMA GoodMove ==
  ASSUME NEW s \in Slots, Ready(s), MoveFirst(s) \/ MoveSecond(s)
  PROVE  Good(s)
<1> USE DEF To, limits
<1>1. Base /\ Form(s) /\ Works(s)
  BY DEF Ready
<1>2. PICK p, q \in Touched(req[s]) :
        /\ req[s] # None /\ req[s].op = "move" /\ req[s].stage \in {"begin", "second"}
        /\ UNCHANGED <<disp, meta, faults>> /\ Keeps(s) /\ Same(s)
        /\ \/ Relocate(p, q) /\ q = req[s].dst /\ req'[s].stage = "finish"
           \/ Relocate(p, q) /\ q # req[s].dst /\ req'[s].stage = "second"
           \/ UNCHANGED <<drive, rows>> /\ req'[s].stage \in {"restore", "refused"}
  BY <1>1, MoveFacts
<1>3. ~Between(s) /\ \A r \in Touched(req[s]) : Agrees(r)
  BY <1>2, ReadyFacts DEF Between
<1>4. Exact' <=> Exact
  BY <1>2 DEF Exact, Without
<1>5. /\ req[s].dst \notin DOMAIN rows
      /\ req[s].id \in DOMAIN meta =>
           /\ req[s].staged # None => req[s].staged = At0(Size, disp[req[s].id], 0)
           /\ Exact => req[s].staged # None
  BY <1>1, <1>2 DEF Works, Moving
<1> HIDE DEF Exact
<1>6. CASE Relocate(p, q)
  <2>1. /\ Agrees(p)' /\ Agrees(q)' /\ DOMAIN rows' \subseteq DOMAIN rows \cup {q}
        /\ Beyond(drive, drive', {p, q}) /\ Beyond(rows, rows', {p, q})
    BY <1>1, <1>2, <1>3, <1>6, RelocateAgrees
  <2>2. ASSUME NEW r \in Touched(req[s]), r \notin {p, q} PROVE Agrees(r)'
    BY <1>2, <1>3, <2>1, <2>2, AgreesKeeps
  <2>3. ~UNCHANGED drive
    BY <1>6 DEF Relocate, MoveKey, Put
  <2>4. Works(s)'
    <3>1. CASE req'[s].stage = "finish"
      BY <1>2, <1>4, <1>5, <3>1 DEF Works, Same, Keeps
    <3>2. CASE q # req[s].dst /\ req'[s].stage = "second"
      BY <1>2, <1>4, <1>5, <2>1, <3>2 DEF Works, Same, Keeps
    <3> QED BY <1>2, <2>3, <3>1, <3>2
  <2> QED BY <2>1, <2>2, <2>4 DEF Good
<1>7. CASE UNCHANGED <<drive, rows>> /\ req'[s].stage \in {"restore", "refused"}
  <2>1. Works(s)'
    BY <1>2, <1>4, <1>5, <1>7 DEF Works, Same, Keeps
  <2> QED BY <1>2, <1>3, <1>7, <2>1, OnlyRequest
<1> QED BY <1>2, <1>6, <1>7

LEMMA HandleGood ==
  ASSUME NEW s \in Slots, Ready(s), Handle(s)
  PROVE  Good(s)
  BY GoodStill, GoodCharge, GoodPutRename, GoodEditTruncate, GoodFill, GoodCopyTruncate,
     GoodPutRegister, GoodEditRegister, GoodCopyCommit, GoodDisplace, GoodUnlistTarget,
     GoodFinish, GoodRestoreTarget, GoodMove
     DEF Handle

\* The others are not disturbed, so that all of it is kept.
LEMMA HandleWorks ==
  ASSUME Calm, Base, Apart, \A t \in Slots : req[t] # None => Target(t), AllWork,
         NEW s \in Slots, Handle(s)
  PROVE  AllWork'
<1>1. Frame(s) /\ req[s] # None /\ (req'[s] = None \/ Same(s))
  BY HandleFrame, HandleSame
<1>2. Ready(s)
  BY <1>1 DEF Ready, AllWork, Base
<1>3. Good(s) /\ UNCHANGED faults /\ Others(s)
  BY <1>1, <1>2, HandleGood DEF Frame, limits
<1>4. /\ Beyond(drive, drive', Touched(req[s])) /\ Beyond(rows, rows', Touched(req[s]))
      /\ Beyond(disp, disp', {req[s].id}) /\ Beyond(meta, meta', {req[s].id})
  BY <1>1 DEF Frame
<1>5. Counted'
  <2>1. req[s].dst \in Touched(req[s])
    BY DEF Touched
  <2>2. \A p \in Touched(req[s]) : Agrees(p)' \/ (Between(s)' /\ p = req'[s].dst)
    BY <1>1, <1>3 DEF Good, Between, Same
  <2>3. PICK S : S = Touched(req[s])
    OBVIOUS
  <2> QED BY <1>2, <1>3, <1>4, <2>1, <2>2, <2>3, CountedKeeps DEF Ready
<1>6. ASSUME NEW t \in Slots, req'[t] # None PROVE Works(t)'
  <2>1. CASE t = s
    BY <1>3, <1>6, <2>1 DEF Good
  <2>2. CASE t # s
    <3>1. req'[t] = req[t] /\ req[t] # None /\ Works(t)
      BY <1>3, <1>6, <2>2 DEF Others, AllWork
    <3>2. Touched(req[s]) \cap Touched(req[t]) = {} /\ req[t].id # req[s].id
      BY <1>1, <2>2, <3>1 DEF Apart, Base, Numbered
    <3>3. PICK S, id : S = Touched(req[s]) /\ id = req[s].id
      OBVIOUS
    <3> QED BY <1>3, <1>4, <2>2, <3>1, <3>2, <3>3, WorksOfOthers
  <2> QED BY <2>1, <2>2
<1> QED BY <1>5, <1>6 DEF AllWork

LEMMA StartWorks ==
  ASSUME Calm, Base, Apart, AllWork,
         NEW s \in Slots, NEW op, NEW stage \in Stages, NEW src \in Paths,
         NEW dst \in Paths, NEW content \in Contents \cup {None},
         op \in {"put", "edit", "move", "copy", "delete"}, Fits(op, stage),
         stage \in {"stream", "charge", "displace", "begin", "recount"},
         op \in {"move", "copy"} /\ stage = "begin" => dst \notin DOMAIN drive,
         op = "put" => stage = "stream", op = "edit" => dst \in DOMAIN rows,
         Start(s, op, stage, src, dst, content),
         \/ UNCHANGED <<drive, rows>>
         \/ op = "delete" /\ drive' = Drop(drive, dst) /\ rows' = Drop(rows, dst),
         UNCHANGED <<disp, meta, faults>>
  PROVE  AllWork'
<1>1. /\ req[s] = None /\ Quiet(s, op, src, dst)
      /\ ops' = ops + 1 /\ ops' \in 1..MaxOps
      /\ Others(s) /\ req'[s] \in Handled /\ req'[s] # None
      /\ req'[s].op = op /\ req'[s].stage = stage /\ req'[s].src = src /\ req'[s].dst = dst
      /\ req'[s].content = content /\ req'[s].id = ops'
      /\ req'[s].before = At0(drive, dst, None) /\ req'[s].staged = None
      /\ req'[s].existed = FALSE /\ req'[s].delta = 0
  BY StartFacts, Zenon
<1>2. \A t \in Slots \ {s} : req[t] # None =>
        {src, dst, Midway(src, dst)} \cap Touched(req[t]) = {}
  <2>1. Without({"overlap"})
    BY CalmFacts
  <2> QED BY <1>1, <2>1, StartApart
<1>3. ops \in Nat /\ ops' \notin DOMAIN disp /\ ops' \notin DOMAIN meta
  BY <1>1 DEF Base, Limits, Stored
<1>4. Agrees(dst)
  <2>1. ASSUME NEW t \in Slots, Between(t), dst = req[t].dst PROVE FALSE
    BY <1>1, <1>2, <2>1 DEF Between, Touched
  <2> QED BY <2>1 DEF AllWork, Counted
<1>5. Beyond(drive, drive', {dst}) /\ Beyond(rows, rows', {dst})
  BY BeyondSame, BeyondDrop
<1>6. Exact' <=> Exact
  BY DEF Exact, Without
<1> HIDE DEF Exact
<1>7. Agrees(dst)'
  <2>1. CASE UNCHANGED <<drive, rows>>
    BY <1>4, <1>6, <2>1 DEF Agrees, Length
  <2>2. CASE drive' = Drop(drive, dst) /\ rows' = Drop(rows, dst)
    BY <2>2 DEF Agrees, Drop, Restrict
  <2> QED BY <2>1, <2>2
<1>8. Works(s)'
  <2>1. CASE op = "delete"
    BY <1>1, <1>3, <2>1 DEF Works, Fits
  <2>2. CASE op # "delete"
    <3>1. UNCHANGED <<drive, rows>>
      BY <2>2
    <3>2. op \in {"move", "copy"} /\ stage = "begin" => dst \notin DOMAIN rows
      BY <1>4 DEF Agrees
    <3>3. req'[s].id \notin DOMAIN meta'
      BY <1>1, <1>3
    <3>4. /\ op = "edit" => req'[s].dst \in DOMAIN rows'
          /\ op \in {"move", "copy"} /\ stage = "begin" => req'[s].dst \notin DOMAIN rows'
      BY <1>1, <3>1, <3>2
    <3>5. /\ stage \notin {"write", "register", "filling", "stage", "unlist"}
          /\ op = "put" => stage # "charge"
          /\ op \in {"move", "copy"} /\ stage \in Moving \ {"finish"} => stage = "begin"
      BY <2>2 DEF Moving, Fits
    <3> QED BY <1>1, <3>3, <3>4, <3>5 DEF Works
  <2> QED BY <2>1, <2>2
<1>9. Counted'
  <2>1. PICK S : S = {dst}
    OBVIOUS
  <2>2. \A p \in S \cap Paths : Agrees(p)'
    BY <1>7, <2>1
  <2>3. req[s] # None => req[s].dst \in S
    BY <1>1
  <2>4. Others(s) /\ Beyond(drive, drive', S) /\ Beyond(rows, rows', S) /\ Counted
    BY <1>1, <1>5, <2>1 DEF AllWork
  <2> QED BY <2>2, <2>3, <2>4, CountedKeeps
<1>10. ASSUME NEW t \in Slots \ {s}, req'[t] # None PROVE Works(t)'
  <2>1. req'[t] = req[t] /\ req[t] # None /\ Works(t)
    BY <1>1, <1>10 DEF Others, AllWork
  <2>2. {dst} \cap Touched(req[t]) = {}
    BY <1>2, <2>1
  <2>3. req[t].id # ops'
    <3>1. req[t].id <= ops /\ req[t].id \in Nat
      BY <2>1, InFlight, DavAssumption DEF Base, Form, Handled
    <3> QED BY <1>1, <1>3, <3>1
  <2>4. PICK S, id : S = {dst} /\ id = ops'
    OBVIOUS
  <2>5. Beyond(disp, disp', {id}) /\ Beyond(meta, meta', {id})
    BY BeyondSame
  <2> QED BY <1>5, <2>1, <2>2, <2>3, <2>4, <2>5, WorksOfOthers
<1> QED BY <1>8, <1>9, <1>10 DEF AllWork

LEMMA RequestWorks ==
  ASSUME Calm, Base, Apart, AllWork, NEW s \in Slots, Request(s)
  PROVE  AllWork'
<1> USE DEF Stages, Fits
<1>1. ASSUME NEW p \in Paths, NEW c \in Contents, StartPut(s, p, c)
      PROVE  AllWork'
  <2>1. Start(s, "put", "stream", p, p, c) /\ UNCHANGED <<drive, rows, disp, meta, faults>>
    BY <1>1 DEF StartPut, disk, limits
  <2> QED BY <2>1, StartWorks
<1>2. ASSUME NEW p \in Paths, NEW c \in Contents, StartEdit(s, p, c)
      PROVE  AllWork'
  <2>1. Start(s, "edit", "charge", p, p, c) /\ UNCHANGED <<drive, rows, disp, meta, faults>>
    BY <1>2 DEF StartEdit, disk, limits
  <2>2. p \in DOMAIN rows
    BY <1>2, CalmFacts DEF StartEdit
  <2> QED BY <2>1, <2>2, StartWorks
<1>3. ASSUME NEW p \in Paths, NEW q \in Paths, NEW op \in {"move", "copy"},
             StartTransfer(s, op, p, q)
      PROVE  AllWork'
  <2>1. UNCHANGED <<drive, rows, disp, meta, faults>>
    BY <1>3 DEF StartTransfer, disk, limits
  <2>2. CASE q \in DOMAIN drive
    <3>1. Start(s, op, "displace", p, q, None)
      BY <1>3, <2>2 DEF StartTransfer
    <3> QED BY <2>1, <3>1, StartWorks
  <2>3. CASE q \notin DOMAIN drive
    <3>1. Start(s, op, "begin", p, q, None)
      BY <1>3, <2>3 DEF StartTransfer
    <3> QED BY <2>1, <2>3, <3>1, StartWorks
  <2> QED BY <2>2, <2>3
<1>4. ASSUME NEW p \in Paths, Delete(s, p)
      PROVE  AllWork'
  <2>1. /\ Start(s, "delete", "recount", p, p, None) /\ UNCHANGED <<disp, meta, faults>>
        /\ drive' = Drop(drive, p) /\ rows' = Drop(rows, p)
    BY <1>4 DEF Delete, limits
  <2> QED BY <2>1, StartWorks
<1> QED BY <1>1, <1>2, <1>3, <1>4 DEF Request

LEMMA FaultsStay == ASSUME Base, [Next]_vars PROVE UNCHANGED faults
<1>1. ASSUME NEW s \in Slots, Handle(s) PROVE UNCHANGED faults
  BY <1>1, HandleFrame DEF Frame, limits
<1>2. ASSUME NEW s \in Slots, Request(s) PROVE UNCHANGED faults
  BY <1>2 DEF Request, StartPut, StartEdit, StartTransfer, Delete, limits
<1> QED BY <1>1, <1>2 DEF Next, Disconnect, Crash, vars

LEMMA WorksNext ==
  ASSUME Base, Kept, Calm => AllWork, [Next]_vars
  PROVE  Calm' => AllWork'
<1>1. UNCHANGED faults
  BY FaultsStay
<1> SUFFICES ASSUME Calm' PROVE AllWork'
  OBVIOUS
<1>2. Calm /\ AllWork
  BY <1>1 DEF Calm, Without
<1>3. Apart /\ \A t \in Slots : req[t] # None => Target(t)
  BY <1>2, CalmFacts DEF Kept
<1>4. CASE UNCHANGED vars
  <2>1. Exact' <=> Exact
    BY <1>1 DEF Exact, Without
  <2> HIDE DEF Exact
  <2>2. \A p : Agrees(p)' <=> Agrees(p)
    BY <1>4, <2>1 DEF vars, Agrees, Length
  <2>3. Counted'
    BY <1>2, <1>4, <2>2 DEF vars, AllWork, Counted, Between
  <2>4. \A t \in Slots : req'[t] # None => Works(t)'
    BY <1>2, <1>4, <2>1 DEF vars, AllWork, Works
  <2> QED BY <2>3, <2>4 DEF AllWork
<1>5. ASSUME NEW s \in Slots, Request(s) PROVE AllWork'
  BY <1>2, <1>3, <1>5, RequestWorks
<1>6. ASSUME NEW s \in Slots, Handle(s) PROVE AllWork'
  BY <1>2, <1>3, <1>6, HandleWorks
<1>7. ~Crash /\ \A s \in Slots : ~Disconnect(s)
  BY <1>2, CalmFacts DEF Crash, Disconnect
<1> QED BY <1>4, <1>5, <1>6, <1>7 DEF Next

LEMMA WorksInit == Init => (Calm => AllWork)
<1> SUFFICES ASSUME Init PROVE AllWork
  OBVIOUS
<1>1. \A s \in Slots : req[s] = None
  BY DEF Init
<1>2. ASSUME NEW p \in Paths PROVE Agrees(p)
  <2>1. DOMAIN rows = DOMAIN drive
    BY DEF Init, FirstRows
  <2>2. CASE p \in DOMAIN drive
    <3>1. drive[p] \in Contents /\ rows[p] = Size[drive[p]]
      BY <2>2, DavAssumption DEF Init, FirstRows, Range
    <3>2. Length(p) = Size[drive[p]]
      BY <2>2, <3>1, DavAssumption DEF Length, At0
    <3> QED BY <2>1, <2>2, <3>1, <3>2 DEF Agrees
  <2> QED BY <2>1, <2>2 DEF Agrees
<1> QED BY <1>1, <1>2 DEF AllWork, Counted

------------------------------------------------------------------------------
(* The books.                                                              *)

\* What a request has charged and the table does not show, or has taken out of the
\* table and not released.
Owed(s) ==
  IF req[s] = None THEN 0
  ELSE IF req[s].op \in {"put", "edit"} /\ req[s].stage \in {"write", "filling", "register"}
  THEN req[s].delta
  ELSE IF req[s].id \in DOMAIN meta /\ req[s].staged # None THEN req[s].staged ELSE 0

Debts == [s \in Slots |-> Owed(s)]

LEMMA OwedIsInt == ASSUME Base, NEW s \in Slots PROVE Owed(s) \in Int
<1>1. CASE req[s] = None
  BY <1>1 DEF Owed
<1>2. CASE req[s] # None
  <2>1. req[s].delta \in Int /\ req[s].staged \in Nat \cup {None}
    BY <1>2, InFlight DEF Handled
  <2> QED BY <1>2, <2>1 DEF Owed
<1> QED BY <1>1, <1>2

LEMMA DebtsAreInt == ASSUME Base PROVE Sum(Debts) \in Int
<1>1. IsFiniteSet(Slots) /\ \A s \in Slots : Debts[s] \in Int
  BY OwedIsInt, DavAssumption DEF Debts
<1>2. Sum(Debts) = SumFunctionOnSet(Debts, Slots)
  BY DEF Sum, SumFunction, Debts
<1> QED BY <1>1, <1>2, SumIsInt

LEMMA DebtChange ==
  ASSUME Base, Base', NEW s \in Slots, \A t \in Slots \ {s} : Owed(t)' = Owed(t)
  PROVE  Sum(Debts)' = Sum(Debts) - Owed(s) + Owed(s)'
<1> DEFINE f == Debts g == Debts'
<1>1. \A t \in Slots : f[t] = Owed(t) /\ g[t] = Owed(t)' /\ f[t] \in Int
  BY OwedIsInt DEF Debts
<1>2. g[s] \in Int
  <2>1. req'[s] = None \/ (req'[s].delta \in Int /\ req'[s].staged \in Nat \cup {None})
    BY DEF Base, Requests, Handled
  <2>2. Owed(s)' \in Int
    BY <2>1 DEF Owed
  <2> QED BY <1>1, <2>2
<1>3. Sum(Debts) = SumFunctionOnSet(f, Slots) /\ Sum(Debts)' = SumFunctionOnSet(g, Slots)
  BY DEF Sum, SumFunction, Debts
<1>4. \A t \in Slots \ {s} : g[t] = f[t]
  BY <1>1
<1> HIDE DEF f, g
<1>5. SumFunctionOnSet(g, Slots) = SumFunctionOnSet(f, Slots) - f[s] + g[s]
  BY <1>1, <1>2, <1>4, SumChange, DavAssumption
<1> QED BY <1>1, <1>3, <1>5

\* gain is what the step adds to the table and the debts together.
Balanced(s, gain) ==
  /\ used' = used \/ used' <= Quota
  /\ Exact => used' = used + gain \/ (req'[s] # None /\ req'[s].stage = "recount")
  /\ Frugal => used + gain <= used'

Books(s) ==
  \E gain \in Int : Sum(rows)' + Owed(s)' = Sum(rows) + Owed(s) + gain /\ Balanced(s, gain)

LEMMA NoGain ==
  ASSUME NEW s \in Slots, Ready(s), UNCHANGED <<used, rows>>, Owed(s)' = Owed(s)
  PROVE  Books(s)
<1>1. Sum(rows) \in Int /\ Owed(s) \in Int /\ used \in Int
  BY OwedIsInt, TotalIsInt DEF Ready, Base, Stored
<1>2. Sum(rows)' = Sum(rows)
  OBVIOUS
<1>3. Balanced(s, 0)
  BY <1>1 DEF Balanced
<1> QED BY <1>1, <1>2, <1>3 DEF Books

LEMMA BooksStill ==
  ASSUME NEW s \in Slots, Ready(s),
         \/ PutStreamed(s) \/ PutRefused(s) \/ Answer500(s) \/ Answer409(s) \/ StageRow(s)
         \/ CopyRead(s)
  PROVE  Books(s)
<1> USE DEF At, To, Still, disk, limits
<1>1. Base /\ Form(s)
  BY DEF Ready
<1>2. UNCHANGED <<rows, used, meta>>
  BY <1>1, PutStreamedFacts, PutRefusedFacts, AnswerFacts, StageRowFacts, CopyReadFacts
<1>3. CASE PutStreamed(s)
  BY <1>1, <1>2, <1>3, PutStreamedFacts, NoGain DEF Owed, Same, Form
<1>4. CASE PutRefused(s) \/ Answer500(s) \/ Answer409(s)
  BY <1>1, <1>2, <1>4, PutRefusedFacts, AnswerFacts, NoGain DEF Owed, Ends, Form, Fits, Moving
<1>5. CASE StageRow(s)
  BY <1>1, <1>2, <1>5, StageRowFacts, NoGain DEF Owed, Same, Form
<1>6. CASE CopyRead(s)
  BY <1>1, <1>2, <1>6, CopyReadFacts, NoGain DEF Owed, Same, Form
<1> QED BY <1>3, <1>4, <1>5, <1>6

LEMMA BooksCharge ==
  ASSUME NEW s \in Slots, Ready(s), PutCharge(s) \/ EditCharge(s)
  PROVE  Books(s)
<1> USE DEF At, To, disk, limits
<1>1. Base /\ Form(s)
  BY DEF Ready
<1>2. /\ UNCHANGED <<rows, meta>> /\ req[s] # None
      /\ req[s].op \in {"put", "edit"} /\ req[s].stage = "charge"
  BY <1>1, PutChargeFacts, EditChargeFacts
<1>3. Owed(s) = 0
  BY <1>1, <1>2 DEF Owed, Form
<1>4. CASE req'[s] = None /\ UNCHANGED used
  BY <1>2, <1>3, <1>4, NoGain DEF Owed
<1>5. ASSUME NEW delta \in Int, Same(s), req'[s].stage = "write", req'[s].delta = delta,
             used' = used + delta, used + delta <= Quota
      PROVE  Books(s)
  <2>1. Owed(s)' = delta
    BY <1>2, <1>5 DEF Owed, Same
  <2>2. Sum(rows) \in Int /\ Sum(rows)' = Sum(rows)
    BY <1>1, <1>2, TotalIsInt DEF Base, Stored
  <2>3. Balanced(s, delta)
    BY <1>1, <1>5 DEF Balanced, Base, Stored
  <2> QED BY <1>3, <2>1, <2>2, <2>3 DEF Books
<1>6. CASE PutCharge(s)
  <2>1. PICK delta :
          \/ req'[s] = None /\ UNCHANGED used
          \/ /\ delta \in Int /\ Same(s) /\ req'[s].stage = "write" /\ req'[s].delta = delta
             /\ used' = used + delta /\ used + delta <= Quota
    BY <1>1, <1>6, PutChargeFacts DEF Ends
  <2> QED BY <1>4, <1>5, <2>1
<1>7. CASE EditCharge(s)
  <2>1. PICK delta :
          \/ req'[s] = None /\ UNCHANGED used
          \/ /\ delta \in Int /\ Same(s) /\ req'[s].stage = "write" /\ req'[s].delta = delta
             /\ used' = used + delta /\ used + delta <= Quota
    BY <1>1, <1>7, EditChargeFacts DEF Ends
  <2> QED BY <1>4, <1>5, <2>1
<1> QED BY <1>6, <1>7

LEMMA BooksWrite ==
  ASSUME NEW s \in Slots, Ready(s), PutRename(s) \/ EditTruncate(s) \/ Fill(s) \/ CopyTruncate(s)
  PROVE  Books(s)
<1> USE DEF At, To, disk, limits
<1>1. Base /\ Form(s)
  BY DEF Ready
<1>2. /\ UNCHANGED <<rows, used, meta>> /\ req[s] # None /\ Same(s)
      /\ req'[s].staged = req[s].staged /\ req'[s].delta = req[s].delta
  BY <1>1, PutRenameFacts, EditTruncateFacts, FillFacts, CopyTruncateFacts DEF Keeps
<1>3. CASE Fill(s) \/ CopyTruncate(s)
  <2>1. Owed(s)' = Owed(s)
    <3>1. CASE Fill(s)
      BY <1>1, <1>2, <3>1, FillFacts DEF Owed, Same
    <3>2. CASE CopyTruncate(s)
      BY <1>1, <1>2, <3>2, CopyTruncateFacts DEF Owed, Same
    <3> QED BY <1>3, <3>1, <3>2
  <2> QED BY <1>2, <2>1, NoGain
<1>4. CASE PutRename(s) \/ EditTruncate(s)
  <2>1. /\ req[s].op \in {"put", "edit"} /\ req[s].stage = "write"
        /\ \/ req'[s].stage \in {"register", "filling"}
           \/ "iofail" \in faults /\ req'[s].stage = "recount"
    BY <1>1, <1>4, PutRenameFacts, EditTruncateFacts
  <2>2. CASE req'[s].stage \in {"register", "filling"}
    <3>1. Owed(s)' = Owed(s)
      BY <1>2, <2>1, <2>2 DEF Owed, Same
    <3> QED BY <1>2, <3>1, NoGain
  <2>3. CASE "iofail" \in faults /\ req'[s].stage = "recount"
    <3>1. Owed(s)' = 0
      BY <1>1, <1>2, <2>1, <2>3 DEF Owed, Same, Form
    <3>2. Owed(s) \in Int /\ Sum(rows) \in Int /\ Sum(rows)' = Sum(rows)
      BY <1>1, <1>2, OwedIsInt, TotalIsInt DEF Base, Stored
    <3>3. Balanced(s, -Owed(s))
      BY <1>2, <2>3, CalmFacts DEF Balanced, Same
    <3> QED BY <3>1, <3>2, <3>3 DEF Books
  <2> QED BY <2>1, <2>2, <2>3
<1> QED BY <1>3, <1>4

LEMMA BooksPutRegister ==
  ASSUME NEW s \in Slots, Ready(s), PutRegister(s)
  PROVE  Books(s)
<1> USE DEF At, To, disk, limits
<1>1. Base /\ Form(s) /\ Works(s) /\ "dberror" \notin faults /\ used \in Int
  BY CalmFacts DEF Ready, Base, Stored
<1>2. /\ UNCHANGED used /\ req[s] # None
      /\ req[s].op = "put" /\ req[s].stage = "register"
  BY <1>1, PutRegisterFacts
<1>3. /\ ~req[s].existed => req[s].dst \notin DOMAIN rows
      /\ req[s].existed /\ Exact => req[s].dst \in DOMAIN rows
      /\ req[s].delta = Size[req[s].content] - At0(rows, req[s].dst, 0)
      /\ Size[req[s].content] \in Nat
  BY <1>1, <1>2, DavAssumption DEF Works, Form
<1> HIDE DEF Exact
<1>4. /\ req'[s] = None
      /\ rows' = IF req[s].existed /\ req[s].dst \notin DOMAIN rows
                 THEN rows ELSE Put(rows, req[s].dst, Size[req[s].content])
  BY <1>1, <1>3, PutRegisterFacts DEF Ends
<1>5. Owed(s) = req[s].delta /\ Owed(s)' = 0
  BY <1>2, <1>4 DEF Owed
<1>6. Table(rows) /\ Sum(rows) \in Int /\ At0(rows, req[s].dst, 0) \in Int
  BY <1>1, TotalIsInt DEF Base, Stored, At0, Table
<1>7. CASE rows' = Put(rows, req[s].dst, Size[req[s].content])
  <2>1. Sum(rows)' = Sum(rows) - At0(rows, req[s].dst, 0) + Size[req[s].content]
    BY <1>3, <1>6, <1>7, TotalPut
  <2>2. Balanced(s, 0)
    BY <1>1, <1>2 DEF Balanced
  <2> QED BY <1>3, <1>5, <1>6, <2>1, <2>2 DEF Books
<1>8. CASE req[s].existed /\ req[s].dst \notin DOMAIN rows /\ UNCHANGED rows
  <2>1. ~Exact /\ At0(rows, req[s].dst, 0) = 0
    BY <1>3, <1>8 DEF At0
  <2>2. Balanced(s, -req[s].delta) /\ req[s].delta \in Int
    BY <1>1, <1>2, <1>3, <2>1 DEF Balanced
  <2> QED BY <1>5, <1>6, <1>8, <2>2 DEF Books
<1> QED BY <1>4, <1>7, <1>8

LEMMA BooksEditRegister ==
  ASSUME NEW s \in Slots, Ready(s), EditRegister(s)
  PROVE  Books(s)
<1> USE DEF At, To, disk, limits
<1>1. Base /\ Form(s) /\ Works(s) /\ used \in Int
  BY DEF Ready, Base, Stored
<1>2. /\ UNCHANGED used /\ req[s] # None /\ req'[s] = None
      /\ req[s].op = "edit" /\ req[s].stage = "register"
  BY <1>1, EditRegisterFacts DEF Ends
<1>3. /\ req[s].dst \in DOMAIN rows /\ Length(req[s].dst) = Size[req[s].content]
      /\ req[s].delta = Size[req[s].content] - rows[req[s].dst]
      /\ Size[req[s].content] \in Nat
  BY <1>1, <1>2, SizeOfTarget, DavAssumption DEF Works, Form
<1>4. rows' = Put(rows, req[s].dst, Size[req[s].content])
  BY <1>1, <1>3, EditRegisterFacts
<1>5. Owed(s) = req[s].delta /\ Owed(s)' = 0
  BY <1>2 DEF Owed
<1>6. Table(rows) /\ Sum(rows) \in Int /\ At0(rows, req[s].dst, 0) = rows[req[s].dst]
  BY <1>1, <1>3, TotalIsInt DEF Base, Stored, At0
<1>7. rows[req[s].dst] \in Int
  BY <1>3, <1>6 DEF Table
<1>8. Sum(rows)' = Sum(rows) - rows[req[s].dst] + Size[req[s].content]
  BY <1>3, <1>4, <1>6, TotalPut
<1>9. Balanced(s, 0)
  BY <1>1, <1>2 DEF Balanced
<1> QED BY <1>3, <1>5, <1>6, <1>7, <1>8, <1>9 DEF Books

LEMMA BooksCopyCommit ==
  ASSUME NEW s \in Slots, Ready(s), CopyCommit(s)
  PROVE  Books(s)
<1> USE DEF At, To, disk, limits
<1>1. Base /\ Form(s) /\ Works(s) /\ used \in Int
  BY DEF Ready, Base, Stored
<1>2. /\ UNCHANGED meta /\ req[s] # None /\ Same(s) /\ Keeps(s)
      /\ req[s].op = "copy" /\ req[s].stage = "register"
  BY <1>1, CopyCommitFacts
<1>3. req[s].dst \notin DOMAIN rows /\ req[s].delta \in Nat
  BY <1>1, <1>2 DEF Works, Moving, Form
<1>4. Owed(s)' = Owed(s) /\ Owed(s) \in Int
  BY <1>1, <1>2, OwedIsInt DEF Owed, Same, Keeps
<1>5. CASE UNCHANGED <<rows, used>>
  BY <1>4, <1>5, NoGain
<1>6. CASE /\ rows' = Put(rows, req[s].dst, req[s].delta)
           /\ used + req[s].delta <= Quota /\ used' = used + req[s].delta
  <2>1. Table(rows) /\ Sum(rows) \in Int /\ At0(rows, req[s].dst, 0) = 0
    BY <1>1, <1>3, TotalIsInt DEF Base, Stored, At0
  <2>2. Sum(rows)' = Sum(rows) - 0 + req[s].delta
    BY <1>3, <1>6, <2>1, TotalPut
  <2>3. Balanced(s, req[s].delta)
    BY <1>1, <1>3, <1>6 DEF Balanced
  <2> QED BY <1>3, <1>4, <2>1, <2>2, <2>3 DEF Books
<1> QED BY <1>1, <1>3, <1>5, <1>6, CopyCommitFacts

LEMMA BooksDisplaced ==
  ASSUME NEW s \in Slots, Ready(s), Displace(s) \/ UnlistTarget(s) \/ Finish(s) \/ RestoreTarget(s)
  PROVE  Books(s)
<1> USE DEF At, To, disk, limits
<1>1. Base /\ Form(s) /\ Works(s) /\ used \in Int /\ Table(rows)
  BY DEF Ready, Base, Stored
<1>2. /\ UNCHANGED used /\ req[s] # None /\ Same(s) /\ Keeps(s)
      /\ req[s].op \in {"move", "copy"}
      /\ req[s].stage \in {"displace", "unlist", "finish", "restore"}
  BY <1>1, DisplaceFacts, UnlistTargetFacts, FinishFacts, RestoreTargetFacts DEF Form, Fits
<1>3. Sum(rows) \in Int /\ Owed(s) \in Int /\ req[s].staged \in Nat \cup {None}
  BY <1>1, <1>2, TotalIsInt, OwedIsInt, InFlight DEF Handled
<1>4. /\ Owed(s) = IF req[s].id \in DOMAIN meta /\ req[s].staged # None THEN req[s].staged ELSE 0
      /\ Owed(s)' = IF req[s].id \in DOMAIN meta' /\ req[s].staged # None THEN req[s].staged ELSE 0
  BY <1>2 DEF Owed, Same, Keeps
<1>5. CASE Displace(s)
  BY <1>1, <1>4, <1>5, DisplaceFacts, NoGain
<1>6. CASE UnlistTarget(s)
  <2>1. /\ req[s].staged = At0(rows, req[s].dst, None) /\ req[s].id \notin DOMAIN meta
        /\ req[s].id \in DOMAIN meta' /\ rows' = Drop(rows, req[s].dst)
    BY <1>1, <1>6, UnlistTargetFacts DEF Works, Form, Put
  <2>2. Sum(rows)' = Sum(rows) - At0(rows, req[s].dst, 0)
    BY <1>1, <2>1, TotalDrop
  <2>3. Owed(s)' = At0(rows, req[s].dst, 0) /\ Owed(s) = 0
    <3>1. req[s].dst \in DOMAIN rows => rows[req[s].dst] # None
      BY <1>1, DavAssumption DEF Table
    <3> QED BY <1>4, <2>1, <3>1 DEF At0
  <2>4. Owed(s)' \in Int
    BY <1>3, <1>4, <2>1
  <2>5. Balanced(s, 0)
    BY <1>1, <1>2 DEF Balanced
  <2> QED BY <1>3, <2>2, <2>3, <2>4, <2>5 DEF Books
<1>7. CASE Finish(s)
  <2>1. /\ UNCHANGED rows /\ req[s].id \notin DOMAIN meta' /\ req'[s] # None
        /\ req'[s].stage = "recount"
    BY <1>1, <1>7, FinishFacts DEF Drop, Restrict, Same
  <2>2. Owed(s)' = 0 /\ Owed(s) \in Nat /\ -Owed(s) \in Int
    BY <1>3, <1>4, <2>1
  <2>3. Balanced(s, -Owed(s))
    BY <1>1, <1>2, <2>1, <2>2 DEF Balanced
  <2> QED BY <1>3, <2>1, <2>2, <2>3 DEF Books
<1>8. CASE RestoreTarget(s)
  <2>1. /\ req[s].dst \notin DOMAIN rows /\ req[s].id \in DOMAIN meta
        /\ req[s].id \notin DOMAIN meta'
        /\ rows' = IF req[s].staged = None THEN rows ELSE Put(rows, req[s].dst, req[s].staged)
    BY <1>1, <1>2, <1>8, RestoreTargetFacts DEF Works, Form, Moving, Drop, Restrict
  <2>2. Balanced(s, 0) /\ At0(rows, req[s].dst, 0) = 0
    BY <1>1, <1>2, <2>1 DEF Balanced, At0
  <2>3. CASE req[s].staged = None
    BY <1>3, <1>4, <2>1, <2>2, <2>3 DEF Books
  <2>4. CASE req[s].staged # None
    <3>1. req[s].staged \in Nat /\ rows' = Put(rows, req[s].dst, req[s].staged)
      BY <1>3, <2>1, <2>4
    <3>2. Sum(rows)' = Sum(rows) - 0 + req[s].staged
      BY <1>1, <2>2, <3>1, TotalPut
    <3> QED BY <1>3, <1>4, <2>1, <2>2, <2>4, <3>1, <3>2 DEF Books
  <2> QED BY <2>3, <2>4
<1> QED BY <1>5, <1>6, <1>7, <1>8

LEMMA BooksMove ==
  ASSUME NEW s \in Slots, Ready(s), MoveFirst(s) \/ MoveSecond(s)
  PROVE  Books(s)
<1> USE DEF To, limits
<1>1. Base /\ Table(rows) /\ used \in Int
  BY DEF Ready, Base, Stored
<1>2. PICK p, q \in Touched(req[s]) :
        /\ req[s] # None /\ req[s].op = "move"
        /\ UNCHANGED <<meta, used>> /\ Keeps(s) /\ Same(s)
        /\ Relocate(p, q) \/ UNCHANGED rows
  BY <1>1, MoveFacts
<1>3. Owed(s)' = Owed(s)
  BY <1>2 DEF Owed, Same, Keeps
<1>4. Sum(rows)' = Sum(rows) /\ Sum(rows) \in Int /\ Owed(s) \in Int
  <2>1. CASE Relocate(p, q)
    <3>1. rows' = MoveKey(rows, p, q) /\ q \notin DOMAIN rows
      BY <2>1 DEF Relocate
    <3> QED BY <1>1, <3>1, TotalMove, TotalIsInt, OwedIsInt
  <2> QED BY <1>1, <1>2, <2>1, TotalIsInt, OwedIsInt
<1>5. Balanced(s, 0)
  BY <1>1, <1>2 DEF Balanced
<1> QED BY <1>3, <1>4, <1>5 DEF Books

LEMMA HandleBooks ==
  ASSUME NEW s \in Slots, Ready(s), Handle(s), ~Recount(s)
  PROVE  Books(s)
  BY BooksStill, BooksCharge, BooksWrite, BooksPutRegister, BooksEditRegister, BooksCopyCommit,
     BooksDisplaced, BooksMove
     DEF Handle

Recounts(s) == req[s] # None /\ req[s].stage = "recount"

Balance ==
  /\ Frugal => Sum(rows) + Sum(Debts) <= used /\ used <= Quota
  /\ Exact => used = Sum(rows) + Sum(Debts) \/ \E s \in Slots : Recounts(s)

LEMMA NoDebts ==
  ASSUME NEW f, DOMAIN f = Slots, \A s \in Slots : f[s] = 0
  PROVE  Sum(f) = 0
<1>1. IsFiniteSet(Slots) /\ \A s \in Slots : f[s] \in Int /\ f[s] = f[s] + f[s]
  BY DavAssumption
<1>2. SumFunctionOnSet(f, Slots) = SumFunctionOnSet(f, Slots) + SumFunctionOnSet(f, Slots)
  BY <1>1, SumPlus
<1>3. SumFunctionOnSet(f, Slots) \in Int
  BY <1>1, SumIsInt
<1>4. Sum(f) = SumFunctionOnSet(f, Slots)
  BY DEF Sum, SumFunction
<1>5. PICK n \in Int : n = SumFunctionOnSet(f, Slots)
  BY <1>3
<1>6. n = n + n
  BY <1>2, <1>5
<1>7. n = 0
  BY <1>6
<1> QED BY <1>4, <1>5, <1>7

LEMMA RecountStays ==
  ASSUME Base, NEW s \in Slots, Handle(s), req[s].stage = "recount"
  PROVE  Recount(s)
<1> USE DEF At
<1>1. ~(\/ PutStreamed(s) \/ PutRefused(s) \/ PutCharge(s) \/ PutRename(s) \/ PutRegister(s)
        \/ EditCharge(s) \/ EditTruncate(s) \/ EditRegister(s) \/ Fill(s))
  BY PutStreamedFacts, PutRefusedFacts, PutChargeFacts, PutRenameFacts, PutRegisterFacts,
     EditChargeFacts, EditTruncateFacts, EditRegisterFacts, FillFacts
<1>2. ~(\/ Displace(s) \/ Answer500(s) \/ Answer409(s) \/ StageRow(s) \/ UnlistTarget(s)
        \/ Finish(s) \/ RestoreTarget(s))
  BY DisplaceFacts, AnswerFacts, StageRowFacts, UnlistTargetFacts, FinishFacts, RestoreTargetFacts
<1>3. ~(MoveFirst(s) \/ MoveSecond(s) \/ CopyRead(s) \/ CopyTruncate(s) \/ CopyCommit(s))
  BY MoveFacts, CopyReadFacts, CopyTruncateFacts, CopyCommitFacts
<1> QED BY <1>1, <1>2, <1>3 DEF Handle

\* What the other requests owe is not changed by a step of this one.
LEMMA OthersOwe ==
  ASSUME Base, NEW s \in Slots, Others(s), NEW id, Beyond(meta, meta', {id}),
         \A t \in Slots \ {s} : req[t] # None => req[t].id # id
  PROVE  \A t \in Slots \ {s} : Owed(t)' = Owed(t)
<1>1. ASSUME NEW t \in Slots \ {s} PROVE Owed(t)' = Owed(t)
  <2>1. req'[t] = req[t]
    BY DEF Others
  <2>2. req[t] # None => (req[t].id \in DOMAIN meta' <=> req[t].id \in DOMAIN meta)
    BY DEF Beyond
  <2> QED BY <2>1, <2>2 DEF Owed
<1> QED BY <1>1

LEMMA HandleBalance ==
  ASSUME Base, Base', NEW s \in Slots, Ready(s), Handle(s), ~Recount(s), Balance
  PROVE  Balance'
<1>1. Frame(s) /\ Others(s) /\ UNCHANGED faults /\ req[s] # None /\ req[s].stage # "recount"
  BY HandleFrame, HandleSame, RecountStays DEF Frame, limits
<1>2. Sum(Debts)' = Sum(Debts) - Owed(s) + Owed(s)'
  <2>1. PICK id : id = req[s].id
    OBVIOUS
  <2>2. Beyond(meta, meta', {id}) /\ \A t \in Slots \ {s} : req[t] # None => req[t].id # id
    BY <1>1, <2>1 DEF Frame, Base, Numbered
  <2>3. \A t \in Slots \ {s} : Owed(t)' = Owed(t)
    BY <1>1, <2>2, OthersOwe
  <2> QED BY <2>3, DebtChange
<1>3. PICK gain \in Int : Sum(rows)' + Owed(s)' = Sum(rows) + Owed(s) + gain /\ Balanced(s, gain)
  BY HandleBooks DEF Books
<1>4. /\ Sum(rows) \in Int /\ Sum(Debts) \in Int /\ Owed(s) \in Int /\ used \in Int
      /\ Sum(rows)' \in Int /\ used' \in Int
  BY TotalIsInt, DebtsAreInt, OwedIsInt DEF Base, Stored
<1>5. Owed(s)' \in Int
  <2>1. req'[s] = None \/ (req'[s].delta \in Int /\ req'[s].staged \in Nat \cup {None})
    BY DEF Base, Requests, Handled
  <2> QED BY <2>1 DEF Owed
<1>6. Sum(rows)' + Sum(Debts)' = Sum(rows) + Sum(Debts) + gain
  BY <1>2, <1>3, <1>4, <1>5
<1>7. (Exact' <=> Exact) /\ (Frugal' <=> Frugal) /\ Quota \in Int
  BY <1>1, DavAssumption DEF Exact, Frugal, Without
<1>8. \A t \in Slots : Recounts(t) => Recounts(t)'
  BY <1>1 DEF Recounts, Others
<1>9. Balanced(s, gain)
  BY <1>3
<1> HIDE DEF Exact, Frugal
<1>10. Frugal => Sum(rows)' + Sum(Debts)' <= used' /\ used' <= Quota
  BY <1>4, <1>6, <1>7, <1>9, DebtsAreInt DEF Balance, Balanced
<1>11. Exact => used' = Sum(rows)' + Sum(Debts)' \/ \E t \in Slots : Recounts(t)'
  <2>1. CASE \E t \in Slots : Recounts(t)
    BY <1>8, <2>1
  <2>2. CASE used = Sum(rows) + Sum(Debts)
    BY <1>4, <1>6, <1>9, <2>2 DEF Balanced, Recounts
  <2> QED BY <2>1, <2>2 DEF Balance
<1> QED BY <1>7, <1>10, <1>11 DEF Balance

LEMMA RecountBalance ==
  ASSUME Calm, Base, Base', NEW s \in Slots, Recount(s), Balance
  PROVE  Balance'
<1>1. /\ "recount" \notin faults /\ "dberror" \notin faults
  BY CalmFacts
<1>2. /\ UNCHANGED <<rows, meta, faults>> /\ used' = Sum(rows) /\ Ends(s)
      /\ \A t \in Slots : ~Owing(t)
  BY <1>1, RecountFacts DEF disk, limits
<1>3. \A t \in Slots : Owed(t) = 0
  BY <1>2 DEF Owed, Owing
<1>4. \A t \in Slots : Owed(t)' = 0
  BY <1>2, <1>3 DEF Owed, Ends, Others
<1>5. Sum(Debts) = 0 /\ Sum(Debts)' = 0
  <2>1. /\ DOMAIN Debts = Slots /\ \A t \in Slots : Debts[t] = 0
        /\ DOMAIN Debts' = Slots /\ \A t \in Slots : Debts'[t] = 0
    BY <1>3, <1>4 DEF Debts
  <2>2. Sum(Debts) = 0
    BY <2>1, NoDebts
  <2>3. Sum(Debts') = 0
    BY <2>1, NoDebts
  <2> QED BY <2>2, <2>3
<1>6. Sum(rows) \in Int /\ used \in Int /\ Sum(rows)' = Sum(rows) /\ Quota \in Int
  BY <1>2, TotalIsInt, DavAssumption DEF Base, Stored
<1>7. (Exact' <=> Exact) /\ (Frugal' <=> Frugal)
  BY <1>2 DEF Exact, Frugal, Without
<1> HIDE DEF Exact, Frugal
<1> QED BY <1>2, <1>5, <1>6, <1>7 DEF Balance

\* A request that enters owes nothing, and one that deletes releases what the row says.
LEMMA RequestBalance ==
  ASSUME Base, Base', NEW s \in Slots, Request(s), Balance
  PROVE  Balance'
<1>1. /\ UNCHANGED <<meta, used, faults>>
      /\ \/ UNCHANGED rows
         \/ Recounts(s)' /\ \E p \in Paths : rows' = Drop(rows, p)
      /\ req[s] = None /\ Others(s) /\ Owed(s)' = 0
  <2> USE DEF disk, limits
  <2>1. ASSUME NEW op \in {"put", "edit", "move", "copy", "delete"},
               NEW stage \in {"stream", "charge", "displace", "begin", "recount"},
               NEW src \in Paths, NEW dst \in Paths, NEW content \in Contents \cup {None},
               Start(s, op, stage, src, dst, content), UNCHANGED meta
        PROVE  /\ req[s] = None /\ Others(s) /\ Owed(s)' = 0
               /\ stage = "recount" => Recounts(s)'
    <3>1. stage \in Stages /\ op \in {"put", "edit", "move", "copy", "delete"}
      BY DEF Stages
    <3>2. /\ req[s] = None /\ Quiet(s, op, src, dst)
          /\ ops' = ops + 1 /\ ops' \in 1..MaxOps
          /\ Others(s) /\ req'[s] \in Handled /\ req'[s] # None
          /\ req'[s].op = op /\ req'[s].stage = stage /\ req'[s].src = src /\ req'[s].dst = dst
          /\ req'[s].content = content /\ req'[s].id = ops'
          /\ req'[s].before = At0(drive, dst, None) /\ req'[s].staged = None
          /\ req'[s].existed = FALSE /\ req'[s].delta = 0
      BY <2>1, <3>1, StartFacts, Zenon
    <3> QED BY <2>1, <3>2 DEF Owed, Recounts
  <2>2. ASSUME NEW p \in Paths, NEW c \in Contents, StartPut(s, p, c) \/ StartEdit(s, p, c)
        PROVE  /\ UNCHANGED <<meta, used, faults, rows>>
               /\ req[s] = None /\ Others(s) /\ Owed(s)' = 0
    BY <2>1, <2>2 DEF StartPut, StartEdit
  <2>3. ASSUME NEW p \in Paths, NEW q \in Paths, NEW op \in {"move", "copy"},
               StartTransfer(s, op, p, q)
        PROVE  /\ UNCHANGED <<meta, used, faults, rows>>
               /\ req[s] = None /\ Others(s) /\ Owed(s)' = 0
    BY <2>1, <2>3 DEF StartTransfer
  <2>4. ASSUME NEW p \in Paths, Delete(s, p)
        PROVE  /\ UNCHANGED <<meta, used, faults>> /\ Recounts(s)' /\ rows' = Drop(rows, p)
               /\ req[s] = None /\ Others(s) /\ Owed(s)' = 0
    BY <2>1, <2>4 DEF Delete
  <2> QED BY <2>2, <2>3, <2>4 DEF Request
<1>2. Sum(Debts)' = Sum(Debts)
  <2>1. \A t \in Slots \ {s} : Owed(t)' = Owed(t)
    BY <1>1 DEF Owed, Others
  <2>2. Owed(s) = 0
    BY <1>1 DEF Owed
  <2> QED BY <1>1, <2>1, <2>2, DebtChange, DebtsAreInt
<1>3. Sum(rows) \in Int /\ Sum(Debts) \in Int /\ used \in Int
  BY TotalIsInt, DebtsAreInt DEF Base, Stored
<1>4. \A t \in Slots : Recounts(t) => Recounts(t)'
  BY <1>1 DEF Recounts, Others
<1>5. (Exact' <=> Exact) /\ (Frugal' <=> Frugal)
  BY <1>1 DEF Exact, Frugal, Without
<1> HIDE DEF Exact, Frugal
<1>6. CASE UNCHANGED rows
  BY <1>1, <1>2, <1>4, <1>5, <1>6 DEF Balance
<1>7. CASE Recounts(s)' /\ \E p \in Paths : rows' = Drop(rows, p)
  <2>1. PICK p \in Paths : rows' = Drop(rows, p)
    BY <1>7
  <2>2. Table(rows) /\ At0(rows, p, 0) \in Nat
    BY DEF Base, Stored, Table, At0
  <2>3. Sum(rows)' = Sum(rows) - At0(rows, p, 0)
    BY <2>1, <2>2, TotalDrop
  <2>4. Sum(rows)' \in Int /\ Sum(rows)' <= Sum(rows)
    BY <1>3, <2>2, <2>3
  <2>5. Frugal => Sum(rows)' + Sum(Debts)' <= used' /\ used' <= Quota
    BY <1>1, <1>2, <1>3, <2>4 DEF Balance
  <2> QED BY <1>5, <1>7, <2>5 DEF Balance
<1> QED BY <1>1, <1>6, <1>7

Account == Calm => AllWork /\ Balance

LEMMA AccountNext ==
  ASSUME Base, Kept, Account, [Next]_vars
  PROVE  Account'
<1>1. UNCHANGED faults
  BY FaultsStay
<1> SUFFICES ASSUME Calm' PROVE AllWork' /\ Balance'
  BY DEF Account
<1>2. Calm /\ AllWork /\ Balance
  BY <1>1 DEF Account, Calm, Without
<1>3. AllWork' /\ Base'
  BY <1>2, WorksNext, BaseNext
<1>4. CASE UNCHANGED vars
  <2>1. UNCHANGED <<rows, used, req, meta, faults>>
    BY <1>4 DEF vars
  <2>2. (Exact' <=> Exact) /\ (Frugal' <=> Frugal) /\ \A s \in Slots : Recounts(s)' <=> Recounts(s)
    BY <2>1 DEF Exact, Frugal, Without, Recounts
  <2>3. Debts' = Debts
    BY <2>1 DEF Debts, Owed
  <2>4. Sum(rows)' = Sum(rows) /\ Sum(Debts)' = Sum(Debts)
    BY <2>1, <2>3
  <2> HIDE DEF Exact, Frugal
  <2>5. Balance'
    BY <1>2, <2>1, <2>2, <2>4 DEF Balance
  <2> QED BY <1>3, <2>5
<1>5. ASSUME NEW s \in Slots, Request(s) PROVE Balance'
  BY <1>2, <1>3, <1>5, RequestBalance
<1>6. ASSUME NEW s \in Slots, Handle(s) PROVE Balance'
  <2>1. req[s] # None
    BY <1>6, HandleSame
  <2>2. Ready(s)
    BY <1>2, <2>1, CalmFacts DEF Ready, Kept, AllWork, Base
  <2> QED BY <1>2, <1>3, <1>6, <2>2, HandleBalance, RecountBalance
<1>7. ~Crash /\ \A s \in Slots : ~Disconnect(s)
  BY <1>2, CalmFacts DEF Crash, Disconnect
<1> QED BY <1>3, <1>4, <1>5, <1>6, <1>7 DEF Next

LEMMA AccountInit == Init => Account
<1> SUFFICES ASSUME Init PROVE Calm => AllWork /\ Balance
  BY DEF Account
<1>1. rows = FirstRows /\ used = Sum(rows) /\ Sum(rows) <= Quota
  BY DavAssumption DEF Init, Sum
<1>2. DOMAIN Debts = Slots /\ \A s \in Slots : Debts[s] = 0
  BY DEF Init, Debts, Owed
<1>3. Sum(Debts) = 0
  BY <1>2, NoDebts
<1>4. Sum(rows) \in Int
  BY BaseInit, TotalIsInt DEF Base, Stored
<1>5. Balance
  BY <1>1, <1>3, <1>4 DEF Balance
<1> QED BY <1>5, WorksInit

LEMMA Accounts == Spec => [](Base /\ Account)
<1>1. Init => Base /\ Kept /\ Account
  BY BaseInit, KeptInit, AccountInit
<1>2. Base /\ Kept /\ Account /\ [Next]_vars => (Base /\ Kept /\ Account)'
  BY BaseNext, KeptNext, AccountNext
<1> QED BY <1>1, <1>2, PTL DEF Spec

\* Whatever the requests charge, release and recount meanwhile, and also when the
\* transaction of a COPY is refused, used_mb does not exceed the quota: it covers the
\* rows and what the requests in flight owe, and it is raised only by
\* check_and_adjust_quota_tx.
THEOREM UseStaysWithinQuota == Spec => []UseWithinQuota
<1>1. Base /\ Account => UseWithinQuota
  BY CalmFacts DEF Account, Balance, UseWithinQuota, Frugal
<1> QED BY <1>1, Accounts, PTL

\* When the requests are done each file has its row, with its length, and used_mb is
\* their sum: a transfer takes its displaced target out of the table until the
\* recount, and every other request settles its own charge.
THEOREM SettledIsCounted == Spec => []SettledDriveIsCounted
<1>1. ASSUME Base, Account, \A s \in Slots : req[s] = None, Without(FaultKinds \ {"iofail"})
      PROVE  /\ rows = [p \in DOMAIN drive |-> At0(Size, drive[p], 0)]
             /\ used = Sum(rows)
  <2>1. Exact /\ Counted /\ Balance
    BY <1>1, CalmFacts DEF Account, AllWork, Exact
  <2>2. \A p \in Paths : Agrees(p)
    BY <1>1, <2>1 DEF Counted, Between
  <2>3. Table(rows) /\ Files(drive)
    BY <1>1 DEF Base, Stored
  <2>4. DOMAIN rows = DOMAIN drive
    BY <2>1, <2>2, <2>3 DEF Agrees, Table, Files
  <2>5. \A p \in DOMAIN drive : rows[p] = At0(Size, drive[p], 0)
    <3>1. ASSUME NEW p \in DOMAIN drive PROVE rows[p] = At0(Size, drive[p], 0)
      <4>1. Agrees(p)
        BY <2>2, <2>3 DEF Files
      <4>2. rows[p] = Length(p)
        BY <2>4, <4>1 DEF Agrees
      <4> QED BY <4>2 DEF Length, At0
    <3> QED BY <3>1
  <2>6. rows = [p \in DOMAIN rows |-> rows[p]]
    BY <2>3 DEF Table
  <2>7. DOMAIN Debts = Slots /\ \A s \in Slots : Debts[s] = 0
    BY <1>1 DEF Debts, Owed
  <2>8. Sum(Debts) = 0
    BY <2>7, NoDebts
  <2>9. Sum(rows) \in Int
    BY <2>3, TotalIsInt
  <2>10. used = Sum(rows)
    BY <1>1, <2>1, <2>8, <2>9 DEF Balance, Recounts
  <2> QED BY <2>4, <2>5, <2>6, <2>10
<1>2. Base /\ Account => SettledDriveIsCounted
  BY <1>1 DEF SettledDriveIsCounted
<1> QED BY <1>2, Accounts, PTL
=============================================================================

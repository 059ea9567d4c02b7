------------------------------ MODULE TrashBin ------------------------------
(***************************************************************************)
(* The trash of one user (handlers/trash.rs): restore, permanent delete,   *)
(* clearing and expiry of its entries, with the mutex of each entry, the   *)
(* rows of the tables trash and files, and used_mb.  Deletes and uploads   *)
(* appear as the steps that FsJournal and ChunkUpload show them to be.     *)
(*                                                                         *)
(* A step is what happens between two awaits, or one operation on the      *)
(* disk.  An entry is a file, or a directory whose files lie in a          *)
(* subdirectory: their rows come and go with it (DirTree has the others).  *)
(***************************************************************************)
EXTENDS Naturals, FiniteSets, Functions

CONSTANTS
  Items,     \* what may be in the drive
  Home,      \* Home[i]: the path of the item
  Dirs,      \* the items that are directories
  Parts,     \* Parts[i]: the lengths of its files
  Slots,     \* requests and tasks that run
  MaxRows,   \* bound of the model on the rows of table trash, ever
  MaxLocks,  \* TRASH_LOCKS_MAX
  MB,        \* bytes in a unit of quota
  Quota,     \* quota_mb
  MaxBreaks, \* bound of the model on crashes and dropped requests
  FaultSets, \* the sets of circumstances a behaviour may meet
  None       \* no request, no mutex, a row of a file that is not there

FaultKinds ==
  {"txfail", "iofail", "dberror", "crash", "disconnect", "overlap", "directory"}

Paths   == {Home[i] : i \in Items}
Rows    == 1..MaxRows
Mutexes == Rows \X (0..2 * Cardinality(Slots))

\* What a request or task in flight holds: its place, the rows it has read and
\* those it has still to work on, the mutex it waits for and those it has.
Request ==
  [pc     : {"recount", "ask", "wait", "locked", "checked", "moved", "remove", "forget"},
   op     : {"delete", "restore", "purge", "clear", "expire"},
   path   : Paths \cup {None},
   rows   : SUBSET Rows,
   todo   : SUBSET Rows,
   want   : Mutexes \cup {None},
   held   : SUBSET Mutexes,
   charge : Nat]

ASSUME TrashAssumption ==
  /\ MaxRows \in Nat /\ MaxLocks \in Nat /\ MB \in Nat \ {0} /\ Quota \in Nat
  /\ MaxBreaks \in Nat
  /\ Dirs \subseteq Items /\ None \notin Items
  /\ \A i \in Items :
       /\ IsFiniteSet(DOMAIN Parts[i])
       /\ \A k \in DOMAIN Parts[i] : Parts[i][k] \in Nat
  /\ \A i \in Items \ Dirs : Cardinality(DOMAIN Parts[i]) = 1
  /\ IsFiniteSet(Slots) /\ None \notin (Rows \X Nat) \cup Request
  /\ FaultSets \subseteq SUBSET FaultKinds

VARIABLES
  disk,    \* the item at each path that has one
  files,   \* the item that the row of each registered path describes
  bin,     \* the item in .trash, by the row its uuid belongs to
  trash,   \* the original path in each row of table trash
  nextId,  \* the id of the next row (AUTOINCREMENT)
  used,    \* used_mb
  locks,   \* TRASH_LOCKS: the mutex of each uuid in the map
  req,     \* req[s]: what the request in slot s holds
  faults,  \* the circumstances that may occur
  breaks   \* crashes and dropped requests so far

vars == <<disk, files, bin, trash, nextId, used, locks, req, faults, breaks>>

------------------------------------------------------------------------------
Empty        == << >>
Put(f, k, v) == [i \in DOMAIN f \cup {k} |-> IF i = k THEN v ELSE f[i]]
Drop(f, K)   == Restrict(f, DOMAIN f \ K)

Ceil(n)   == (n + MB - 1) \div MB                        \* bytes_to_mb_ceil
Charge(i) == Ceil(SumFunction(Parts[i]))                 \* dir_size
Listed(i) == IF i = None THEN 0                          \* SUM(CEIL(size_mb))
             ELSE SumFunction([k \in DOMAIN Parts[i] |-> Ceil(Parts[i][k])])
Sum(rows) == SumFunction([p \in DOMAIN rows |-> Listed(rows[p])])

At(s, pc)     == req[s] # None /\ req[s].pc = pc
Op(s, op)     == req[s] # None /\ req[s].op = op
Step(s, pc)   == req' = [req EXCEPT ![s].pc = pc]
Done(s)       == req' = [req EXCEPT ![s] = None]
Break         == breaks < MaxBreaks /\ breaks' = breaks + 1

\* A restore that has looked at its target and not yet committed or given up.
Placing(s)    == At(s, "checked") \/ At(s, "moved")

\* Requests on the path that a restore is about to fill only come with "overlap".
Quiet(path) ==
  "overlap" \in faults \/ \A s \in Slots : Placing(s) => req[s].path # path

Start(s, pc, op, rows, path) ==
  req' = [req EXCEPT ![s] =
    [pc |-> pc, op |-> op, path |-> path, rows |-> rows, todo |-> rows,
     want |-> None, held |-> {}, charge |-> 0]]

------------------------------------------------------------------------------
(* Uploads and deletes                                                     *)

\* An upload registers an item and charges each of its files.
Create(i) ==
  /\ i \in Dirs => "directory" \in faults
  /\ i \notin Range(disk) \cup Range(bin)
  /\ Home[i] \notin DOMAIN disk \cup DOMAIN files
  /\ Quiet(Home[i])
  /\ used + Listed(i) <= Quota
  /\ disk' = Put(disk, Home[i], i)
  /\ files' = Put(files, Home[i], i)
  /\ used' = used + Listed(i)
  /\ UNCHANGED <<bin, trash, nextId, locks, req, faults, breaks>>

\* delete_to_trash: the entry and its rows go to the trash, used_mb later.
Delete(s, path) ==
  /\ req[s] = None /\ path \in DOMAIN disk /\ nextId \in Rows
  /\ Quiet(path)
  /\ bin' = Put(bin, nextId, disk[path])
  /\ disk' = Drop(disk, {path})
  /\ trash' = Put(trash, nextId, path)
  /\ files' = Drop(files, {path})
  /\ nextId' = nextId + 1
  /\ Start(s, "recount", "delete", {}, path)
  /\ UNCHANGED <<used, locks, faults, breaks>>

\* delete_to_trash without a file on disk: only the rows go.
DeleteRow(s, path) ==
  /\ req[s] = None /\ path \in DOMAIN files \ DOMAIN disk
  /\ Quiet(path)
  /\ files' = Drop(files, {path})
  /\ Start(s, "recount", "delete", {}, path)
  /\ UNCHANGED <<disk, bin, trash, nextId, used, locks, faults, breaks>>

\* Mutant of Recount: used_mb is left as it is.
NoRecount(s) ==
  /\ At(s, "recount")
  /\ Done(s)
  /\ UNCHANGED <<disk, files, bin, trash, nextId, used, locks, faults, breaks>>

\* update_user_used_mb: one transaction that has the write lock before it reads.
Recount(s) ==
  /\ At(s, "recount")
  /\ \/ used' = Sum(files)
     \/ "dberror" \in faults /\ UNCHANGED used
  /\ Done(s)
  /\ UNCHANGED <<disk, files, bin, trash, nextId, locks, faults, breaks>>

------------------------------------------------------------------------------
(* The rows a request works on, and their mutexes                          *)

\* restore_trash, delete_trash_permanent: SELECT the row, before its mutex.
ReadRow(s, op, id) ==
  /\ req[s] = None /\ id \in DOMAIN trash
  /\ Start(s, "ask", op, {id}, trash[id])
  /\ UNCHANGED <<disk, files, bin, trash, nextId, used, locks, faults, breaks>>

\* clear_trash_physical: all the rows; without any, clear_trash only recounts.
ReadAll(s) ==
  /\ req[s] = None
  /\ Start(s, IF DOMAIN trash = {} THEN "recount" ELSE "ask", "clear", DOMAIN trash, None)
  /\ UNCHANGED <<disk, files, bin, trash, nextId, used, locks, faults, breaks>>

\* clean_expired_trash: the oldest rows, up to the cutoff
ReadExpired(s, id) ==
  /\ req[s] = None /\ id \in DOMAIN trash
  /\ Start(s, "ask", "expire", DOMAIN trash \cap 1..id, None)
  /\ UNCHANGED <<disk, files, bin, trash, nextId, used, locks, faults, breaks>>

\* Mutant of NextRow: the rows come in no order.
AnyRow(rows) == rows

\* The rows are worked on in the order in which the query returned them.
NextRow(rows) == {id \in rows : \A other \in rows : id <= other}

\* A mutex nobody holds or waits for: what or_insert_with makes.
Fresh(id) ==
  CHOOSE m \in {<<id, n>> : n \in 0..2 * Cardinality(Slots)} :
    \A s \in Slots : req[s] # None => m # req[s].want /\ m \notin req[s].held

\* trash_lock: a full map is emptied, whoever holds the mutexes in it
Ask(s, id) ==
  LET map == IF Cardinality(DOMAIN locks) >= MaxLocks THEN Empty ELSE locks
      m   == IF id \in DOMAIN map THEN map[id] ELSE Fresh(id) IN
  /\ At(s, "ask") /\ id \in NextRow(req[s].todo)
  /\ locks' = Put(map, id, m)
  /\ req' = [req EXCEPT ![s].pc = "wait", ![s].want = m]
  /\ UNCHANGED <<disk, files, bin, trash, nextId, used, faults, breaks>>

\* Mutant of Unlocked: the mutex lets everybody in.
AlwaysUnlocked(s, m) == TRUE

Unlocked(s, m) == \A t \in Slots \ {s} : req[t] # None => m \notin req[t].held

\* lock_owned: clear_trash goes on to the next row until it holds all of them
Acquire(s) ==
  LET r    == req[s]
      left == r.todo \ {r.want[1]}
      all  == r.op = "clear" /\ left = {} IN
  /\ At(s, "wait") /\ Unlocked(s, r.want)
  /\ req' = [req EXCEPT ![s] =
       [r EXCEPT !.held = @ \cup {r.want},
                 !.want = None,
                 !.pc   = IF r.op = "restore" THEN "locked"
                          ELSE IF r.op = "clear" /\ ~all THEN "ask" ELSE "remove",
                 !.todo = IF r.op # "clear" THEN @ ELSE IF all THEN r.rows ELSE left]]
  /\ UNCHANGED <<disk, files, bin, trash, nextId, used, locks, faults, breaks>>

------------------------------------------------------------------------------
(* restore_trash                                                           *)

\* 409: there is something at the original path.
RestoreConflict(s) ==
  /\ At(s, "locked") /\ req[s].path \in DOMAIN disk
  /\ Done(s)
  /\ UNCHANGED <<disk, files, bin, trash, nextId, used, locks, faults, breaks>>

\* Mutant of RestoreCheck: the target is not looked at.
RestoreUnchecked(s, id) ==
  /\ At(s, "locked") /\ id \in req[s].rows
  /\ Quiet(req[s].path)
  /\ req' = [req EXCEPT ![s].pc = "checked",
                        ![s].charge = IF id \in DOMAIN bin THEN Charge(bin[id]) ELSE 0]
  /\ UNCHANGED <<disk, files, bin, trash, nextId, used, locks, faults, breaks>>

\* The target is free; dir_size measures what is to be restored.
RestoreCheck(s, id) ==
  /\ At(s, "locked") /\ id \in req[s].rows
  /\ req[s].path \notin DOMAIN disk
  /\ Quiet(req[s].path)
  /\ req' = [req EXCEPT ![s].pc = "checked",
                        ![s].charge = IF id \in DOMAIN bin THEN Charge(bin[id]) ELSE 0]
  /\ UNCHANGED <<disk, files, bin, trash, nextId, used, locks, faults, breaks>>

\* renameat replaces whatever has come to the target.
RestoreRename(s, id) ==
  /\ At(s, "checked") /\ id \in req[s].rows \cap DOMAIN bin
  /\ disk' = Put(disk, req[s].path, bin[id])
  /\ bin' = Drop(bin, {id})
  /\ Step(s, "moved")
  /\ UNCHANGED <<files, trash, nextId, used, locks, faults, breaks>>

\* Another request has removed the file since the row was read.
RestoreGone(s) ==
  /\ At(s, "checked") /\ req[s].rows \cap DOMAIN bin = {}
  /\ Done(s)
  /\ UNCHANGED <<disk, files, bin, trash, nextId, used, locks, faults, breaks>>

\* What is at the target now; a file that is gone gets a row of length 0.
Found(path) == IF path \in DOMAIN disk THEN disk[path] ELSE None

\* The row of a file must be new; those of a directory are inserted or ignored.
Registrable(path) == path \in DOMAIN files => Found(path) \in Dirs

\* Mutant of RestoreCommit: the quota is checked and not charged.
RestoreUncharged(s, id) ==
  LET path == req[s].path IN
  /\ At(s, "moved") /\ id \in req[s].rows
  /\ used + req[s].charge <= Quota
  /\ Registrable(path)
  /\ files' = Put(files, path, Found(path))
  /\ trash' = Drop(trash, {id})
  /\ Done(s)
  /\ UNCHANGED <<disk, bin, nextId, used, locks, faults, breaks>>

\* Mutant of RestoreCommit: the row of the trash stays.
RestoreKeepingRow(s, id) ==
  LET path == req[s].path IN
  /\ At(s, "moved") /\ id \in req[s].rows
  /\ used + req[s].charge <= Quota
  /\ Registrable(path)
  /\ files' = Put(files, path, Found(path))
  /\ used' = used + req[s].charge
  /\ Done(s)
  /\ UNCHANGED <<disk, bin, trash, nextId, locks, faults, breaks>>

\* One transaction: quota, rows of table files, row of table trash.
RestoreCommit(s, id) ==
  LET path == req[s].path IN
  /\ At(s, "moved") /\ id \in req[s].rows
  /\ used + req[s].charge <= Quota
  /\ Registrable(path)
  /\ files' = Put(files, path, Found(path))
  /\ used' = used + req[s].charge
  /\ trash' = Drop(trash, {id})
  /\ Done(s)
  /\ UNCHANGED <<disk, bin, nextId, locks, faults, breaks>>

\* Mutant of RestoreReject: what comes back is not looked for.
RejectBlindly(s, id) ==
  LET path == req[s].path IN
  /\ At(s, "moved") /\ id \in req[s].rows
  /\ \/ used + req[s].charge > Quota
     \/ ~Registrable(path)
     \/ "txfail" \in faults
  /\ bin' = Put(bin, id, Found(path))
  /\ disk' = Drop(disk, {path})
  /\ Done(s)
  /\ UNCHANGED <<files, trash, nextId, used, locks, faults, breaks>>

\* Mutant of RestoreReject: the file stays where it was put.
RejectInPlace(s, id) ==
  /\ At(s, "moved") /\ id \in req[s].rows
  /\ \/ used + req[s].charge > Quota
     \/ ~Registrable(req[s].path)
     \/ "txfail" \in faults
  /\ Done(s)
  /\ UNCHANGED <<disk, files, bin, trash, nextId, used, locks, faults, breaks>>

\* The transaction is refused: what is at the target goes back to .trash.
RestoreReject(s, id) ==
  LET path == req[s].path IN
  /\ At(s, "moved") /\ id \in req[s].rows
  /\ \/ used + req[s].charge > Quota
     \/ ~Registrable(path)
     \/ "txfail" \in faults
  /\ bin' = IF path \in DOMAIN disk THEN Put(bin, id, disk[path]) ELSE bin
  /\ disk' = Drop(disk, {path})
  /\ Done(s)
  /\ UNCHANGED <<files, trash, nextId, used, locks, faults, breaks>>

------------------------------------------------------------------------------
(* Permanent delete, clearing, expiry                                      *)

\* clear_trash removes every file before any row; the others row by row.
Remove(s, id) ==
  LET r    == req[s]
      left == r.todo \ {id}
      more == r.op = "clear" /\ left # {} IN
  /\ At(s, "remove") /\ id \in NextRow(r.todo)
  /\ bin' = Drop(bin, {id})
  /\ req' = [req EXCEPT ![s] =
       [r EXCEPT !.pc   = IF more THEN "remove" ELSE "forget",
                 !.todo = IF r.op = "clear" THEN left ELSE @]]
  /\ UNCHANGED <<disk, files, trash, nextId, used, locks, faults, breaks>>

\* The expiry goes on with the next row, without the mutex of this one.
NextExpired(s, id) ==
  LET left == req[s].todo \ {id} IN
  req' = [req EXCEPT ![s] = IF left = {} THEN None
            ELSE [@ EXCEPT !.pc = "ask", !.todo = left, !.held = {}]]

\* The file cannot be removed: its row stays, and clear_trash deletes no row.
RemoveFails(s, id) ==
  /\ "iofail" \in faults
  /\ At(s, "remove") /\ id \in NextRow(req[s].todo) \cap DOMAIN bin
  /\ IF req[s].op = "expire" THEN NextExpired(s, id) ELSE Done(s)
  /\ UNCHANGED <<disk, files, bin, trash, nextId, used, locks, faults, breaks>>

\* delete_trash_permanent keeps its mutex while it recounts.
ForgetOne(s, id) ==
  /\ At(s, "forget") /\ req[s].op # "clear" /\ id \in NextRow(req[s].todo)
  /\ \/ trash' = Drop(trash, {id})
     \/ "dberror" \in faults /\ UNCHANGED trash
  /\ IF req[s].op = "expire" THEN NextExpired(s, id) ELSE Step(s, "recount")
  /\ UNCHANGED <<disk, files, bin, nextId, used, locks, faults, breaks>>

\* clear_trash_physical: one transaction; then clear_trash recounts, the
\* fragment does not.
ForgetAll(s) ==
  /\ At(s, "forget") /\ req[s].op = "clear"
  /\ trash' = Drop(trash, req[s].rows)
  /\ \/ req' = [req EXCEPT ![s].pc = "recount", ![s].held = {}]
     \/ Done(s)
  /\ UNCHANGED <<disk, files, bin, nextId, used, locks, faults, breaks>>

\* The transaction of clear_trash_physical fails: the rows stay.
ForgetFails(s) ==
  /\ "dberror" \in faults /\ At(s, "forget") /\ req[s].op = "clear"
  /\ Done(s)
  /\ UNCHANGED <<disk, files, bin, trash, nextId, used, locks, faults, breaks>>

------------------------------------------------------------------------------
(* Crashes and dropped requests                                            *)

\* The mutexes are in memory.
Crash ==
  /\ "crash" \in faults /\ Break
  /\ req' = [s \in Slots |-> None]
  /\ locks' = Empty
  /\ UNCHANGED <<disk, files, bin, trash, nextId, used, faults>>

\* The future of a request is dropped at an await, its guards with it.
Disconnect(s) ==
  /\ "disconnect" \in faults /\ Break
  /\ \E pc \in {"ask", "wait", "moved", "forget", "recount"} : At(s, pc)
  /\ req[s].op # "expire"
  /\ Done(s)
  /\ UNCHANGED <<disk, files, bin, trash, nextId, used, locks, faults>>

------------------------------------------------------------------------------
Init ==
  /\ disk = Empty /\ files = Empty
  /\ bin = Empty /\ trash = Empty
  /\ nextId = 1
  /\ used = 0
  /\ locks = Empty
  /\ req = [s \in Slots |-> None]
  /\ faults \in FaultSets
  /\ breaks = 0

Drive(s) ==
  \/ \E path \in Paths : Delete(s, path) \/ DeleteRow(s, path)
  \/ Recount(s)

Enter(s) ==
  \/ \E id \in Rows : ReadRow(s, "restore", id) \/ ReadRow(s, "purge", id)
  \/ ReadAll(s)
  \/ \E id \in Rows : ReadExpired(s, id)
  \/ \E id \in Rows : Ask(s, id)
  \/ Acquire(s)

RestoreStep(s) ==
  \/ RestoreConflict(s) \/ RestoreGone(s)
  \/ \E id \in Rows : \/ RestoreCheck(s, id) \/ RestoreRename(s, id)
                      \/ RestoreCommit(s, id) \/ RestoreReject(s, id)

RemoveStep(s) ==
  \/ \E id \in Rows : Remove(s, id) \/ RemoveFails(s, id) \/ ForgetOne(s, id)
  \/ ForgetAll(s) \/ ForgetFails(s)

Next ==
  \/ \E i \in Items : Create(i)
  \/ \E s \in Slots : Drive(s) \/ Enter(s) \/ RestoreStep(s) \/ RemoveStep(s) \/ Disconnect(s)
  \/ Crash

Spec == Init /\ [][Next]_vars

------------------------------------------------------------------------------
(* Properties.                                                             *)

Partial(f, S, T) == DOMAIN f \subseteq S /\ Range(f) \subseteq T

TypeOK ==
  /\ Partial(disk, Paths, Items) /\ Partial(files, Paths, Items \cup {None})
  /\ Partial(bin, Rows, Items) /\ Partial(trash, Rows, Paths)
  /\ nextId \in 1..(MaxRows + 1)
  /\ used \in Nat
  /\ Partial(locks, Rows, Mutexes)
  /\ req \in [Slots -> Request \cup {None}]
  /\ \A s \in Slots : req[s] # None => req[s].todo \subseteq req[s].rows
  /\ faults \in FaultSets /\ breaks \in 0..MaxBreaks

Without(kinds) == faults \cap kinds = {}

Holds(s, id) == req[s] # None /\ \E m \in req[s].held : m[1] = id

\* Every file in .trash has its row, whatever meets it: a file without one could
\* be neither restored nor removed, and a restore that is refused after its row
\* went would leave one (the purpose of trash_lock, P2-14 and P1-8).
BinIsListed == DOMAIN bin \subseteq DOMAIN trash

\* A row whose file is not there belongs to a request that holds its mutex.
ListedIsThere ==
  Without({"iofail", "dberror", "crash", "disconnect", "overlap"}) =>
    \A id \in DOMAIN trash \ DOMAIN bin : \E s \in Slots : Holds(s, id)

\* The rows of table files describe what is on disk; a restore that is refused
\* takes back what it put there.
DiskIsRegistered ==
  Without({"crash", "disconnect", "overlap"}) =>
    /\ \A path \in DOMAIN files : path \in DOMAIN disk /\ disk[path] = files[path]
    /\ \A path \in DOMAIN disk \ DOMAIN files :
         \E s \in Slots : At(s, "moved") /\ req[s].path = path

\* No restore replaces what is in the drive, and no purge, clearing or expiry
\* that started with an old row takes what was restored since.
NothingIsReplaced ==
  [][Without({"overlap"}) => Range(disk) \subseteq Range(disk') \cup Range(bin')]_vars

\* No set of requests waits for each other: clear_trash takes its mutexes in
\* the order of the rows while the others hold one at a time.
NoCircularWait ==
  \A S \in SUBSET {s \in Slots : At(s, "wait")} :
    S # {} => \E s \in S : \A t \in S : req[s].want \notin req[t].held

\* The quota covers the registered files at every moment, though a restore reads
\* it after its rename and a delete recounts it after its commit.
UsedCoversFiles ==
  Without({"overlap", "directory"}) => Sum(files) <= used /\ used <= Quota

\* When nothing runs used_mb is what the recount would find, whichever increments
\* and recounts met.
UsedIsTheSum ==
  (\A s \in Slots : req[s] = None)
    /\ Without({"dberror", "crash", "disconnect", "overlap", "directory"})
    => used = Sum(files)

=============================================================================

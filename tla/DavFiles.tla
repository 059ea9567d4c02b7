------------------------------ MODULE DavFiles ------------------------------
(***************************************************************************)
(* The files that a WebDAV client of one user writes, moves, copies and    *)
(* deletes (handlers/dav/ops.rs), those that the web editor saves          *)
(* (save_file_content_handler of handlers/media.rs), and what they cost in *)
(* used_mb.                                                                *)
(*                                                                         *)
(* Directories are there already (DirTree has trees).  rename_core,        *)
(* move_core and delete_to_trash are one step each: FsJournal has their    *)
(* steps.  A step is what happens between two awaits, or one operation on  *)
(* the disk.  Sizes are whole MB: TrashBin has the rounding.               *)
(***************************************************************************)
EXTENDS Integers, FiniteSets, Functions

CONSTANTS
  Dirs, Names,  \* a path is a directory and a name
  Contents,     \* what a file may hold
  Size,         \* Size[c]: its size
  First,        \* the files of the drive at first
  Quota,        \* quota_mb
  Slots,        \* requests that run at once
  MaxOps,       \* bound of the model on requests and breaks together
  MaxBreaks,    \* bound of the model on crashes and dropped requests
  FaultSets,    \* the sets of circumstances a behaviour may meet
  None          \* no request, no content

FaultKinds ==
  {"iofail", "dberror", "txfail", "fullcopy", "missing", "recount", "overlap", "crash", "disconnect"}

Paths == Dirs \X Names
Torn  == "torn"  \* a file that is being written in place, or was when its writer died

\* What a request in flight holds.
Stages ==
  {"stream", "charge", "write", "filling", "register", "displace", "error", "stage",
   "unlist", "begin", "second", "finish", "restore", "refused", "recount"}
Handled ==
  [op : {"put", "edit", "move", "copy", "delete"}, stage : Stages, src : Paths, dst : Paths,
   content : Contents \cup {Torn, None}, id : 1..MaxOps, existed : BOOLEAN,
   staged : Nat \cup {None}, delta : Int, before : Contents \cup {Torn, None}]

\* The rows of the first files, which the quota has room for.
FirstRows == [p \in DOMAIN First |-> Size[First[p]]]

ASSUME DavAssumption ==
  /\ Size \in [Contents -> Nat] /\ Quota \in Nat /\ MaxOps \in Nat /\ MaxBreaks \in Nat
  /\ DOMAIN First \subseteq Paths /\ Range(First) \subseteq Contents
  /\ IsFiniteSet(DOMAIN First) /\ SumFunction(FirstRows) <= Quota
  /\ IsFiniteSet(Slots)
  /\ None \notin Contents /\ Torn \notin Contents /\ None \notin Nat \cup Handled
  /\ FaultSets \subseteq SUBSET FaultKinds

VARIABLES
  drive,   \* uploads/{user}: what the file at each path holds
  rows,    \* table files: the size in the row of each path that has one
  used,    \* used_mb
  disp,    \* displaced targets, by the uuid of their request
  meta,    \* .dav_disp/{uuid}.json: the path of the target that was displaced
  dispDir, \* whether uploads/uploads/.dav_disp exists
  req,     \* req[s]: the request in slot s
  ops,     \* requests so far; each takes its number as its uuid
  faults,  \* the circumstances that may occur
  breaks   \* crashes and dropped requests so far

disk   == <<drive, disp, meta, dispDir>>
limits == <<faults, breaks>>
vars   == <<drive, rows, used, disp, meta, dispDir, req, ops, faults, breaks>>

------------------------------------------------------------------------------
Empty        == << >>
Put(f, k, v) == [i \in DOMAIN f \cup {k} |-> IF i = k THEN v ELSE f[i]]
Drop(f, k)   == Restrict(f, DOMAIN f \ {k})
At0(f, k, z) == IF k \in DOMAIN f THEN f[k] ELSE z
MoveKey(f, k, l) == IF k \in DOMAIN f THEN Put(Drop(f, k), l, f[k]) ELSE f

Sum(f)    == SumFunction(f)                            \* SUM(CEIL(size_mb))
Length(p) == At0(Size, At0(drive, p, None), 0)         \* its length on disk

At(s, op, stage) == req[s] # None /\ req[s].op = op /\ req[s].stage = stage
Step(s, stage)   == req' = [req EXCEPT ![s].stage = stage]
Done(s)          == req' = [req EXCEPT ![s] = None]
Break            == breaks < MaxBreaks /\ ops + breaks < MaxOps /\ breaks' = breaks + 1

\* A MOVE into another directory takes two renames: the first goes here.
Midway(src, dst) == <<dst[1], src[2]>>
Touched(r)       == {r.src, r.dst, Midway(r.src, r.dst)}

\* Requests touch different paths; with "overlap" PUTs may share theirs (what a
\* rename does to an overlapping request is in FsJournal).
Quiet(s, op, src, dst) ==
  \A t \in {t \in Slots : req[t] # None} \ {s} :
    \/ {src, dst, Midway(src, dst)} \cap Touched(req[t]) = {}
    \/ "overlap" \in faults /\ op = "put" /\ req[t].op = "put"

Start(s, op, stage, src, dst, content) ==
  /\ req[s] = None /\ ops + breaks < MaxOps
  /\ Quiet(s, op, src, dst)
  /\ ops' = ops + 1
  /\ req' = [req EXCEPT ![s] =
       [op |-> op, stage |-> stage, src |-> src, dst |-> dst, content |-> content,
        id |-> ops + 1, existed |-> FALSE, staged |-> None, delta |-> 0,
        before |-> At0(drive, dst, None)]]

\* used_mb holds what the table does not: a charge without its row yet, or the
\* row of a displaced target.
Owing(s) ==
  /\ req[s] # None
  /\ \/ req[s].op \in {"put", "edit"} /\ req[s].stage \in {"write", "filling", "register"}
     \/ req[s].id \in DOMAIN meta

------------------------------------------------------------------------------
(* PUT: a temporary file, the quota, the rename, the row.                  *)

StartPut(s, path, content) ==
  /\ Start(s, "put", "stream", path, path, content)
  /\ UNCHANGED <<disk, rows, used, limits>>

\* The body is in the temporary file and has passed the content policy.
PutStreamed(s) ==
  /\ At(s, "put", "stream")
  /\ req' = [req EXCEPT ![s].stage = "charge", ![s].existed = req[s].dst \in DOMAIN drive]
  /\ UNCHANGED <<disk, rows, used, ops, limits>>

\* Mutant of PutRefused: the file that was to be replaced is removed as well.
PutRefusedRemoving(s) ==
  /\ At(s, "put", "stream") \/ At(s, "put", "charge")
  /\ Done(s)
  /\ drive' = Drop(drive, req[s].dst)
  /\ UNCHANGED <<disp, meta, dispDir, rows, used, ops, limits>>

\* A cut body, the content policy, or SQLITE_BUSY_SNAPSHOT in the transaction.
PutRefused(s) ==
  /\ At(s, "put", "stream") \/ At(s, "put", "charge")
  /\ Done(s)
  /\ UNCHANGED <<disk, rows, used, ops, limits>>

\* Mutant of Adjust: the quota is not looked at.
AdjustUnchecked(s, delta, stage) ==
  /\ used' = used + delta
  /\ req' = [req EXCEPT ![s].stage = stage, ![s].delta = delta]

\* check_and_adjust_quota_tx
Adjust(s, delta, stage) ==
  IF used + delta > Quota
  THEN Done(s) /\ UNCHANGED used
  ELSE /\ used' = used + delta
       /\ req' = [req EXCEPT ![s].stage = stage, ![s].delta = delta]

\* Mutant of PutCharge: the size of the file that is replaced is released
\* twice over, by its row and by its length on disk.
PutChargeTwice(s) ==
  /\ At(s, "put", "charge")
  /\ LET old == IF req[s].existed THEN At0(rows, req[s].dst, 0) + Length(req[s].dst) ELSE 0
     IN  Adjust(s, Size[req[s].content] - old, "write")
  /\ UNCHANGED <<disk, rows, ops, limits>>

PutCharge(s) ==
  /\ At(s, "put", "charge")
  /\ LET old == IF req[s].existed THEN At0(rows, req[s].dst, 0) ELSE 0
     IN  Adjust(s, Size[req[s].content] - old, "write")
  /\ UNCHANGED <<disk, rows, ops, limits>>

PutRename(s) ==
  /\ At(s, "put", "write")
  /\ \/ drive' = Put(drive, req[s].dst, req[s].content) /\ Step(s, "register")
     \/ "iofail" \in faults /\ UNCHANGED drive /\ Step(s, "recount")
  /\ UNCHANGED <<disp, meta, dispDir, rows, used, ops, limits>>

\* UPDATE of the row if there was a file, or INSERT, which UNIQUE may refuse.
PutRegister(s) ==
  LET p == req[s].dst
  IN  /\ At(s, "put", "register")
      /\ \/ /\ req[s].existed \/ p \notin DOMAIN rows
            /\ rows' = IF req[s].existed /\ p \notin DOMAIN rows
                       THEN rows ELSE Put(rows, p, Size[req[s].content])
            /\ Done(s)
         \/ /\ (~req[s].existed /\ p \in DOMAIN rows) \/ "dberror" \in faults
            /\ UNCHANGED rows
            /\ Step(s, "recount")
      /\ UNCHANGED <<disk, used, ops, limits>>

\* update_user_used_mb.  It has the write lock before it reads, yet it forgets what
\* the others are owing: that comes with "recount".
Recount(s) ==
  /\ req[s] # None /\ req[s].stage = "recount"
  /\ "recount" \in faults \/ \A t \in Slots : ~Owing(t)
  /\ \/ used' = Sum(rows)
     \/ "dberror" \in faults /\ UNCHANGED used
  /\ Done(s)
  /\ UNCHANGED <<disk, rows, ops, limits>>

------------------------------------------------------------------------------
(* The editor saves in place.                                              *)

\* The length is read from the disk, before the transaction.  A path without a
\* file or a row comes with "missing": the save creates the one and never the
\* other, and what it charges or releases the table does not count.
StartEdit(s, path, content) ==
  /\ path \in DOMAIN drive \cap DOMAIN rows \/ "missing" \in faults
  /\ Start(s, "edit", "charge", path, path, content)
  /\ UNCHANGED <<disk, rows, used, limits>>

EditCharge(s) ==
  /\ At(s, "edit", "charge")
  /\ Adjust(s, Size[req[s].content] - At0(Size, req[s].before, 0), "write")
  /\ UNCHANGED <<disk, rows, ops, limits>>

EditTruncate(s) ==
  /\ At(s, "edit", "write")
  /\ \/ drive' = Put(drive, req[s].dst, Torn) /\ Step(s, "filling")
     \/ "iofail" \in faults /\ UNCHANGED drive /\ Step(s, "recount")
  /\ UNCHANGED <<disp, meta, dispDir, rows, used, ops, limits>>

\* The rest of the write of an editor or of a copy.
Fill(s) ==
  /\ req[s] # None /\ req[s].stage = "filling"
  /\ drive' = Put(drive, req[s].dst, req[s].content)
  /\ Step(s, "register")
  /\ UNCHANGED <<disp, meta, dispDir, rows, used, ops, limits>>

EditRegister(s) ==
  LET p == req[s].dst
  IN  /\ At(s, "edit", "register")
      /\ rows' = IF p \in DOMAIN rows THEN Put(rows, p, At0(Size, At0(drive, p, None), 0)) ELSE rows
      /\ Done(s)
      /\ UNCHANGED <<disk, used, ops, limits>>

------------------------------------------------------------------------------
(* MOVE and COPY.                                                          *)

\* Overwrite: F over an existing target is answered 412 and changes nothing.
StartTransfer(s, op, src, dst) ==
  /\ src # dst
  /\ Start(s, op, IF dst \in DOMAIN drive THEN "displace" ELSE "begin", src, dst, None)
  /\ UNCHANGED <<disk, rows, used, limits>>

\* The sandbox resolves uploads/.dav_disp below uploads, where it is not, unless
\* a user "uploads" has made it: the rename fails and the answer is 500.
Displace(s) ==
  /\ req[s] # None /\ req[s].stage = "displace"
  /\ IF dispDir /\ req[s].dst \in DOMAIN drive
     THEN /\ disp' = Put(disp, req[s].id, drive[req[s].dst])
          /\ drive' = Drop(drive, req[s].dst)
          /\ Step(s, "stage")
     ELSE /\ UNCHANGED <<disp, drive>>
          /\ Step(s, "error")
  /\ UNCHANGED <<meta, dispDir, rows, used, ops, limits>>

Answer500(s) ==
  /\ req[s] # None /\ req[s].stage = "error"
  /\ Done(s)
  /\ UNCHANGED <<disk, rows, used, ops, limits>>

StageRow(s) ==
  /\ req[s] # None /\ req[s].stage = "stage"
  /\ req' = [req EXCEPT ![s].stage = "unlist", ![s].staged = At0(rows, req[s].dst, None)]
  /\ UNCHANGED <<disk, rows, used, ops, limits>>

\* DELETE of the row, and the record for the next start.
UnlistTarget(s) ==
  /\ req[s] # None /\ req[s].stage = "unlist"
  /\ rows' = Drop(rows, req[s].dst)
  /\ meta' = Put(meta, req[s].id, req[s].dst)
  /\ Step(s, "begin")
  /\ UNCHANGED <<drive, disp, dispDir, used, ops, limits>>

\* rename_core and move_core: rows and drive together, or neither.
Relocate(src, dst) ==
  /\ src \in DOMAIN drive /\ dst \notin DOMAIN drive \cup DOMAIN rows
  /\ drive' = MoveKey(drive, src, dst)
  /\ rows' = MoveKey(rows, src, dst)

Refused(s) == Step(s, IF req[s].id \in DOMAIN meta THEN "restore" ELSE "refused")

\* move_core if the directory changes, and rename_core if the name does.
MoveLeg(s, src, dst, next) ==
  /\ \/ Relocate(src, dst) /\ Step(s, next)
     \/ /\ \/ src \notin DOMAIN drive
           \/ dst \in DOMAIN drive \cup DOMAIN rows
           \/ "dberror" \in faults
        /\ UNCHANGED <<drive, rows>>
        /\ Refused(s)
  /\ UNCHANGED <<disp, meta, dispDir, used, ops, limits>>

MoveFirst(s) ==
  LET src == req[s].src dst == req[s].dst mid == Midway(src, dst)
  IN  /\ At(s, "move", "begin")
      /\ IF mid = src THEN MoveLeg(s, src, dst, "finish")
         ELSE MoveLeg(s, src, mid, IF mid = dst THEN "finish" ELSE "second")

MoveSecond(s) ==
  /\ At(s, "move", "second")
  /\ MoveLeg(s, Midway(req[s].src, req[s].dst), req[s].dst, "finish")

\* copy_recursive: SELECT.  A source without a row is copied as nothing.
CopyRead(s) ==
  /\ At(s, "copy", "begin")
  /\ LET found == req[s].src \in DOMAIN rows
     IN  req' = [req EXCEPT ![s].stage = IF found THEN "write" ELSE "finish",
                            ![s].delta = At0(rows, req[s].src, 0)]
  /\ UNCHANGED <<disk, rows, used, ops, limits>>

CopyTruncate(s) ==
  /\ At(s, "copy", "write")
  /\ IF req[s].src \in DOMAIN drive
     THEN /\ drive' = Put(drive, req[s].dst, Torn)
          /\ req' = [req EXCEPT ![s].stage = "filling", ![s].content = drive[req[s].src]]
     ELSE UNCHANGED drive /\ Refused(s)
  /\ UNCHANGED <<disp, meta, dispDir, rows, used, ops, limits>>

\* The transaction reads first: if another one commits before its INSERT
\* ("txfail") the errors are ignored and nothing is registered.  Over the quota
\* ("fullcopy") remove_dir_all does not remove the file that was copied.
CopyCommit(s) ==
  /\ At(s, "copy", "register")
  /\ \/ /\ used + req[s].delta <= Quota
        /\ rows' = IF req[s].dst \in DOMAIN rows THEN rows ELSE Put(rows, req[s].dst, req[s].delta)
        /\ used' = used + req[s].delta
        /\ Step(s, "finish")
     \/ /\ "txfail" \in faults /\ used + req[s].delta <= Quota
        /\ UNCHANGED <<rows, used>>
        /\ Step(s, "finish")
     \/ /\ "fullcopy" \in faults /\ used + req[s].delta > Quota
        /\ UNCHANGED <<rows, used>>
        /\ Refused(s)
  /\ UNCHANGED <<disk, ops, limits>>

\* The displaced file stays in .dav_disp (remove_dir_all), its record goes.
Finish(s) ==
  /\ req[s] # None /\ req[s].stage = "finish"
  /\ meta' = Drop(meta, req[s].id)
  /\ Step(s, "recount")
  /\ UNCHANGED <<drive, disp, dispDir, rows, used, ops, limits>>

\* Mutant of RestoreTarget: the record stays.
RestoreTargetKeepingRecord(s) ==
  /\ req[s] # None /\ req[s].stage = "restore"
  /\ drive' = Put(drive, req[s].dst, disp[req[s].id])
  /\ disp' = Drop(disp, req[s].id)
  /\ Step(s, "refused")
  /\ UNCHANGED <<meta, dispDir, rows, used, ops, limits>>

\* The answer is 409: the target comes back, over whatever is there, and its row.
RestoreTarget(s) ==
  /\ req[s] # None /\ req[s].stage = "restore"
  /\ drive' = Put(drive, req[s].dst, disp[req[s].id])
  /\ disp' = Drop(disp, req[s].id)
  /\ rows' = IF req[s].staged = None \/ req[s].dst \in DOMAIN rows
             THEN rows ELSE Put(rows, req[s].dst, req[s].staged)
  /\ meta' = Drop(meta, req[s].id)
  /\ Step(s, "refused")
  /\ UNCHANGED <<dispDir, used, ops, limits>>

Answer409(s) ==
  /\ req[s] # None /\ req[s].stage = "refused"
  /\ Done(s)
  /\ UNCHANGED <<disk, rows, used, ops, limits>>

------------------------------------------------------------------------------
\* DELETE: delete_to_trash, then the recount.
Delete(s, path) ==
  /\ path \in DOMAIN drive
  /\ Start(s, "delete", "recount", path, path, None)
  /\ drive' = Drop(drive, path)
  /\ rows' = Drop(rows, path)
  /\ UNCHANGED <<disp, meta, dispDir, used, limits>>

\* A handler future is dropped at an await; a write in place runs to its end.
Disconnect(s) ==
  /\ "disconnect" \in faults /\ Break
  /\ req[s] # None /\ req[s].stage \notin {"filling", "displace", "error", "refused"}
  /\ Done(s)
  /\ UNCHANGED <<disk, rows, used, ops, faults>>

\* A crash, and recover_dav_disp at the next start: it looks for the displaced
\* target under another name, so it never finds it; the record goes if the
\* target is there and stays otherwise.
Crash ==
  /\ "crash" \in faults /\ Break
  /\ req' = [s \in Slots |-> None]
  /\ meta' = Restrict(meta, {u \in DOMAIN meta : meta[u] \notin DOMAIN drive})
  /\ UNCHANGED <<drive, disp, dispDir, rows, used, ops, faults>>

------------------------------------------------------------------------------
Init ==
  /\ drive = First
  /\ rows = FirstRows
  /\ used = Sum(rows)
  /\ disp = Empty /\ meta = Empty
  /\ dispDir \in BOOLEAN
  /\ req = [s \in Slots |-> None]
  /\ ops = 0
  /\ faults \in FaultSets
  /\ breaks = 0

Request(s) ==
  \/ \E p \in Paths, c \in Contents : StartPut(s, p, c) \/ StartEdit(s, p, c)
  \/ \E p, q \in Paths, op \in {"move", "copy"} : StartTransfer(s, op, p, q)
  \/ \E p \in Paths : Delete(s, p)

Handle(s) ==
  \/ PutStreamed(s) \/ PutRefused(s) \/ PutCharge(s) \/ PutRename(s) \/ PutRegister(s)
  \/ EditCharge(s) \/ EditTruncate(s) \/ EditRegister(s) \/ Fill(s)
  \/ Displace(s) \/ Answer500(s) \/ StageRow(s) \/ UnlistTarget(s)
  \/ MoveFirst(s) \/ MoveSecond(s) \/ CopyRead(s) \/ CopyTruncate(s) \/ CopyCommit(s)
  \/ Finish(s) \/ RestoreTarget(s) \/ Answer409(s) \/ Recount(s)

Next ==
  \/ \E s \in Slots : Request(s) \/ Handle(s) \/ Disconnect(s)
  \/ Crash

Spec == Init /\ [][Next]_vars

------------------------------------------------------------------------------
(* Properties.                                                             *)

Without(kinds) == faults \cap kinds = {}

TypeOK ==
  /\ DOMAIN drive \subseteq Paths /\ Range(drive) \subseteq Contents \cup {Torn}
  /\ DOMAIN rows \subseteq Paths /\ Range(rows) \subseteq Nat
  /\ used \in Int
  /\ DOMAIN meta \subseteq DOMAIN disp /\ DOMAIN disp \subseteq 1..MaxOps
  /\ Range(meta) \subseteq Paths /\ Range(disp) \subseteq Contents \cup {Torn}
  /\ req \in [Slots -> Handled \cup {None}]
  /\ ops \in 0..MaxOps /\ breaks \in 0..MaxBreaks
  /\ faults \in FaultSets /\ dispDir \in BOOLEAN

Refuses(s) ==
  PutRefused(s) \/ Answer500(s) \/ Answer409(s) \/ (PutCharge(s) /\ req'[s] = None)

\* A request that is refused, at whatever point and for whatever reason, leaves
\* its target with the content it had: the order of the policy, the quota and the
\* rename of a PUT, and the displaced target of a MOVE or COPY.
RefusedKeepsTarget ==
  [][\A s \in Slots : Without({"overlap"}) /\ Refuses(s) =>
       req[s].before \in {None, At0(drive', req[s].dst, None)}]_vars

\* When nothing runs each file has its row, with its size, and used_mb is their
\* sum, whichever requests on other paths charged, released and recounted meanwhile.
SettledDriveIsCounted ==
  (\A s \in Slots : req[s] = None) /\ Without(FaultKinds \ {"iofail"}) =>
    /\ rows = [p \in DOMAIN drive |-> At0(Size, drive[p], 0)]
    /\ used = Sum(rows)

\* The quota holds at every moment, also when a COPY ends without its row: what one
\* request releases another may charge at once, and the release is not taken back
\* ("iofail" and "crash" break that, and a save to a file without a row, "missing").
UseWithinQuota == Without(FaultKinds \ {"txfail", "fullcopy"}) => used <= Quota

\* A target that may be overwritten is overwritten.
OverwriteIsPossible == \A s \in Slots : ~(req[s] # None /\ req[s].stage = "error")
=============================================================================

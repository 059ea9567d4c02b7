------------------------------ MODULE FsJournal ------------------------------
(***************************************************************************)
(* The intent journal that makes rename, move and delete-to-trash survive  *)
(* a crash between the file system and the database: rename_core,          *)
(* move_core and delete_to_trash (file_ops/core.rs), the journal and its   *)
(* startup replay (journal.rs), the listing that purges rows whose file is *)
(* missing (reconcile_files_on_disk) and, as the operation that brings new *)
(* names into the drive, the namespace part of merge_chunks (upload.rs).   *)
(*                                                                         *)
(* One user's drive.  A path stands for an entry with everything below it: *)
(* the row updates of a subtree are part of the same transaction as the    *)
(* row of its root (module DirTree looks inside them).  An operation is    *)
(* one run of a handler; it never runs twice.  The name of an operation    *)
(* also names what that run creates: the uuid under .trash for a delete,   *)
(* the new content for an upload.                                          *)
(***************************************************************************)
EXTENDS Naturals

CONSTANTS
  Paths,        \* logical paths of the drive
  Ops,          \* the handler runs of a behaviour
  Nil,          \* no entry, no row
  FaultSets,    \* what may go wrong besides a crash: the choices
  MaxCrashes,   \* bound on the number of crashes
  MaxLists      \* bound on the number of listings

(***************************************************************************)
(* The faults of a behaviour are one member of FaultSets:                  *)
(* "txfail":     a rename or a database write of a request fails           *)
(* "lossyjournal": the removal of an intent or a write of the replay fails *)
(* "list":       listings run concurrently with the other requests         *)
(* "overlap":    requests may touch a path another request is working on   *)
(* "disconnect": a client goes away and its handler is dropped midway      *)
(***************************************************************************)
FaultKinds == {"txfail", "lossyjournal", "list", "overlap", "disconnect"}

ASSUME DriveAssumption ==
  /\ Paths \cap Ops = {}
  /\ Nil \notin Paths \cup Ops
  /\ FaultSets \subseteq SUBSET FaultKinds
  /\ MaxCrashes \in Nat
  /\ MaxLists \in Nat

Contents == Paths \cup Ops

VARIABLES
  fs,        \* uploads/{user}: the content at each path
  rows,      \* table files: the content each path's row describes
  trashDir,  \* uploads/.trash: the content under each uuid
  trashRows, \* table trash: the original path of each uuid
  jid,       \* table fs_journal: the id of each operation's intent, 0 if none
  nextJid,   \* AUTOINCREMENT of fs_journal
  op,        \* the request each operation runs
  pc,        \* where its handler is
  phase,     \* the server: "up", "down" or "replay" at startup
  todo,      \* intents the replay loop has still to process
  settled,   \* the intent whose replay returned Ok and is to be removed
  listing,   \* the listing in progress
  faults,    \* what may go wrong in this behaviour
  crashes, lists

request == <<op, pc>>
journal == <<jid, nextJid>>
disk    == <<fs, trashDir>>
tables  == <<rows, trashRows>>
server  == <<phase, todo, settled, crashes>>
reader  == <<listing, lists, faults>>
vars    == <<disk, tables, journal, request, server, reader>>

NoRequest == [kind |-> "none", src |-> Nil, dst |-> Nil]

Request == [kind: {"move", "trash", "put"}, src: Paths, dst: Paths] \cup {NoRequest}

Live == {"checked", "rowsonly", "logged", "moved", "applied", "undone", "created"}

TypeOK ==
  /\ fs \in [Paths -> Contents \cup {Nil}]
  /\ rows \in [Paths -> Contents \cup {Nil}]
  /\ trashDir \in [Ops -> Contents \cup {Nil}]
  /\ trashRows \in [Ops -> Paths \cup {Nil}]
  /\ jid \in [Ops -> Nat]
  /\ nextJid \in Nat \ {0}
  /\ op \in [Ops -> Request]
  /\ pc \in [Ops -> Live \cup {"idle", "done", "dead", "orphaned"}]
  /\ phase \in {"up", "down", "replay"}
  /\ todo \subseteq Ops
  /\ settled \subseteq Ops
  /\ listing \in [stage: {"none", "read", "statted"}, paths: SUBSET Paths]
  /\ faults \in FaultSets
  /\ crashes \in Nat
  /\ lists \in Nat

NoListing == [stage |-> "none", paths |-> {}]

Init ==
  /\ \E used \in SUBSET Paths :
       fs = [p \in Paths |-> IF p \in used THEN p ELSE Nil]
  /\ rows = fs
  /\ trashDir = [i \in Ops |-> Nil]
  /\ trashRows = [i \in Ops |-> Nil]
  /\ jid = [i \in Ops |-> 0]
  /\ nextJid = 1
  /\ op = [i \in Ops |-> NoRequest]
  /\ pc = [i \in Ops |-> "idle"]
  /\ phase = "up"
  /\ todo = {}
  /\ settled = {}
  /\ listing = NoListing
  /\ faults \in FaultSets
  /\ crashes = 0
  /\ lists = 0

------------------------------------------------------------------------------
(* What the handlers share.                                                *)

Footprint(i) == {op[i].src, op[i].dst}
Pending(i)   == jid[i] # 0
Running(i)   == pc[i] \in Live

\* Clients normally work on different entries at a time; nothing in the server
\* enforces it, which is what the fault "overlap" is about.
Admitted(paths) ==
  \/ "overlap" \in faults
  \/ \A j \in Ops : Running(j) => paths \cap Footprint(j) = {}

Goto(i, label) == pc' = [pc EXCEPT ![i] = label]

At(i, kind, label) == phase = "up" /\ op[i].kind = kind /\ pc[i] = label

Move(f, from, to) == [f EXCEPT ![to] = f[from], ![from] = Nil]

\* the UPDATE of apply_db_rename_move would violate UNIQUE(parent_path, name)
RowConflict(i) == rows[op[i].src] # Nil /\ rows[op[i].dst] # Nil

\* what it does otherwise; no matching row is not an error
MovedRows(i) ==
  IF rows[op[i].src] = Nil THEN rows ELSE Move(rows, op[i].src, op[i].dst)

Begin(i, kind, src, dst, label) ==
  /\ phase = "up"
  /\ pc[i] = "idle"
  /\ op' = [op EXCEPT ![i] = [kind |-> kind, src |-> src, dst |-> dst]]
  /\ Goto(i, label)
  /\ UNCHANGED <<disk, tables, journal, server, reader>>

------------------------------------------------------------------------------
(* rename_core and move_core.                                              *)

\* Mutant of StartMove: no conflict check.
StartMoveUnchecked(i, src, dst) ==
  /\ src # dst
  /\ Admitted({src, dst})
  /\ Begin(i, "move", src, dst, "checked")

\* The conflict check in table and directory, then the answer 409 or the way on.
StartMove(i, src, dst) ==
  /\ src # dst
  /\ Admitted({src, dst})
  /\ Begin(i, "move", src, dst,
           IF rows[dst] = Nil /\ fs[dst] = Nil THEN "checked" ELSE "done")

\* journal::insert, before anything is moved; the request ends if it fails.
LogIntent(i) ==
  /\ \/ At(i, "move", "checked")
     \/ At(i, "trash", "checked")
  /\ \/ /\ jid' = [jid EXCEPT ![i] = nextJid]
        /\ nextJid' = nextJid + 1
        /\ Goto(i, "logged")
     \/ /\ "txfail" \in faults
        /\ Goto(i, "done")
        /\ UNCHANGED journal
  /\ UNCHANGED <<disk, tables, op, server, reader>>

\* renameat: replaces whatever is at the target, fails without a source.
MoveEntry(i) ==
  /\ At(i, "move", "logged")
  /\ \/ /\ fs[op[i].src] # Nil
        /\ fs' = Move(fs, op[i].src, op[i].dst)
        /\ Goto(i, "moved")
     \/ /\ fs[op[i].src] = Nil \/ "txfail" \in faults
        /\ Goto(i, "undone")
        /\ UNCHANGED fs
  /\ UNCHANGED <<trashDir, tables, journal, op, server, reader>>

\* apply_db_rename_move commits.
MoveRows(i) ==
  /\ At(i, "move", "moved")
  /\ ~RowConflict(i)
  /\ rows' = MovedRows(i)
  /\ Goto(i, "applied")
  /\ UNCHANGED <<disk, trashRows, journal, op, server, reader>>

\* Mutant of RollbackMove: returns the error with the intent left behind.
RollbackMoveKeepingIntent(i) ==
  /\ At(i, "move", "moved")
  /\ RowConflict(i) \/ "txfail" \in faults
  /\ fs' = IF fs[op[i].dst] = Nil THEN fs ELSE Move(fs, op[i].dst, op[i].src)
  /\ Goto(i, "done")
  /\ UNCHANGED <<trashDir, tables, journal, op, server, reader>>

\* apply_db_rename_move fails; rollback_rename ignores its own error.
RollbackMove(i) ==
  /\ At(i, "move", "moved")
  /\ RowConflict(i) \/ "txfail" \in faults
  /\ fs' = IF fs[op[i].dst] = Nil THEN fs ELSE Move(fs, op[i].dst, op[i].src)
  /\ Goto(i, "undone")
  /\ UNCHANGED <<trashDir, tables, journal, op, server, reader>>

\* Mutant of RemoveIntent: already removed once the entry is renamed.
RemoveIntentEarly(i) ==
  /\ phase = "up"
  /\ pc[i] \in {"moved", "applied", "undone"}
  /\ jid' = [jid EXCEPT ![i] = 0]
  /\ Goto(i, IF pc[i] = "moved" THEN "moved" ELSE "done")
  /\ UNCHANGED <<disk, tables, nextJid, op, server, reader>>

\* journal::remove, after success and after a rollback alike; it ignores its
\* own error.
RemoveIntent(i) ==
  /\ phase = "up"
  /\ pc[i] \in {"applied", "undone"}
  /\ \/ jid' = [jid EXCEPT ![i] = 0]
     \/ "lossyjournal" \in faults /\ UNCHANGED jid
  /\ Goto(i, "done")
  /\ UNCHANGED <<disk, tables, nextJid, op, server, reader>>

------------------------------------------------------------------------------
(* delete_to_trash.                                                        *)

StartTrash(i, p) ==
  /\ Admitted({p})
  /\ Begin(i, "trash", p, p, IF fs[p] = Nil THEN "rowsonly" ELSE "checked")

\* Mutant of TrashEntry: a failed rename is ignored.
TrashEntryUnchecked(i) ==
  /\ At(i, "trash", "logged")
  /\ trashDir' = [trashDir EXCEPT ![i] = fs[op[i].src]]
  /\ fs' = [fs EXCEPT ![op[i].src] = Nil]
  /\ Goto(i, "moved")
  /\ UNCHANGED <<tables, journal, op, server, reader>>

TrashEntry(i) ==
  /\ At(i, "trash", "logged")
  /\ \/ /\ fs[op[i].src] # Nil
        /\ trashDir' = [trashDir EXCEPT ![i] = fs[op[i].src]]
        /\ fs' = [fs EXCEPT ![op[i].src] = Nil]
        /\ Goto(i, "moved")
     \/ /\ fs[op[i].src] = Nil \/ "txfail" \in faults
        /\ Goto(i, "undone")
        /\ UNCHANGED disk
  /\ UNCHANGED <<tables, journal, op, server, reader>>

\* Mutant of TrashRowsTx: binds the wrong column.
TrashRowsTxWrongColumn(i) ==
  /\ At(i, "trash", "moved")
  /\ trashRows' = [trashRows EXCEPT ![i] = trashDir[i]]
  /\ rows' = [rows EXCEPT ![op[i].src] = Nil]
  /\ Goto(i, "applied")
  /\ UNCHANGED <<disk, journal, op, server, reader>>

\* One transaction: the trash row in, the files row out.
TrashRowsTx(i) ==
  /\ At(i, "trash", "moved")
  /\ trashRows' = [trashRows EXCEPT ![i] = op[i].src]
  /\ rows' = [rows EXCEPT ![op[i].src] = Nil]
  /\ Goto(i, "applied")
  /\ UNCHANGED <<disk, journal, op, server, reader>>

RollbackTrash(i) ==
  /\ At(i, "trash", "moved")
  /\ "txfail" \in faults
  /\ fs' = [fs EXCEPT ![op[i].src] = trashDir[i]]
  /\ trashDir' = [trashDir EXCEPT ![i] = Nil]
  /\ Goto(i, "undone")
  /\ UNCHANGED <<tables, journal, op, server, reader>>

\* Nothing on disk: only the rows go (or the transaction fails and they stay).
DropRows(i) ==
  /\ At(i, "trash", "rowsonly")
  /\ \/ rows' = [rows EXCEPT ![op[i].src] = Nil]
     \/ "txfail" \in faults /\ UNCHANGED rows
  /\ Goto(i, "done")
  /\ UNCHANGED <<disk, trashRows, journal, op, server, reader>>

------------------------------------------------------------------------------
(* merge_chunks, as far as the namespace is concerned.  It has no intent.  *)

StartPut(i, p) ==
  /\ Admitted({p})
  /\ Begin(i, "put", p, p,
           IF rows[p] = Nil /\ fs[p] = Nil THEN "checked" ELSE "done")

\* O_EXCL creation: an entry that appeared since the check is a conflict.
CreateFile(i) ==
  /\ At(i, "put", "checked")
  /\ IF fs[op[i].dst] = Nil
       THEN Goto(i, "created") /\ fs' = [fs EXCEPT ![op[i].dst] = i]
       ELSE Goto(i, "done") /\ UNCHANGED fs
  /\ UNCHANGED <<trashDir, tables, journal, op, server, reader>>

RegisterFile(i) ==
  /\ At(i, "put", "created")
  /\ rows[op[i].dst] = Nil
  /\ rows' = [rows EXCEPT ![op[i].dst] = i]
  /\ Goto(i, "done")
  /\ UNCHANGED <<disk, trashRows, journal, op, server, reader>>

\* Over quota or a refused type: the target is removed again.
RejectFile(i) ==
  /\ At(i, "put", "created")
  /\ fs' = [fs EXCEPT ![op[i].dst] = Nil]
  /\ Goto(i, "done")
  /\ UNCHANGED <<trashDir, tables, journal, op, server, reader>>

\* The INSERT or the COMMIT fails: the handler returns and leaves the target.
FailRegister(i) ==
  /\ At(i, "put", "created")
  /\ rows[op[i].dst] # Nil \/ "txfail" \in faults
  /\ Goto(i, "orphaned")
  /\ UNCHANGED <<disk, tables, journal, op, server, reader>>

------------------------------------------------------------------------------
(* A listing: read the rows, stat each of them, delete the missing ones.   *)

ListRead ==
  /\ "list" \in faults /\ lists < MaxLists
  /\ phase = "up" /\ listing.stage = "none"
  /\ listing' = [stage |-> "read", paths |-> {p \in Paths : rows[p] # Nil}]
  /\ lists' = lists + 1
  /\ UNCHANGED <<disk, tables, journal, request, server, faults>>

ListStat ==
  /\ phase = "up" /\ listing.stage = "read"
  /\ listing' = [stage |-> "statted",
                 paths |-> {p \in listing.paths : fs[p] = Nil}]
  /\ UNCHANGED <<disk, tables, journal, request, server, lists, faults>>

ListPurge ==
  /\ phase = "up" /\ listing.stage = "statted"
  /\ rows' = [p \in Paths |-> IF p \in listing.paths THEN Nil ELSE rows[p]]
  /\ listing' = NoListing
  /\ UNCHANGED <<disk, trashRows, journal, request, server, lists, faults>>

------------------------------------------------------------------------------
(* Requests that end without finishing.                                    *)

\* The label of a request whose handler will never run on.
Abandoned(label) ==
  IF label = "created" THEN "orphaned" ELSE IF label \in Live THEN "dead" ELSE label

\* The connection closes and the handler's future is dropped at an await point.
Disconnect(i) ==
  /\ "disconnect" \in faults
  /\ phase = "up" /\ Running(i)
  /\ Goto(i, Abandoned(pc[i]))
  /\ UNCHANGED <<disk, tables, journal, op, server, reader>>

Crash ==
  /\ crashes < MaxCrashes
  /\ phase \in {"up", "replay"}
  /\ phase' = "down"
  /\ crashes' = crashes + 1
  /\ pc' = [i \in Ops |-> Abandoned(pc[i])]
  /\ todo' = {}
  /\ settled' = {}
  /\ listing' = NoListing
  /\ UNCHANGED <<disk, tables, journal, op, lists, faults>>

------------------------------------------------------------------------------
(* journal::replay, run by main before the server listens.                 *)

Boot ==
  /\ phase = "down"
  /\ phase' = "replay"
  /\ todo' = {i \in Ops : Pending(i)}
  /\ UNCHANGED <<disk, tables, journal, request, settled, crashes, reader>>

\* The loop is at intent i: ORDER BY id.
Replaying(i, kind) ==
  /\ phase = "replay"
  /\ i \in todo \ settled
  /\ \A j \in todo : jid[i] <= jid[j]
  /\ op[i].kind = kind

Settle(i) == settled' = settled \cup {i}

\* Target missing, source present: redo the rename; the rows follow.
ReplayMoveEntry(i) ==
  /\ Replaying(i, "move")
  /\ fs[op[i].dst] = Nil /\ fs[op[i].src] # Nil
  /\ fs' = Move(fs, op[i].src, op[i].dst)
  /\ UNCHANGED <<trashDir, tables, journal, request, server, reader>>

\* Mutant of ReplayMoveRows: takes a present target for a finished operation.
ReplayMoveRowsSkipped(i) ==
  /\ Replaying(i, "move")
  /\ fs[op[i].dst] # Nil
  /\ Settle(i)
  /\ UNCHANGED <<disk, tables, journal, request, phase, todo, crashes, reader>>

\* A failing write ends the replay of an intent and keeps it for the next start.
Retain(i) == todo' = todo \ {i} /\ UNCHANGED settled

\* Target present: redo the rows, unless they run into a UNIQUE conflict.
ReplayMoveRows(i) ==
  /\ Replaying(i, "move")
  /\ fs[op[i].dst] # Nil
  /\ \/ /\ ~RowConflict(i)
        /\ rows' = MovedRows(i)
        /\ Settle(i)
        /\ UNCHANGED todo
     \/ /\ RowConflict(i) \/ "lossyjournal" \in faults
        /\ Retain(i)
        /\ UNCHANGED rows
  /\ UNCHANGED <<disk, trashRows, journal, request, phase, crashes, reader>>

ReplayTrashEntry(i) ==
  /\ Replaying(i, "trash")
  /\ trashDir[i] = Nil /\ trashRows[i] = Nil /\ fs[op[i].src] # Nil
  /\ trashDir' = [trashDir EXCEPT ![i] = fs[op[i].src]]
  /\ fs' = [fs EXCEPT ![op[i].src] = Nil]
  /\ UNCHANGED <<tables, journal, request, server, reader>>

ReplayTrashRow(i) ==
  /\ Replaying(i, "trash")
  /\ trashDir[i] # Nil /\ trashRows[i] = Nil
  /\ trashRows' = [trashRows EXCEPT ![i] = op[i].src]
  /\ UNCHANGED <<disk, rows, journal, request, server, reader>>

\* The files row goes, even if the INSERT into trash has failed.
ReplayTrashDropRows(i) ==
  /\ Replaying(i, "trash")
  /\ trashDir[i] # Nil
  /\ trashRows[i] # Nil \/ "lossyjournal" \in faults
  /\ \/ /\ rows' = [rows EXCEPT ![op[i].src] = Nil]
        /\ Settle(i)
        /\ UNCHANGED todo
     \/ /\ "lossyjournal" \in faults
        /\ Retain(i)
        /\ UNCHANGED rows
  /\ UNCHANGED <<disk, trashRows, journal, request, phase, crashes, reader>>

\* Mutant of ReplayGiveUp: a rename with nothing left on disk is retried forever.
ReplayGiveUpTrashOnly(i) ==
  /\ Replaying(i, "trash") /\ trashDir[i] = Nil
  /\ trashRows[i] # Nil \/ fs[op[i].src] = Nil
  /\ Settle(i)
  /\ UNCHANGED <<disk, tables, journal, request, phase, todo, crashes, reader>>

\* Nothing left to redo: a warning, and the intent is dropped.
ReplayGiveUp(i) ==
  /\ \/ Replaying(i, "move") /\ fs[op[i].dst] = Nil /\ fs[op[i].src] = Nil
     \/ /\ Replaying(i, "trash") /\ trashDir[i] = Nil
        /\ trashRows[i] # Nil \/ fs[op[i].src] = Nil
  /\ Settle(i)
  /\ UNCHANGED <<disk, tables, journal, request, phase, todo, crashes, reader>>

ReplayRemove(i) ==
  /\ phase = "replay"
  /\ i \in settled
  /\ \/ jid' = [jid EXCEPT ![i] = 0]
     \/ "lossyjournal" \in faults /\ UNCHANGED jid
  /\ todo' = todo \ {i}
  /\ settled' = {}
  /\ UNCHANGED <<disk, tables, nextJid, request, phase, crashes, reader>>

Serve ==
  /\ phase = "replay" /\ todo = {}
  /\ phase' = "up"
  /\ UNCHANGED <<disk, tables, journal, request, todo, settled, crashes, reader>>

------------------------------------------------------------------------------
Advance(i) ==
  \/ LogIntent(i) \/ MoveEntry(i) \/ MoveRows(i) \/ RollbackMove(i)
  \/ TrashEntry(i) \/ TrashRowsTx(i) \/ RollbackTrash(i) \/ DropRows(i)
  \/ CreateFile(i) \/ RegisterFile(i) \/ RejectFile(i) \/ FailRegister(i)
  \/ RemoveIntent(i)

Replay(i) ==
  \/ ReplayMoveEntry(i) \/ ReplayMoveRows(i)
  \/ ReplayTrashEntry(i) \/ ReplayTrashRow(i) \/ ReplayTrashDropRows(i)
  \/ ReplayGiveUp(i) \/ ReplayRemove(i)

Next ==
  \/ \E i \in Ops :
       \/ \E src, dst \in Paths : StartMove(i, src, dst)
       \/ \E p \in Paths : StartTrash(i, p) \/ StartPut(i, p)
       \/ Advance(i) \/ Replay(i) \/ Disconnect(i)
  \/ ListRead \/ ListStat \/ ListPurge
  \/ Crash \/ Boot \/ Serve

Spec == Init /\ [][Next]_vars

\* The runtime polls every ready handler, and startup runs replay to its end.
Fairness ==
  /\ \A i \in Ops : WF_vars(Advance(i)) /\ WF_vars(Replay(i))
  /\ WF_vars(Boot) /\ WF_vars(Serve)

FairSpec == Spec /\ Fairness

------------------------------------------------------------------------------
(* Properties.                                                             *)

\* Content of an upload whose row was never committed; a listing cannot show it.
Unregistered == {i \in Ops : pc[i] \in {"created", "orphaned"}}
Listed(c)    == IF c \in Unregistered THEN Nil ELSE c

RowAgrees(p)   == rows[p] = Listed(fs[p])
TrashAgrees(i) == (trashRows[i] = Nil) <=> (trashDir[i] = Nil)

Undisturbed == faults \subseteq {"txfail"}
Quiet       == phase = "up" /\ \A i \in Ops : ~Running(i)

\* Write-ahead: wherever table and directory disagree, an intent for that very
\* place is in fs_journal (insert, remove and the order of the steps of
\* rename_core, move_core and delete_to_trash), so that a crash in this state
\* can be repaired.
EveryGapIsJournalled ==
  Undisturbed =>
    /\ \A p \in Paths : RowAgrees(p) \/ \E i \in Ops : Pending(i) /\ p \in Footprint(i)
    /\ \A i \in Ops : TrashAgrees(i) \/ Pending(i)

\* Whenever the server listens and no request is running, table and directory
\* agree and no intent is left, whatever crashed or failed before
\* (journal::replay; the rollbacks of the handlers).
SettledDriveAgrees ==
  (Undisturbed /\ Quiet) =>
    /\ \A i \in Ops : ~Pending(i) /\ TrashAgrees(i)
    /\ \A p \in Paths : RowAgrees(p)

Stored(c) == (\E p \in Paths : fs[p] = c) \/ (\E i \in Ops : trashDir[i] = c)

\* No step of a handler, of its rollback or of the replay destroys registered
\* content: it stays in the drive or in the trash, as long as no two requests
\* work on the same entry.
NothingIsLost ==
  [][("overlap" \notin faults) =>
       \A c \in Contents \ Unregistered : Stored(c) => Stored(c)']_vars

\* The conflict check of rename_core and move_core as their comments state it:
\* no other request's content is ever destroyed.
NoEntryIsReplaced ==
  [][\A c \in Contents \ Unregistered : Stored(c) => Stored(c)']_vars

\* A trash row always has its file, whatever goes wrong: restore and permanent
\* delete can rely on the row (delete_to_trash registers after the rename,
\* replay_trash likewise).
NoDanglingTrashRow ==
  \A i \in Ops : trashRows[i] # Nil => trashDir[i] # Nil

\* Even with listings purging rows under running requests, a settled drive
\* never shows a row whose file is missing or is another file.
NoPhantomRow ==
  (Quiet /\ faults \subseteq {"txfail", "list"}) =>
    \A p \in Paths : rows[p] # Nil => rows[p] = fs[p]

\* An intent does not outlive its operation: it is removed by the handler or,
\* after crashes, by the replay.
IntentsDrain ==
  \A i \in Ops : (Undisturbed /\ Pending(i)) ~> ~Pending(i)

\* The replay never blocks the start of the server.
ServerComesBack == (phase = "down") ~> (phase = "up")

------------------------------------------------------------------------------
(* Refinement.  The place of an entry is where the replay of the journal   *)
(* would put it; so an operation takes effect when its intent is written,  *)
(* and a crash, the restart and the whole replay change nothing.           *)

Arriving(p) == {i \in Ops : /\ Pending(i) /\ op[i].kind = "move"
                            /\ op[i].dst = p /\ fs[p] = Nil}
Leaving(p)  == {i \in Ops : /\ Pending(i) /\ op[i].src = p
                            /\ \/ op[i].kind = "move" /\ fs[op[i].dst] = Nil
                               \/ op[i].kind = "trash" /\ trashDir[i] = Nil}

ReplayedTree ==
  [p \in Paths |->
     IF Arriving(p) # {} THEN Listed(fs[op[CHOOSE i \in Arriving(p) : TRUE].src])
     ELSE IF Leaving(p) # {} THEN Nil
     ELSE Listed(fs[p])]

ReplayedBin ==
  [i \in Ops |->
     IF Pending(i) /\ op[i].kind = "trash" /\ trashDir[i] = Nil
       THEN Listed(fs[op[i].src])
       ELSE Listed(trashDir[i])]

Drive == INSTANCE AtomicDrive
           WITH Slots <- Ops, tree <- ReplayedTree, bin <- ReplayedBin

\* Crash, restart and replay are invisible: operations on distinct entries are
\* atomic (M1 of the change log: rename, move and delete with an intent first).
CrashesAreInvisible ==
  /\ Drive!Init
  /\ [][(faults \subseteq {"txfail", "list"}) => Drive!Next]_<<ReplayedTree, ReplayedBin>>
==============================================================================

--------------------------- MODULE FsJournalProofs ---------------------------
(* Theorems about FsJournal, for any sets of paths and operations: its     *)
(* types, that no content is lost, what the journal records and what its   *)
(* replay leaves, and that the drive implements AtomicDrive.               *)
EXTENDS FsJournal, TLAPS

\* The value of every variable stays in its type.
THEOREM TypeCorrect == Spec => []TypeOK
<1> USE DEF TypeOK, Live, Request, NoRequest
<1>1. Init => TypeOK
  BY DriveAssumption DEF Init, NoListing, Contents
<1>2. TypeOK /\ [Next]_vars => TypeOK'
  <2> SUFFICES ASSUME TypeOK, [Next]_vars
               PROVE  TypeOK'
    OBVIOUS
  <2> USE DEF request, journal, disk, tables, server, reader, Goto, At
  <2>1. ASSUME NEW i \in Ops, NEW src \in Paths, NEW dst \in Paths,
               StartMove(i, src, dst)
        PROVE  TypeOK'
    BY <2>1 DEF StartMove, Begin
  <2>2. ASSUME NEW i \in Ops, NEW p \in Paths, StartTrash(i, p) \/ StartPut(i, p)
        PROVE  TypeOK'
    BY <2>2 DEF StartTrash, StartPut, Begin
  <2>3. ASSUME NEW i \in Ops, LogIntent(i)
        PROVE  TypeOK'
    BY <2>3 DEF LogIntent
  <2>4. ASSUME NEW i \in Ops, MoveEntry(i)
        PROVE  TypeOK'
    BY <2>4 DEF MoveEntry, Move
  <2>5. ASSUME NEW i \in Ops, MoveRows(i)
        PROVE  TypeOK'
    BY <2>5 DEF MoveRows, MovedRows, Move
  <2>6. ASSUME NEW i \in Ops, RollbackMove(i)
        PROVE  TypeOK'
    BY <2>6 DEF RollbackMove, Move
  <2>7. ASSUME NEW i \in Ops, TrashEntry(i) \/ RollbackTrash(i)
        PROVE  TypeOK'
    BY <2>7 DEF TrashEntry, RollbackTrash
  <2>8. ASSUME NEW i \in Ops, TrashRowsTx(i) \/ DropRows(i) \/ RemoveIntent(i)
        PROVE  TypeOK'
    BY <2>8 DEF TrashRowsTx, DropRows, RemoveIntent
  <2>9. ASSUME NEW i \in Ops,
               CreateFile(i) \/ RegisterFile(i) \/ RejectFile(i) \/ FailRegister(i)
        PROVE  TypeOK'
    BY <2>9 DEF CreateFile, RegisterFile, RejectFile, FailRegister, Contents
  <2>10. ASSUME NEW i \in Ops, Replay(i)
         PROVE  TypeOK'
    <3> USE DEF Replaying, Settle, Retain
    <3>1. CASE ReplayMoveEntry(i)
      BY <3>1 DEF ReplayMoveEntry, Move
    <3>2. CASE ReplayMoveRows(i)
      BY <3>2 DEF ReplayMoveRows, MovedRows, Move
    <3>3. CASE ReplayTrashEntry(i)
      BY <3>3 DEF ReplayTrashEntry
    <3>4. CASE ReplayTrashRow(i)
      BY <3>4 DEF ReplayTrashRow
    <3>5. CASE ReplayTrashDropRows(i)
      BY <3>5 DEF ReplayTrashDropRows
    <3>6. CASE ReplayGiveUp(i)
      BY <3>6 DEF ReplayGiveUp
    <3>7. CASE ReplayRemove(i)
      BY <3>7 DEF ReplayRemove
    <3>8. QED
      BY <2>10, <3>1, <3>2, <3>3, <3>4, <3>5, <3>6, <3>7 DEF Replay
  <2>11. ASSUME NEW i \in Ops, Disconnect(i)
         PROVE  TypeOK'
    BY <2>11 DEF Disconnect, Abandoned
  <2>12. CASE ListRead \/ ListStat \/ ListPurge
    BY <2>12 DEF ListRead, ListStat, ListPurge, NoListing
  <2>13. CASE Crash
    BY <2>13 DEF Crash, Abandoned, NoListing
  <2>14. CASE Boot \/ Serve
    BY <2>14 DEF Boot, Serve
  <2>15. CASE UNCHANGED vars
    BY <2>15 DEF vars
  <2>16. QED
    BY <2>1, <2>2, <2>3, <2>4, <2>5, <2>6, <2>7, <2>8, <2>9, <2>10, <2>11,
       <2>12, <2>13, <2>14, <2>15 DEF Next, Advance
<1>3. QED
  BY <1>1, <1>2, PTL DEF Spec

------------------------------------------------------------------------------
(* A trash row is written only when its file is there, and a file leaves   *)
(* the trash only in a rollback, which runs before its row is written.     *)

\* Where a handler is in its request; none runs while the server is down.
Stage ==
  \A i \in Ops :
    /\ phase # "up" => ~Running(i)
    /\ pc[i] = "idle" => op[i].kind = "none"

TrashStage(i) ==
  /\ trashRows[i] # Nil => trashDir[i] # Nil
  /\ pc[i] \in {"idle", "checked", "logged"} => trashRows[i] = Nil
  /\ op[i].kind = "trash" /\ pc[i] = "moved" => trashDir[i] # Nil /\ trashRows[i] = Nil

TrashInv == Stage /\ \A i \in Ops : TrashStage(i)

LEMMA StageInit == Init => Stage
  BY DEF Init, Stage, NoRequest, Running, Live

LEMMA StageStep ==
  ASSUME TypeOK, Stage, [Next]_vars
  PROVE  Stage'
<1> USE DEF TypeOK, Stage, Running, Live, Goto, At, request, server
<1>1. ASSUME NEW i \in Ops, NEW src \in Paths, NEW dst \in Paths,
             StartMove(i, src, dst)
      PROVE  Stage'
  BY <1>1 DEF StartMove, Begin
<1>2. ASSUME NEW i \in Ops, NEW p \in Paths, StartTrash(i, p) \/ StartPut(i, p)
      PROVE  Stage'
  BY <1>2 DEF StartTrash, StartPut, Begin
<1>3. ASSUME NEW i \in Ops, Advance(i)
      PROVE  Stage'
  <2>1. op' = op /\ phase' = phase /\ phase = "up"
    BY <1>3 DEF Advance, LogIntent, MoveEntry, MoveRows, RollbackMove, TrashEntry,
       TrashRowsTx, RollbackTrash, DropRows, CreateFile, RegisterFile, RejectFile,
       FailRegister, RemoveIntent
  <2>2. \E label \in Live \cup {"done", "orphaned"} : pc' = [pc EXCEPT ![i] = label]
    BY <1>3 DEF Advance, LogIntent, MoveEntry, MoveRows, RollbackMove, TrashEntry,
       TrashRowsTx, RollbackTrash, DropRows, CreateFile, RegisterFile, RejectFile,
       FailRegister, RemoveIntent
  <2>3. QED
    BY <2>1, <2>2
<1>4. ASSUME NEW i \in Ops, Replay(i)
      PROVE  Stage'
  BY <1>4 DEF Replay, ReplayMoveEntry, ReplayMoveRows, ReplayTrashEntry,
     ReplayTrashRow, ReplayTrashDropRows, ReplayGiveUp, ReplayRemove
<1>5. ASSUME NEW i \in Ops, Disconnect(i)
      PROVE  Stage'
  BY <1>5 DEF Disconnect, Abandoned
<1>6. CASE ListRead \/ ListStat \/ ListPurge
  BY <1>6 DEF ListRead, ListStat, ListPurge
<1>7. CASE Crash
  BY <1>7 DEF Crash, Abandoned
<1>8. CASE Boot \/ Serve
  BY <1>8 DEF Boot, Serve
<1>9. CASE UNCHANGED vars
  BY <1>9 DEF vars
<1>10. QED
  BY <1>1, <1>2, <1>3, <1>4, <1>5, <1>6, <1>7, <1>8, <1>9 DEF Next

LEMMA TrashInvInit == Init => TrashInv
  BY StageInit DEF Init, TrashInv, TrashStage

LEMMA TrashInvStep ==
  ASSUME TypeOK, TrashInv, [Next]_vars
  PROVE  TrashInv'
<1>1. Stage /\ Stage'
  BY StageStep DEF TrashInv
<1> SUFFICES ASSUME NEW k \in Ops
             PROVE  TrashStage(k)'
  BY <1>1 DEF TrashInv
<1>2. TrashStage(k)
  BY DEF TrashInv
<1> USE DEF TypeOK, TrashStage, Goto, At, disk, tables, request
<1>3. ASSUME NEW i \in Ops, NEW src \in Paths, NEW dst \in Paths,
             StartMove(i, src, dst)
      PROVE  TrashStage(k)'
  BY <1>2, <1>3 DEF StartMove, Begin
<1>4. ASSUME NEW i \in Ops, NEW p \in Paths, StartTrash(i, p) \/ StartPut(i, p)
      PROVE  TrashStage(k)'
  BY <1>2, <1>4 DEF StartTrash, StartPut, Begin
<1>5. ASSUME NEW i \in Ops, Advance(i)
      PROVE  TrashStage(k)'
  <2>1. CASE LogIntent(i) \/ RemoveIntent(i)
    BY <1>2, <2>1 DEF LogIntent, RemoveIntent
  <2>2. CASE MoveEntry(i) \/ MoveRows(i) \/ RollbackMove(i)
    BY <1>2, <2>2 DEF MoveEntry, MoveRows, RollbackMove
  <2>3. CASE TrashEntry(i)
    BY <1>2, <2>3 DEF TrashEntry
  <2>4. CASE TrashRowsTx(i) \/ DropRows(i)
    BY <1>2, <2>4 DEF TrashRowsTx, DropRows
  <2>5. CASE RollbackTrash(i)
    BY <1>2, <2>5 DEF RollbackTrash
  <2>6. CASE CreateFile(i) \/ RegisterFile(i) \/ RejectFile(i) \/ FailRegister(i)
    BY <1>2, <2>6 DEF CreateFile, RegisterFile, RejectFile, FailRegister
  <2>7. QED
    BY <1>5, <2>1, <2>2, <2>3, <2>4, <2>5, <2>6 DEF Advance
<1>6. ASSUME NEW i \in Ops, Replay(i)
      PROVE  TrashStage(k)'
  <2>1. pc[i] \notin {"idle", "checked", "logged", "moved"} \/ op[i].kind # "trash"
    BY <1>1, <1>6 DEF Stage, Running, Live, Replay, Replaying, ReplayMoveEntry,
       ReplayMoveRows, ReplayTrashEntry, ReplayTrashRow, ReplayTrashDropRows,
       ReplayGiveUp, ReplayRemove
  <2>2. CASE ReplayTrashEntry(i) \/ ReplayTrashRow(i)
    BY <1>2, <2>1, <2>2 DEF ReplayTrashEntry, ReplayTrashRow, Replaying
  <2>3. CASE ReplayMoveEntry(i) \/ ReplayMoveRows(i) \/ ReplayTrashDropRows(i)
             \/ ReplayGiveUp(i) \/ ReplayRemove(i)
    BY <1>2, <2>3 DEF ReplayMoveEntry, ReplayMoveRows, ReplayTrashDropRows,
       ReplayGiveUp, ReplayRemove
  <2>4. QED
    BY <1>6, <2>2, <2>3 DEF Replay
<1>7. ASSUME NEW i \in Ops, Disconnect(i)
      PROVE  TrashStage(k)'
  BY <1>2, <1>7 DEF Disconnect, Abandoned, Running, Live
<1>8. CASE ListRead \/ ListStat \/ ListPurge
  BY <1>2, <1>8 DEF ListRead, ListStat, ListPurge
<1>9. CASE Crash
  BY <1>2, <1>9 DEF Crash, Abandoned, Live
<1>10. CASE Boot \/ Serve
  BY <1>2, <1>10 DEF Boot, Serve
<1>11. CASE UNCHANGED vars
  BY <1>2, <1>11 DEF vars
<1>12. QED
  BY <1>3, <1>4, <1>5, <1>6, <1>7, <1>8, <1>9, <1>10, <1>11 DEF Next

\* Restore and permanent delete can rely on a trash row: its file is in .trash,
\* whatever fails, crashes or runs concurrently (delete_to_trash, replay_trash).
THEOREM TrashRowsHaveFiles == Spec => []NoDanglingTrashRow
<1>1. TrashInv => NoDanglingTrashRow
  BY DEF TrashInv, TrashStage, NoDanglingTrashRow
<1>2. QED
  BY <1>1, TrashInvInit, TrashInvStep, TypeCorrect, PTL DEF Spec

------------------------------------------------------------------------------
(* While requests work on different entries, what a handler found before   *)
(* its journal write still holds when it moves the entry: no rename or     *)
(* removal hits content it was not meant for.                              *)

Separate ==
  \A i, j \in Ops :
    i # j /\ Running(i) /\ Running(j) => Footprint(i) \cap Footprint(j) = {}

Prepared(i) ==
  /\ op[i].kind = "move" => op[i].src # op[i].dst
  /\ op[i].kind = "move" /\ pc[i] \in {"checked", "logged"} => fs[op[i].dst] = Nil
  /\ pc[i] = "moved" => fs[op[i].src] = Nil
  /\ op[i].kind \in {"none", "trash"} /\ pc[i] \in {"idle", "checked", "logged"}
       => trashDir[i] = Nil
  /\ pc[i] = "created" => op[i].kind = "put" /\ fs[op[i].dst] = i
  /\ pc[i] = "rowsonly" => fs[op[i].src] = Nil
  /\ pc[i] \in {"checked", "rowsonly", "logged", "moved", "created"} => op[i].kind # "none"

PlaceInv ==
  /\ Stage
  /\ "overlap" \notin faults => Separate /\ \A i \in Ops : Prepared(i)

\* A handler's step leaves the entries of the other requests alone.
LEMMA OthersStayPrepared ==
  ASSUME TypeOK, Separate, NEW i \in Ops, NEW j \in Ops, i # j,
         Running(i), Prepared(j), op' = op,
         pc'[j] = pc[j], trashDir'[j] = trashDir[j],
         \A p \in Paths \ Footprint(i) : fs'[p] = fs[p]
  PROVE  Prepared(j)'
<1>1. CASE Running(j) /\ op[j].kind # "none"
  <2>1. op[j].src \in Paths /\ op[j].dst \in Paths
    BY <1>1 DEF TypeOK, Request, NoRequest
  <2>2. op[j].src \notin Footprint(i) /\ op[j].dst \notin Footprint(i)
    BY <1>1 DEF Separate, Footprint
  <2>3. fs'[op[j].src] = fs[op[j].src] /\ fs'[op[j].dst] = fs[op[j].dst]
    BY <2>1, <2>2
  <2>4. QED
    BY <2>3 DEF Prepared
<1>2. CASE ~Running(j) \/ op[j].kind = "none"
  BY <1>2 DEF Prepared, Running, Live
<1>3. QED
  BY <1>1, <1>2

LEMMA SeparateStep ==
  ASSUME TypeOK, Separate, op' = op, \A i \in Ops : Running(i)' => Running(i)
  PROVE  Separate'
BY DEF Separate, Footprint

LEMMA PlaceInvInit == Init => PlaceInv
BY StageInit DEF Init, PlaceInv, Separate, Prepared, Running, Live, NoRequest

LEMMA PlaceInvStart ==
  ASSUME TypeOK, PlaceInv, Stage', NEW i \in Ops, NEW src \in Paths, NEW dst \in Paths,
         \/ StartMove(i, src, dst)
         \/ src = dst /\ (StartTrash(i, src) \/ StartPut(i, src))
  PROVE  PlaceInv'
<1> DEFINE kind  == op'[i].kind
           label == pc'[i]
<1> USE DEF TypeOK, Goto, disk, tables, journal, server, reader
<1>1. /\ op' = [op EXCEPT ![i] = [kind |-> kind, src |-> src, dst |-> dst]]
      /\ pc' = [pc EXCEPT ![i] = label]
      /\ pc[i] = "idle"
      /\ Admitted({src, dst})
      /\ UNCHANGED <<fs, trashDir, faults>>
  BY DEF StartMove, StartTrash, StartPut, Begin
<1>2. \/ kind = "move" /\ src # dst /\ label \in {"checked", "done"}
         /\ (label = "checked" => fs[dst] = Nil)
      \/ kind \in {"trash", "put"} /\ src = dst /\ label \in {"checked", "rowsonly", "done"}
         /\ (label = "rowsonly" => fs[src] = Nil)
  BY <1>1 DEF StartMove, StartTrash, StartPut, Begin
<1> SUFFICES ASSUME "overlap" \notin faults
             PROVE  Separate' /\ \A k \in Ops : Prepared(k)'
  BY <1>1 DEF PlaceInv
<1>3. Separate /\ Stage /\ \A k \in Ops : Prepared(k)
  BY DEF PlaceInv
<1>4. Separate'
  <2>1. \A j \in Ops : Running(j) => {src, dst} \cap Footprint(j) = {}
    BY <1>1 DEF Admitted
  <2>2. Footprint(i)' = {src, dst}
    BY <1>1 DEF Footprint
  <2>3. \A j \in Ops \ {i} : (Running(j)' <=> Running(j)) /\ Footprint(j)' = Footprint(j)
    BY <1>1 DEF Running, Footprint
  <2>4. QED
    BY <1>3, <2>1, <2>2, <2>3 DEF Separate
<1>5. ASSUME NEW k \in Ops
      PROVE  Prepared(k)'
  <2>1. CASE k = i
    <3>1. trashDir[i] = Nil
      BY <1>1, <1>3 DEF Prepared, Stage
    <3>2. op'[i] = [kind |-> kind, src |-> src, dst |-> dst] /\ pc'[i] = label
      BY <1>1
    <3>3. QED
      BY <1>1, <1>2, <2>1, <3>1, <3>2 DEF Prepared
  <2>2. CASE k # i
    <3>1. op'[k] = op[k] /\ pc'[k] = pc[k]
      BY <1>1, <2>2
    <3>2. QED
      BY <1>1, <1>3, <3>1 DEF Prepared
  <2>3. QED
    BY <2>1, <2>2
<1>6. QED
  BY <1>4, <1>5

LEMMA PlaceInvAdvance ==
  ASSUME TypeOK, PlaceInv, Stage', NEW i \in Ops, Advance(i)
  PROVE  PlaceInv'
<1> USE DEF TypeOK, Request, NoRequest, Goto, At, disk, tables, journal, server, reader, Live
<1>1. /\ op' = op /\ faults' = faults /\ Running(i)
      /\ \A j \in Ops \ {i} : pc'[j] = pc[j] /\ trashDir'[j] = trashDir[j]
  BY DEF Advance, LogIntent, MoveEntry, MoveRows, RollbackMove, TrashEntry, TrashRowsTx,
     RollbackTrash, DropRows, CreateFile, RegisterFile, RejectFile, FailRegister,
     RemoveIntent, Running
<1>2. \A p \in Paths \ Footprint(i) : fs'[p] = fs[p]
  <2>1. CASE MoveEntry(i) \/ RollbackMove(i)
    BY <2>1 DEF MoveEntry, RollbackMove, Move, Footprint
  <2>2. CASE TrashEntry(i) \/ RollbackTrash(i)
    BY <2>2 DEF TrashEntry, RollbackTrash, Footprint
  <2>3. CASE CreateFile(i) \/ RejectFile(i)
    BY <2>3 DEF CreateFile, RejectFile, Footprint
  <2>4. CASE fs' = fs
    BY <2>4
  <2>5. QED
    BY <2>1, <2>2, <2>3, <2>4 DEF Advance, LogIntent, MoveRows, TrashRowsTx, DropRows,
       RegisterFile, FailRegister, RemoveIntent
<1> SUFFICES ASSUME "overlap" \notin faults
             PROVE  Separate' /\ \A k \in Ops : Prepared(k)'
  BY <1>1 DEF PlaceInv
<1>3. Separate /\ Stage /\ \A k \in Ops : Prepared(k)
  BY DEF PlaceInv
<1>4. Separate'
  <2>1. \A k \in Ops : Running(k)' => Running(k)
    BY <1>1 DEF Running
  <2>2. QED
    BY <1>1, <1>3, <2>1, SeparateStep
<1>5. Prepared(i)'
  <2>1. Prepared(i)
    BY <1>3
  <2>2. CASE LogIntent(i)
    BY <2>1, <2>2 DEF LogIntent, Prepared
  <2>3. CASE MoveEntry(i)
    BY <2>1, <2>3, DriveAssumption DEF MoveEntry, Prepared, Move
  <2>4. CASE RollbackMove(i)
    BY <2>1, <2>4 DEF RollbackMove, Prepared
  <2>5. CASE TrashEntry(i)
    BY <2>1, <2>5 DEF TrashEntry, Prepared
  <2>6. CASE RollbackTrash(i)
    BY <2>1, <2>6 DEF RollbackTrash, Prepared
  <2>7. CASE MoveRows(i) \/ TrashRowsTx(i) \/ DropRows(i) \/ RemoveIntent(i)
    BY <2>1, <2>7 DEF MoveRows, TrashRowsTx, DropRows, RemoveIntent, Prepared
  <2>8. CASE CreateFile(i)
    BY <2>1, <2>8 DEF CreateFile, Prepared
  <2>9. CASE RegisterFile(i) \/ RejectFile(i) \/ FailRegister(i)
    BY <2>1, <2>9 DEF RegisterFile, RejectFile, FailRegister, Prepared
  <2>10. QED
    BY <2>2, <2>3, <2>4, <2>5, <2>6, <2>7, <2>8, <2>9 DEF Advance
<1>6. ASSUME NEW k \in Ops, k # i
      PROVE  Prepared(k)'
  BY <1>1, <1>2, <1>3, <1>6, OthersStayPrepared
<1>7. QED
  BY <1>4, <1>5, <1>6

LEMMA PlaceInvStep ==
  ASSUME TypeOK, PlaceInv, [Next]_vars
  PROVE  PlaceInv'
<1>1. Stage /\ Stage'
  BY StageStep DEF PlaceInv
<1> USE DEF TypeOK, Goto, disk, tables, journal, request, server, reader
<1>2. ASSUME NEW i \in Ops, NEW src \in Paths, NEW dst \in Paths, StartMove(i, src, dst)
      PROVE  PlaceInv'
  BY <1>1, <1>2, PlaceInvStart
<1>3. ASSUME NEW i \in Ops, NEW p \in Paths, StartTrash(i, p) \/ StartPut(i, p)
      PROVE  PlaceInv'
  BY <1>1, <1>3, PlaceInvStart
<1>4. ASSUME NEW i \in Ops, Advance(i)
      PROVE  PlaceInv'
  BY <1>1, <1>4, PlaceInvAdvance
<1>5. ASSUME phase # "up", UNCHANGED <<op, pc, faults>>,
             \A i \in Ops : pc[i] # "idle" \/ trashDir'[i] = trashDir[i]
      PROVE  PlaceInv'
  <2>1. \A i \in Ops : ~Running(i) /\ ~Running(i)'
    BY <1>1, <1>5 DEF Stage, Running
  <2>2. \A i \in Ops : Prepared(i) => Prepared(i)'
    BY <1>5, <2>1 DEF Prepared, Running, Live
  <2>3. QED
    BY <1>1, <1>5, <2>1, <2>2 DEF PlaceInv, Separate
<1>6. ASSUME NEW i \in Ops, Replay(i)
      PROVE  PlaceInv'
  <2>1. phase = "replay" /\ UNCHANGED <<op, pc, faults>>
    BY <1>6 DEF Replay, Replaying, ReplayMoveEntry, ReplayMoveRows, ReplayTrashEntry,
       ReplayTrashRow, ReplayTrashDropRows, ReplayGiveUp, ReplayRemove
  <2>2. \A j \in Ops : pc[j] # "idle" \/ trashDir'[j] = trashDir[j]
    BY <1>1, <1>6 DEF Stage, Replay, Replaying, ReplayMoveEntry, ReplayMoveRows,
       ReplayTrashEntry, ReplayTrashRow, ReplayTrashDropRows, ReplayGiveUp, ReplayRemove
  <2>3. QED
    BY <1>5, <2>1, <2>2
<1>7. ASSUME UNCHANGED <<op, fs, trashDir, faults>>,
             \A i \in Ops : pc'[i] = pc[i] \/ pc'[i] \in {"dead", "orphaned"}
      PROVE  PlaceInv'
  <2>1. \A i \in Ops : Running(i)' => Running(i)
    BY <1>7 DEF Running, Live
  <2>2. \A i \in Ops : Prepared(i) => Prepared(i)'
    BY <1>7 DEF Prepared
  <2>3. QED
    BY <1>1, <1>7, <2>1, <2>2, SeparateStep DEF PlaceInv
<1>8. ASSUME NEW i \in Ops, Disconnect(i)
      PROVE  PlaceInv'
  BY <1>7, <1>8 DEF Disconnect, Abandoned
<1>9. CASE Crash
  BY <1>7, <1>9 DEF Crash, Abandoned
<1>10. CASE ListRead \/ ListStat \/ ListPurge \/ Boot \/ Serve
  BY <1>7, <1>10 DEF ListRead, ListStat, ListPurge, Boot, Serve
<1>11. CASE UNCHANGED vars
  BY <1>7, <1>11 DEF vars
<1>12. QED
  BY <1>2, <1>3, <1>4, <1>6, <1>8, <1>9, <1>10, <1>11 DEF Next

\* No handler, rollback or replay destroys registered content while requests
\* work on different entries: neither the rename of rename_core and move_core,
\* which replaces its target, nor the deletion of a rejected upload.
THEOREM ContentSurvives == Spec => NothingIsLost
<1>1. TypeOK /\ PlaceInv /\ [Next]_vars =>
        [("overlap" \notin faults) =>
           \A c \in Contents \ Unregistered : Stored(c) => Stored(c)']_vars
  <2> SUFFICES ASSUME TypeOK, PlaceInv, [Next]_vars, "overlap" \notin faults,
                      NEW c \in Contents \ Unregistered, Stored(c)
               PROVE  Stored(c)'
    BY DEF vars
  <2>1. Stage /\ Separate /\ \A i \in Ops : Prepared(i)
    BY DEF PlaceInv
  <2>2. c # Nil
    BY DriveAssumption DEF Contents
  <2> USE DEF TypeOK, Request, NoRequest, Goto, At, disk, tables, journal, request
  <2>3. CASE UNCHANGED disk
    BY <2>3 DEF Stored
  <2>4. ASSUME NEW i \in Ops, NEW from \in Paths, NEW to \in Paths,
               fs[to] = Nil, fs' = Move(fs, from, to), UNCHANGED trashDir
        PROVE  Stored(c)'
    BY <2>2, <2>4 DEF Move, Stored
  <2>5. ASSUME NEW i \in Ops, NEW from \in Paths, trashDir[i] = Nil,
               trashDir' = [trashDir EXCEPT ![i] = fs[from]],
               fs' = [fs EXCEPT ![from] = Nil]
        PROVE  Stored(c)'
    BY <2>2, <2>5 DEF Stored
  <2>6. ASSUME NEW i \in Ops, MoveEntry(i)
        PROVE  Stored(c)'
    <3>1. op[i].src \in Paths /\ op[i].dst \in Paths /\ fs[op[i].dst] = Nil
      BY <2>1, <2>6 DEF MoveEntry, Prepared
    <3>2. QED
      BY <2>3, <2>4, <2>6, <3>1 DEF MoveEntry
  <2>7. ASSUME NEW i \in Ops, RollbackMove(i)
        PROVE  Stored(c)'
    <3>1. op[i].src \in Paths /\ op[i].dst \in Paths /\ fs[op[i].src] = Nil
      BY <2>1, <2>7 DEF RollbackMove, Prepared
    <3>2. QED
      BY <2>3, <2>4, <2>7, <3>1 DEF RollbackMove
  <2>8. ASSUME NEW i \in Ops, TrashEntry(i)
        PROVE  Stored(c)'
    <3>1. op[i].src \in Paths /\ trashDir[i] = Nil
      BY <2>1, <2>8 DEF TrashEntry, Prepared
    <3>2. QED
      BY <2>3, <2>5, <2>8, <3>1 DEF TrashEntry
  <2>9. ASSUME NEW i \in Ops, RollbackTrash(i)
        PROVE  Stored(c)'
    <3>1. op[i].src \in Paths /\ fs[op[i].src] = Nil
      BY <2>1, <2>9 DEF RollbackTrash, Prepared
    <3>2. QED
      BY <2>2, <2>9, <3>1 DEF RollbackTrash, Stored
  <2>10. ASSUME NEW i \in Ops, CreateFile(i)
         PROVE  Stored(c)'
    <3>1. op[i].dst \in Paths
      BY <2>10 DEF CreateFile
    <3>2. QED
      BY <2>2, <2>10, <3>1 DEF CreateFile, Stored
  <2>11. ASSUME NEW i \in Ops, RejectFile(i)
         PROVE  Stored(c)'
    <3>1. op[i].dst \in Paths /\ fs[op[i].dst] = i /\ c # i
      BY <2>1, <2>11 DEF RejectFile, Prepared, Unregistered
    <3>2. QED
      BY <2>2, <2>11, <3>1 DEF RejectFile, Stored
  <2>12. ASSUME NEW i \in Ops, ReplayMoveEntry(i) \/ ReplayTrashEntry(i)
         PROVE  Stored(c)'
    <3>1. op[i].src \in Paths /\ op[i].dst \in Paths
      BY <2>12 DEF ReplayMoveEntry, ReplayTrashEntry, Replaying
    <3>2. QED
      BY <2>4, <2>5, <2>12, <3>1 DEF ReplayMoveEntry, ReplayTrashEntry
  <2>13. ASSUME NEW i \in Ops, Advance(i)
         PROVE  Stored(c)'
    BY <2>3, <2>6, <2>7, <2>8, <2>9, <2>10, <2>11, <2>13 DEF Advance, LogIntent,
       MoveRows, TrashRowsTx, DropRows, RegisterFile, FailRegister, RemoveIntent
  <2>14. ASSUME NEW i \in Ops, Replay(i)
         PROVE  Stored(c)'
    BY <2>3, <2>12, <2>14 DEF Replay, ReplayMoveRows, ReplayTrashRow,
       ReplayTrashDropRows, ReplayGiveUp, ReplayRemove
  <2>15. CASE Next /\ ~\E i \in Ops : Advance(i) \/ Replay(i)
    BY <2>3, <2>15 DEF Next, StartMove, StartTrash, StartPut, Begin, Disconnect,
       ListRead, ListStat, ListPurge, Crash, Boot, Serve
  <2>16. CASE UNCHANGED vars
    BY <2>3, <2>16 DEF vars
  <2>17. QED
    BY <2>13, <2>14, <2>15, <2>16
<1>2. QED
  BY <1>1, TypeCorrect, PlaceInvInit, PlaceInvStep, PTL DEF Spec, NothingIsLost

------------------------------------------------------------------------------
(* Every content has at most one place, whatever goes wrong.               *)

Home(i) == op[i].kind = "put" /\ pc[i] \in {"created", "orphaned", "done"}

OnePlace ==
  /\ \A p, q \in Paths : fs[p] = fs[q] => p = q \/ fs[p] = Nil
  /\ \A i, j \in Ops : trashDir[i] = trashDir[j] => i = j \/ trashDir[i] = Nil
  /\ \A p \in Paths, i \in Ops : fs[p] = trashDir[i] => fs[p] = Nil

\* The content of an upload is nowhere before the upload has created its file.
Unshared == OnePlace /\ \A i \in Ops : Stored(i) => Home(i)

LEMMA UnsharedInit == Init => Unshared
<1> SUFFICES ASSUME Init
             PROVE  Unshared
  OBVIOUS
<1>1. \A p \in Paths : fs[p] \in {p, Nil}
  BY DEF Init
<1>2. \A i \in Ops : trashDir[i] = Nil
  BY DEF Init
<1>3. \A i \in Ops : ~Stored(i)
  BY <1>1, <1>2, DriveAssumption DEF Stored
<1>4. QED
  BY <1>1, <1>2, <1>3 DEF Unshared, OnePlace

\* No handler takes an upload back to before the creation of its file.
LEMMA HomeStep ==
  ASSUME TypeOK, Stage, [Next]_vars, NEW k \in Ops, Home(k)
  PROVE  Home(k)'
<1> USE DEF TypeOK, Home, Goto, At, request
<1>1. ASSUME NEW i \in Ops, NEW src \in Paths, NEW dst \in Paths,
             StartMove(i, src, dst) \/ StartTrash(i, src) \/ StartPut(i, src)
      PROVE  Home(k)'
  BY <1>1 DEF StartMove, StartTrash, StartPut, Begin
<1>2. ASSUME NEW i \in Ops, Advance(i)
      PROVE  Home(k)'
  BY <1>2 DEF Advance, LogIntent, MoveEntry, MoveRows, RollbackMove, TrashEntry,
     TrashRowsTx, RollbackTrash, DropRows, CreateFile, RegisterFile, RejectFile,
     FailRegister, RemoveIntent
<1>3. ASSUME NEW i \in Ops, Replay(i)
      PROVE  Home(k)'
  BY <1>3 DEF Replay, ReplayMoveEntry, ReplayMoveRows, ReplayTrashEntry,
     ReplayTrashRow, ReplayTrashDropRows, ReplayGiveUp, ReplayRemove
<1>4. ASSUME NEW i \in Ops, Disconnect(i)
      PROVE  Home(k)'
  BY <1>4 DEF Disconnect, Abandoned, Live
<1>5. CASE Crash
  BY <1>5 DEF Crash, Abandoned, Live
<1>6. CASE ListRead \/ ListStat \/ ListPurge \/ Boot \/ Serve
  BY <1>6 DEF ListRead, ListStat, ListPurge, Boot, Serve
<1>7. CASE UNCHANGED vars
  BY <1>7 DEF vars
<1>8. QED
  BY <1>1, <1>2, <1>3, <1>4, <1>5, <1>6, <1>7 DEF Next

\* What the steps do to the places.
EntryMoves(from, to) == fs' = Move(fs, from, to) /\ UNCHANGED trashDir

EntryTrashed(i, p) ==
  /\ trashDir' = [trashDir EXCEPT ![i] = fs[p]]
  /\ fs' = [fs EXCEPT ![p] = Nil]

EntryPutBack(i, p) ==
  /\ fs' = [fs EXCEPT ![p] = trashDir[i]]
  /\ trashDir' = [trashDir EXCEPT ![i] = Nil]

EntryRejected(p) == fs' = [fs EXCEPT ![p] = Nil] /\ UNCHANGED trashDir

LEMMA DiskCases ==
  ASSUME TypeOK, [Next]_vars
  PROVE  \/ UNCHANGED disk
         \/ \E from, to \in Paths : EntryMoves(from, to)
         \/ \E i \in Ops, p \in Paths : EntryTrashed(i, p) \/ EntryPutBack(i, p)
         \/ \E p \in Paths : EntryRejected(p)
         \/ \E i \in Ops : CreateFile(i)
<1> USE DEF TypeOK, Request, NoRequest, disk, At, Replaying, EntryMoves, EntryTrashed,
            EntryPutBack, EntryRejected
<1>1. ASSUME NEW i \in Ops, Advance(i), ~CreateFile(i)
      PROVE  \/ UNCHANGED disk
             \/ \E from, to \in Paths : EntryMoves(from, to)
             \/ \E p \in Paths : EntryTrashed(i, p) \/ EntryPutBack(i, p) \/ EntryRejected(p)
  <2>1. CASE MoveEntry(i) \/ RollbackMove(i)
    BY <2>1 DEF MoveEntry, RollbackMove
  <2>2. CASE TrashEntry(i) \/ RollbackTrash(i) \/ RejectFile(i)
    BY <2>2 DEF TrashEntry, RollbackTrash, RejectFile
  <2>3. QED
    BY <1>1, <2>1, <2>2 DEF Advance, LogIntent, MoveRows, TrashRowsTx, DropRows,
       RegisterFile, FailRegister, RemoveIntent
<1>2. ASSUME NEW i \in Ops, Replay(i)
      PROVE  \/ UNCHANGED disk
             \/ \E from, to \in Paths : EntryMoves(from, to)
             \/ \E p \in Paths : EntryTrashed(i, p)
  <2>1. CASE ReplayMoveEntry(i) \/ ReplayTrashEntry(i)
    BY <2>1 DEF ReplayMoveEntry, ReplayTrashEntry
  <2>2. QED
    BY <1>2, <2>1 DEF Replay, ReplayMoveRows, ReplayTrashRow, ReplayTrashDropRows,
       ReplayGiveUp, ReplayRemove
<1>3. CASE Next /\ ~\E i \in Ops : Advance(i) \/ Replay(i)
  BY <1>3 DEF Next, StartMove, StartTrash, StartPut, Begin, Disconnect, ListRead,
     ListStat, ListPurge, Crash, Boot, Serve
<1>4. CASE UNCHANGED vars
  BY <1>4 DEF vars
<1>5. QED
  BY <1>1, <1>2, <1>3, <1>4

LEMMA UnsharedStep ==
  ASSUME TypeOK, Stage, Unshared, [Next]_vars
  PROVE  Unshared'
<1>1. OnePlace /\ \A k \in Ops : Stored(k) => Home(k)
  BY DEF Unshared
<1>2. ASSUME \A k \in Ops : Stored(k)' => Stored(k), OnePlace'
      PROVE  Unshared'
  BY <1>1, <1>2, HomeStep DEF Unshared
<1>3. \A k \in Ops : k # Nil
  BY DriveAssumption
<1> USE DEF TypeOK
<1>4. CASE UNCHANGED disk
  BY <1>1, <1>2, <1>4 DEF disk, OnePlace, Stored
<1>5. ASSUME NEW from \in Paths, NEW to \in Paths, EntryMoves(from, to)
      PROVE  Unshared'
  <2>1. OnePlace'
    BY <1>1, <1>5 DEF EntryMoves, Move, OnePlace
  <2>2. \A k \in Ops : Stored(k)' => Stored(k)
    BY <1>3, <1>5 DEF EntryMoves, Move, Stored
  <2>3. QED
    BY <1>2, <2>1, <2>2
<1>6. ASSUME NEW i \in Ops, NEW p \in Paths, EntryTrashed(i, p)
      PROVE  Unshared'
  <2>1. OnePlace'
    BY <1>1, <1>6 DEF EntryTrashed, OnePlace
  <2>2. \A k \in Ops : Stored(k)' => Stored(k)
    BY <1>3, <1>6 DEF EntryTrashed, Stored
  <2>3. QED
    BY <1>2, <2>1, <2>2
<1>7. ASSUME NEW i \in Ops, NEW p \in Paths, EntryPutBack(i, p)
      PROVE  Unshared'
  <2>1. OnePlace'
    BY <1>1, <1>7 DEF EntryPutBack, OnePlace
  <2>2. \A k \in Ops : Stored(k)' => Stored(k)
    BY <1>3, <1>7 DEF EntryPutBack, Stored
  <2>3. QED
    BY <1>2, <2>1, <2>2
<1>8. ASSUME NEW p \in Paths, EntryRejected(p)
      PROVE  Unshared'
  <2>1. OnePlace'
    BY <1>1, <1>8 DEF EntryRejected, OnePlace
  <2>2. \A k \in Ops : Stored(k)' => Stored(k)
    BY <1>3, <1>8 DEF EntryRejected, Stored
  <2>3. QED
    BY <1>2, <2>1, <2>2
<1>9. ASSUME NEW i \in Ops, CreateFile(i)
      PROVE  Unshared'
  <2>1. CASE UNCHANGED fs
    BY <1>4, <1>9, <2>1 DEF CreateFile, disk
  <2>2. CASE fs' = [fs EXCEPT ![op[i].dst] = i] /\ Goto(i, "created")
    <3>1. op[i].kind = "put" /\ op[i].dst \in Paths /\ trashDir' = trashDir /\ op' = op
          /\ pc[i] = "checked"
      BY <1>9 DEF CreateFile, At, Request, NoRequest
    <3>2. ~Stored(i)
      BY <1>1, <3>1 DEF Home
    <3>3. OnePlace'
      BY <1>1, <2>2, <3>1, <3>2 DEF OnePlace, Stored
    <3>4. \A k \in Ops \ {i} : Stored(k)' => Stored(k)
      BY <1>3, <2>2, <3>1 DEF Stored
    <3>5. Home(i)'
      BY <2>2, <3>1 DEF Home, Goto
    <3>6. QED
      BY <1>1, <3>3, <3>4, <3>5, HomeStep DEF Unshared
  <2>3. QED
    BY <1>9, <2>1, <2>2 DEF CreateFile
<1>10. QED
  BY <1>4, <1>5, <1>6, <1>7, <1>8, <1>9, DiskCases

------------------------------------------------------------------------------
(* As long as requests keep apart and the journal can be written, the      *)
(* intent of an operation is in fs_journal from before its first write     *)
(* until table and directory agree again, and tells how far it has come.   *)

Orderly == faults \subseteq {"txfail", "list"}

\* what the row of a path should be; a listing may have purged it
RowIs(p, c) == rows[p] = c \/ ("list" \in faults /\ rows[p] = Nil)

Open(i) == Running(i) \/ Pending(i)

Apart ==
  \A i, j \in Ops :
    i # j /\ Open(i) /\ Open(j) => Footprint(i) \cap Footprint(j) = {}

\* Nothing has moved yet, or all of it is back.
Before(i) ==
  /\ RowIs(op[i].src, Listed(fs[op[i].src]))
  /\ op[i].kind = "move" => fs[op[i].dst] = Nil /\ rows[op[i].dst] = Nil
  /\ op[i].kind = "trash" => trashDir[i] = Nil /\ trashRows[i] = Nil

\* The entry has moved, its row has not.
Half(i) ==
  /\ fs[op[i].src] = Nil
  /\ op[i].kind = "move" =>
       /\ fs[op[i].dst] # Nil /\ rows[op[i].dst] = Nil
       /\ RowIs(op[i].src, Listed(fs[op[i].dst]))
  /\ op[i].kind = "trash" =>
       /\ trashDir[i] # Nil
       /\ RowIs(op[i].src, Listed(trashDir[i]))

After(i) ==
  /\ fs[op[i].src] = Nil /\ rows[op[i].src] = Nil
  /\ op[i].kind = "move" =>
       fs[op[i].dst] # Nil /\ RowIs(op[i].dst, Listed(fs[op[i].dst]))
  /\ op[i].kind = "trash" => trashDir[i] # Nil /\ trashRows[i] # Nil

\* How far the operation of a pending intent is, by where its handler stands.
Tracked(i) ==
  Pending(i) =>
    /\ op[i].kind \in {"move", "trash"}
    /\ Before(i) \/ Half(i) \/ After(i)
    /\ pc[i] \in {"logged", "undone"} => Before(i)
    /\ pc[i] = "moved" => Half(i)
    /\ pc[i] = "applied" => After(i)
    /\ i \in settled => After(i) \/ (Before(i) /\ fs[op[i].src] = Nil)

\* The intent is there while the handler needs it, and the replay sees it.
Marked(i) ==
  /\ op[i].kind \in {"trash", "put"} => op[i].src = op[i].dst
  /\ phase = "up" => (Pending(i) <=> pc[i] \in {"logged", "moved", "applied", "undone"})
  /\ phase = "replay" => (Pending(i) <=> i \in todo)
  /\ phase # "replay" => i \notin todo
  /\ i \in settled => i \in todo

\* Where no intent is pending table and directory agree.
Covered(p) == RowIs(p, Listed(fs[p])) \/ \E i \in Ops : Pending(i) /\ p \in Footprint(i)
BinCovered(i) ==
  /\ TrashAgrees(i) \/ (Pending(i) /\ op[i].kind = "trash")
  /\ op[i].kind # "trash" => trashDir[i] = Nil

ReplayInv ==
  /\ listing.stage # "none" => "list" \in faults
  /\ Orderly =>
       /\ Apart
       /\ \A i \in Ops : Tracked(i) /\ Marked(i) /\ BinCovered(i)
       /\ \A p \in Paths : Covered(p)

LEMMA ReplayInvInit == Init => ReplayInv
<1> SUFFICES ASSUME Init
             PROVE  ReplayInv
  OBVIOUS
<1>1. \A i \in Ops : ~Running(i) /\ ~Pending(i) /\ op[i].kind = "none" /\ i \notin Unregistered
  BY DEF Init, Running, Live, Pending, NoRequest, Unregistered
<1>2. \A p \in Paths : rows[p] = Listed(fs[p])
  BY <1>1, DriveAssumption DEF Init, Listed, Unregistered
<1>3. \A i \in Ops : TrashAgrees(i)
  BY DEF Init, TrashAgrees
<1>4. \A i \in Ops : Marked(i)
  BY <1>1 DEF Init, Marked
<1>5. QED
  BY <1>1, <1>2, <1>3, <1>4 DEF Init, NoListing, ReplayInv, Apart, Open, Tracked,
     BinCovered, Covered, RowIs

------------------------------------------------------------------------------
(* What a step on behalf of operation i leaves alone.                      *)

Frame(i) ==
  /\ op' = op /\ faults' = faults
  /\ \A p \in Paths \ Footprint(i) :
       /\ fs'[p] = fs[p] /\ rows'[p] = rows[p]
       /\ fs[p] \in Unregistered' <=> fs[p] \in Unregistered
  /\ \A j \in Ops \ {i} :
       /\ trashDir'[j] = trashDir[j] /\ trashRows'[j] = trashRows[j] /\ jid'[j] = jid[j]
       /\ trashDir[j] \in Unregistered' <=> trashDir[j] \in Unregistered

LEMMA FootprintInPaths ==
  ASSUME TypeOK, NEW i \in Ops, op[i].kind # "none"
  PROVE  op[i].src \in Paths /\ op[i].dst \in Paths
BY DEF TypeOK, Request, NoRequest

\* What operation i did is invisible to the pending operations elsewhere.
LEMMA OthersTracked ==
  ASSUME TypeOK, NEW i \in Ops, NEW j \in Ops \ {i}, Apart, Open(i), Frame(i),
         Tracked(j), pc'[j] = pc[j], j \in settled' => j \in settled
  PROVE  Tracked(j)'
<1> SUFFICES ASSUME Pending(j)
             PROVE  Tracked(j)'
  BY DEF Tracked, Frame, Pending
<1>1. op[j].kind \in {"move", "trash"}
  BY DEF Tracked
<1>2. op[j].src \in Paths \ Footprint(i) /\ op[j].dst \in Paths \ Footprint(i)
  <2>1. Footprint(i) \cap Footprint(j) = {}
    BY DEF Apart, Open
  <2>2. QED
    BY <1>1, <2>1, FootprintInPaths DEF Footprint
<1>3. /\ Before(j) => Before(j)'
      /\ Half(j) => Half(j)'
      /\ After(j) => After(j)'
  BY <1>2 DEF Frame, Before, Half, After, RowIs, Listed
<1>4. (Before(j) /\ fs[op[j].src] = Nil) => fs'[op[j].src] = Nil
  BY <1>2 DEF Frame
<1>5. op'[j] = op[j]
  BY DEF Frame
<1>6. QED
  BY <1>3, <1>4, <1>5 DEF Tracked

\* It is enough to look at the operation that takes the step.
LEMMA OneOperation ==
  ASSUME TypeOK, NEW i \in Ops, Apart, Open(i), Frame(i),
         \A j \in Ops : Tracked(j) /\ BinCovered(j),
         \A p \in Paths : Covered(p),
         \A j \in Ops \ {i} : pc'[j] = pc[j] /\ (j \in settled' => j \in settled),
         Tracked(i)', BinCovered(i)',
         \/ Pending(i)'
         \/ \A p \in Footprint(i) \cap Paths : rows'[p] = Listed(fs[p])'
                                              \/ ("list" \in faults /\ rows'[p] = Nil)
  PROVE  /\ Apart'
         /\ \A j \in Ops : Tracked(j)' /\ BinCovered(j)'
         /\ \A p \in Paths : Covered(p)'
<1>1. \A j \in Ops : Open(j)' => Open(j)
  BY DEF Open, Running, Pending, Frame
<1>2. \A j \in Ops : Footprint(j)' = Footprint(j)
  BY DEF Frame, Footprint
<1>3. Apart'
  BY <1>1, <1>2 DEF Apart
<1>4. ASSUME NEW j \in Ops
      PROVE  Tracked(j)' /\ BinCovered(j)'
  <2>1. CASE j = i
    BY <2>1
  <2>2. CASE j # i
    <3>1. Tracked(j)'
      BY <2>2, OthersTracked
    <3>2. BinCovered(j)'
      BY <2>2 DEF BinCovered, TrashAgrees, Pending, Frame
    <3>3. QED
      BY <3>1, <3>2
  <2>3. QED
    BY <2>1, <2>2
<1>5. ASSUME NEW p \in Paths
      PROVE  Covered(p)'
  <2>1. CASE p \in Footprint(i)
    BY <2>1, <1>2 DEF Covered, RowIs, Frame
  <2>2. CASE p \notin Footprint(i)
    <3>1. RowIs(p, Listed(fs[p])) => RowIs(p, Listed(fs[p]))'
      BY <2>2 DEF RowIs, Listed, Frame
    <3>2. \A j \in Ops : Pending(j) /\ p \in Footprint(j) => Pending(j)'
      BY <2>2 DEF Pending, Frame
    <3>3. QED
      BY <1>2, <3>1, <3>2 DEF Covered
  <2>3. QED
    BY <2>1, <2>2
<1>6. QED
  BY <1>3, <1>4, <1>5

------------------------------------------------------------------------------
(* The steps of a handler.                                                 *)

\* What the proofs below start from.
Known == TypeOK /\ PlaceInv /\ TrashInv /\ Unshared /\ ReplayInv /\ Orderly

LEMMA OrderlyFacts ==
  ASSUME Known
  PROVE  /\ "overlap" \notin faults /\ "disconnect" \notin faults /\ "lossyjournal" \notin faults
         /\ Stage /\ Separate /\ OnePlace /\ Apart
         /\ \A i \in Ops : /\ Prepared(i) /\ TrashStage(i) /\ Tracked(i) /\ Marked(i)
                           /\ BinCovered(i) /\ (Stored(i) => Home(i))
         /\ \A p \in Paths : Covered(p)
BY DEF Known, Orderly, PlaceInv, TrashInv, Unshared, ReplayInv

\* Before its intent is written, table and directory agree on what an
\* operation works on.
LEMMA UntouchedRows ==
  ASSUME Known, NEW i \in Ops, Running(i), ~Pending(i), op[i].kind # "none"
  PROVE  /\ RowIs(op[i].src, Listed(fs[op[i].src]))
         /\ RowIs(op[i].dst, Listed(fs[op[i].dst]))
<1>1. ASSUME NEW p \in Footprint(i) \cap Paths
      PROVE  RowIs(p, Listed(fs[p]))
  BY OrderlyFacts DEF Apart, Open, Covered
<1>2. op[i].src \in Paths /\ op[i].dst \in Paths
  BY FootprintInPaths DEF Known
<1>3. op[i].src \in Footprint(i) \cap Paths /\ op[i].dst \in Footprint(i) \cap Paths
  BY <1>2 DEF Footprint
<1>4. QED
  BY <1>1, <1>3

LEMMA AdvanceKind ==
  ASSUME NEW i \in Ops, Known, Advance(i)
  PROVE  /\ op[i].kind \in {"move", "trash", "put"}
         /\ phase = "up" /\ Running(i)
         /\ op[i].src \in Paths /\ op[i].dst \in Paths
<1>1. phase = "up" /\ Running(i)
  BY DEF Advance, LogIntent, MoveEntry, MoveRows, RollbackMove, TrashEntry, TrashRowsTx,
     RollbackTrash, DropRows, CreateFile, RegisterFile, RejectFile, FailRegister,
     RemoveIntent, At, Running, Live
<1>2. op[i].kind \in {"move", "trash", "put"}
  <2>1. CASE RemoveIntent(i)
    BY <2>1, OrderlyFacts DEF RemoveIntent, Marked, Tracked
  <2>2. CASE ~RemoveIntent(i)
    BY <2>2 DEF Advance, LogIntent, MoveEntry, MoveRows, RollbackMove, TrashEntry,
       TrashRowsTx, RollbackTrash, DropRows, CreateFile, RegisterFile, RejectFile,
       FailRegister, At
  <2>3. QED
    BY <2>1, <2>2
<1>3. QED
  BY <1>1, <1>2, FootprintInPaths DEF Known

\* A handler's step writes only what its operation names.
LEMMA AdvanceFrame ==
  ASSUME NEW i \in Ops, Known, Advance(i)
  PROVE  /\ Frame(i) /\ UNCHANGED <<phase, todo, settled>>
         /\ \A j \in Ops \ {i} : pc'[j] = pc[j]
         /\ ~(CreateFile(i) \/ RegisterFile(i) \/ RejectFile(i)) => Unregistered' = Unregistered
<1> USE DEF Goto, At, disk, tables, journal, server, reader
<1>1. TypeOK
  BY DEF Known
<1>2. /\ op' = op /\ faults' = faults /\ UNCHANGED <<phase, todo, settled>>
      /\ \A j \in Ops \ {i} : /\ pc'[j] = pc[j]
                              /\ trashDir'[j] = trashDir[j] /\ trashRows'[j] = trashRows[j]
                              /\ jid'[j] = jid[j]
  BY <1>1 DEF TypeOK, Advance, LogIntent, MoveEntry, MoveRows, RollbackMove, TrashEntry,
     TrashRowsTx, RollbackTrash, DropRows, CreateFile, RegisterFile, RejectFile,
     FailRegister, RemoveIntent
<1>3. \A p \in Paths \ Footprint(i) : fs'[p] = fs[p] /\ rows'[p] = rows[p]
  <2> USE <1>1 DEF TypeOK, Footprint, Move, MovedRows
  <2>1. CASE LogIntent(i) \/ RemoveIntent(i) \/ FailRegister(i)
    BY <2>1 DEF LogIntent, RemoveIntent, FailRegister
  <2>2. CASE MoveEntry(i) \/ RollbackMove(i)
    BY <2>2 DEF MoveEntry, RollbackMove
  <2>3. CASE MoveRows(i)
    BY <2>3 DEF MoveRows
  <2>4. CASE TrashEntry(i) \/ TrashRowsTx(i) \/ RollbackTrash(i) \/ DropRows(i)
    BY <2>4 DEF TrashEntry, TrashRowsTx, RollbackTrash, DropRows
  <2>5. CASE CreateFile(i) \/ RegisterFile(i) \/ RejectFile(i)
    BY <2>5 DEF CreateFile, RegisterFile, RejectFile
  <2>6. QED
    BY <2>1, <2>2, <2>3, <2>4, <2>5 DEF Advance
<1>4. \A c : c # i => (c \in Unregistered' <=> c \in Unregistered)
  BY <1>2 DEF Unregistered
<1>5. ASSUME ~(CreateFile(i) \/ RegisterFile(i) \/ RejectFile(i))
      PROVE  Unregistered' = Unregistered
  <2>1. i \in Unregistered' <=> i \in Unregistered
    BY <1>1, <1>5 DEF TypeOK, Unregistered, Advance, LogIntent, MoveEntry, MoveRows,
       RollbackMove, TrashEntry, TrashRowsTx, RollbackTrash, DropRows, FailRegister,
       RemoveIntent
  <2>2. QED
    BY <1>4, <2>1 DEF Unregistered
<1>6. ASSUME CreateFile(i) \/ RegisterFile(i) \/ RejectFile(i)
      PROVE  /\ \A p \in Paths \ Footprint(i) : fs[p] # i
             /\ \A j \in Ops : trashDir[j] # i
  <2>1. CASE CreateFile(i)
    BY <2>1, OrderlyFacts DEF CreateFile, Home, Stored
  <2>2. CASE RegisterFile(i) \/ RejectFile(i)
    <3>1. pc[i] = "created" /\ op[i].dst \in Paths
      BY <2>2, AdvanceKind DEF RegisterFile, RejectFile, Advance
    <3>2. fs[op[i].dst] = i /\ i # Nil
      BY <3>1, OrderlyFacts, DriveAssumption DEF Prepared
    <3>3. QED
      BY <3>1, <3>2, OrderlyFacts DEF OnePlace, Footprint
  <2>3. QED
    BY <1>6, <2>1, <2>2
<1>7. Frame(i)
  BY <1>2, <1>3, <1>4, <1>5, <1>6 DEF Frame
<1>8. QED
  BY <1>2, <1>5, <1>7

\* What an operation has to show for itself after a step of its handler.
Accounted(i) ==
  /\ Tracked(i) /\ BinCovered(i)
  /\ Pending(i) <=> pc[i] \in {"logged", "moved", "applied", "undone"}
  /\ \/ Pending(i)
     \/ \A p \in Footprint(i) \cap Paths : RowIs(p, Listed(fs[p]))

LEMMA MoveAccounted ==
  ASSUME NEW i \in Ops, Known, op[i].kind = "move", Advance(i)
  PROVE  Accounted(i)'
<1> USE DEF Goto, At, disk, tables, journal
<1>1. /\ op[i].src \in Paths /\ op[i].dst \in Paths /\ op[i].src # op[i].dst
      /\ op' = op /\ faults' = faults /\ settled' = settled /\ i \notin settled
      /\ "lossyjournal" \notin faults /\ phase = "up"
      /\ ~(CreateFile(i) \/ RegisterFile(i) \/ RejectFile(i)) => Unregistered' = Unregistered
  BY AdvanceKind, AdvanceFrame, OrderlyFacts DEF Frame, Prepared, Marked
<1>2. Tracked(i) /\ BinCovered(i) /\ Prepared(i) /\ Marked(i) /\ Footprint(i)' = {op[i].src, op[i].dst}
  BY <1>1, OrderlyFacts DEF Footprint
<1>3. /\ rows \in [Paths -> Contents \cup {Nil}] /\ fs \in [Paths -> Contents \cup {Nil}]
      /\ jid \in [Ops -> Nat] /\ nextJid \in Nat \ {0} /\ DOMAIN pc = Ops
      /\ Nil \notin Contents
  BY DriveAssumption DEF Known, TypeOK, Contents
<1>4. CASE LogIntent(i)
  <2>1. Running(i) /\ ~Pending(i)
    BY <1>1, <1>2, <1>4 DEF LogIntent, Running, Live, Marked
  <2>2. RowIs(op[i].src, Listed(fs[op[i].src])) /\ RowIs(op[i].dst, Listed(fs[op[i].dst]))
    BY <1>1, <2>1, UntouchedRows
  <2>3. fs[op[i].dst] = Nil /\ Nil \notin Unregistered
    BY <1>2, <1>4, DriveAssumption DEF LogIntent, Prepared, Unregistered
  <2>4. rows[op[i].dst] = Nil
    BY <2>2, <2>3 DEF RowIs, Listed
  <2>5. Unregistered' = Unregistered
    BY <1>1, <1>4 DEF LogIntent, CreateFile, RegisterFile, RejectFile
  <2>6. CASE pc' = [pc EXCEPT ![i] = "logged"] /\ jid' = [jid EXCEPT ![i] = nextJid]
    BY <1>1, <1>2, <1>3, <1>4, <2>2, <2>3, <2>4, <2>5, <2>6
       DEF LogIntent, Accounted, Tracked, BinCovered, TrashAgrees, Pending, Before, RowIs, Listed
  <2>7. CASE pc' = [pc EXCEPT ![i] = "done"] /\ jid' = jid
    BY <1>1, <1>2, <1>3, <1>4, <2>1, <2>2, <2>5, <2>7
       DEF LogIntent, Accounted, Tracked, BinCovered, TrashAgrees, Pending, RowIs, Listed
  <2>8. QED
    BY <1>4, <2>6, <2>7 DEF LogIntent
<1>5. CASE MoveEntry(i)
  <2>1. Pending(i) /\ Pending(i)' /\ Before(i) /\ Unregistered' = Unregistered
    BY <1>1, <1>2, <1>5 DEF MoveEntry, CreateFile, RegisterFile, RejectFile, Tracked, Marked,
       Pending
  <2>2. CASE fs[op[i].src] # Nil /\ fs' = Move(fs, op[i].src, op[i].dst) /\ Goto(i, "moved")
    <3>1. Half(i)'
      BY <1>1, <1>3, <1>5, <2>1, <2>2 DEF MoveEntry, Move, Before, Half, RowIs, Listed
    <3>2. QED
      BY <1>1, <1>2, <1>3, <1>5, <2>1, <2>2, <3>1
         DEF MoveEntry, Accounted, Tracked, BinCovered, TrashAgrees
  <2>3. CASE UNCHANGED fs /\ Goto(i, "undone")
    <3>1. Before(i)'
      BY <1>1, <1>5, <2>1, <2>3 DEF MoveEntry, Before, RowIs, Listed
    <3>2. QED
      BY <1>1, <1>2, <1>3, <1>5, <2>1, <2>3, <3>1
         DEF MoveEntry, Accounted, Tracked, BinCovered, TrashAgrees
  <2>4. QED
    BY <1>5, <2>2, <2>3 DEF MoveEntry
<1>6. CASE MoveRows(i)
  <2>1. Pending(i) /\ Pending(i)' /\ Half(i) /\ Unregistered' = Unregistered
    BY <1>1, <1>2, <1>6 DEF MoveRows, CreateFile, RegisterFile, RejectFile, Tracked, Marked,
       Pending
  <2>2. After(i)'
    BY <1>1, <1>3, <1>6, <2>1 DEF MoveRows, MovedRows, Move, Half, After, RowIs, Listed
  <2>3. QED
    BY <1>1, <1>2, <1>3, <1>6, <2>1, <2>2
       DEF MoveRows, Accounted, Tracked, BinCovered, TrashAgrees
<1>7. CASE RollbackMove(i)
  <2>1. Pending(i) /\ Pending(i)' /\ Half(i) /\ Unregistered' = Unregistered
    BY <1>1, <1>2, <1>7 DEF RollbackMove, CreateFile, RegisterFile, RejectFile, Tracked, Marked,
       Pending
  <2>2. Before(i)'
    BY <1>1, <1>3, <1>7, <2>1 DEF RollbackMove, Move, Half, Before, RowIs, Listed
  <2>3. QED
    BY <1>1, <1>2, <1>3, <1>7, <2>1, <2>2
       DEF RollbackMove, Accounted, Tracked, BinCovered, TrashAgrees
<1>8. CASE RemoveIntent(i)
  <2>1. Pending(i) /\ ~Pending(i)' /\ (Before(i) \/ After(i)) /\ Unregistered' = Unregistered
    BY <1>1, <1>2, <1>3, <1>8 DEF RemoveIntent, CreateFile, RegisterFile, RejectFile, Tracked,
       Marked, Pending
  <2>2. Nil \notin Unregistered
    BY DriveAssumption DEF Unregistered
  <2>3. \A p \in Footprint(i) : RowIs(p, Listed(fs[p]))
    BY <1>1, <2>1, <2>2 DEF Before, After, RowIs, Listed, Footprint
  <2>4. QED
    BY <1>1, <1>2, <1>3, <1>8, <2>1, <2>3
       DEF RemoveIntent, Accounted, Tracked, BinCovered, TrashAgrees, RowIs, Listed, Footprint
<1>9. QED
  BY <1>4, <1>5, <1>6, <1>7, <1>8 DEF Advance, TrashEntry, TrashRowsTx, RollbackTrash,
     DropRows, CreateFile, RegisterFile, RejectFile, FailRegister

LEMMA TrashAccounted ==
  ASSUME NEW i \in Ops, Known, op[i].kind = "trash", Advance(i)
  PROVE  Accounted(i)'
<1> USE DEF Goto, At, disk, tables, journal
<1>1. /\ op[i].src \in Paths /\ op[i].src = op[i].dst
      /\ op' = op /\ faults' = faults /\ settled' = settled /\ i \notin settled
      /\ "lossyjournal" \notin faults /\ phase = "up"
      /\ ~(CreateFile(i) \/ RegisterFile(i) \/ RejectFile(i)) => Unregistered' = Unregistered
  BY AdvanceKind, AdvanceFrame, OrderlyFacts DEF Frame, Marked
<1>2. /\ Tracked(i) /\ BinCovered(i) /\ Prepared(i) /\ Marked(i) /\ TrashStage(i)
      /\ Footprint(i)' = {op[i].src}
  BY <1>1, OrderlyFacts DEF Footprint
<1>3. /\ rows \in [Paths -> Contents \cup {Nil}] /\ fs \in [Paths -> Contents \cup {Nil}]
      /\ trashDir \in [Ops -> Contents \cup {Nil}] /\ trashRows \in [Ops -> Paths \cup {Nil}]
      /\ jid \in [Ops -> Nat] /\ nextJid \in Nat \ {0} /\ DOMAIN pc = Ops
      /\ Nil \notin Contents /\ Nil \notin Paths /\ Nil \notin Unregistered
  BY DriveAssumption DEF Known, TypeOK, Contents, Unregistered
<1>4. CASE LogIntent(i)
  <2>1. Running(i) /\ ~Pending(i)
    BY <1>1, <1>2, <1>4 DEF LogIntent, Running, Live, Marked
  <2>2. RowIs(op[i].src, Listed(fs[op[i].src]))
    BY <1>1, <2>1, UntouchedRows
  <2>3. trashDir[i] = Nil /\ trashRows[i] = Nil
    BY <1>2, <1>4 DEF LogIntent, Prepared, TrashStage
  <2>4. Unregistered' = Unregistered
    BY <1>1, <1>4 DEF LogIntent, CreateFile, RegisterFile, RejectFile
  <2>5. CASE pc' = [pc EXCEPT ![i] = "logged"] /\ jid' = [jid EXCEPT ![i] = nextJid]
    BY <1>1, <1>2, <1>3, <1>4, <2>2, <2>3, <2>4, <2>5
       DEF LogIntent, Accounted, Tracked, BinCovered, TrashAgrees, Pending, Before, RowIs, Listed
  <2>6. CASE pc' = [pc EXCEPT ![i] = "done"] /\ jid' = jid
    BY <1>1, <1>2, <1>3, <1>4, <2>1, <2>2, <2>3, <2>4, <2>6
       DEF LogIntent, Accounted, Tracked, BinCovered, TrashAgrees, Pending, RowIs, Listed
  <2>7. QED
    BY <1>4, <2>5, <2>6 DEF LogIntent
<1>5. CASE TrashEntry(i)
  <2>1. Pending(i) /\ Pending(i)' /\ Before(i) /\ Unregistered' = Unregistered
    BY <1>1, <1>2, <1>5 DEF TrashEntry, CreateFile, RegisterFile, RejectFile, Tracked, Marked,
       Pending
  <2>2. CASE fs[op[i].src] # Nil /\ Goto(i, "moved")
             /\ trashDir' = [trashDir EXCEPT ![i] = fs[op[i].src]]
             /\ fs' = [fs EXCEPT ![op[i].src] = Nil]
    <3>1. Half(i)'
      BY <1>1, <1>3, <1>5, <2>1, <2>2 DEF TrashEntry, Before, Half, RowIs, Listed
    <3>2. QED
      BY <1>1, <1>2, <1>3, <1>5, <2>1, <2>2, <3>1 DEF TrashEntry, Accounted, Tracked, BinCovered
  <2>3. CASE UNCHANGED disk /\ Goto(i, "undone")
    <3>1. Before(i)'
      BY <1>1, <1>5, <2>1, <2>3 DEF TrashEntry, Before, RowIs, Listed
    <3>2. QED
      BY <1>1, <1>2, <1>3, <1>5, <2>1, <2>3, <3>1 DEF TrashEntry, Accounted, Tracked, BinCovered
  <2>4. QED
    BY <1>5, <2>2, <2>3 DEF TrashEntry
<1>6. CASE TrashRowsTx(i)
  <2>1. Pending(i) /\ Pending(i)' /\ Half(i) /\ Unregistered' = Unregistered
    BY <1>1, <1>2, <1>6 DEF TrashRowsTx, CreateFile, RegisterFile, RejectFile, Tracked, Marked,
       Pending
  <2>2. After(i)'
    BY <1>1, <1>3, <1>6, <2>1 DEF TrashRowsTx, Half, After
  <2>3. QED
    BY <1>1, <1>2, <1>3, <1>6, <2>1, <2>2 DEF TrashRowsTx, Accounted, Tracked, BinCovered
<1>7. CASE RollbackTrash(i)
  <2>1. Pending(i) /\ Pending(i)' /\ Half(i) /\ Unregistered' = Unregistered
    BY <1>1, <1>2, <1>7 DEF RollbackTrash, CreateFile, RegisterFile, RejectFile, Tracked, Marked,
       Pending
  <2>2. trashRows[i] = Nil
    BY <1>1, <1>2, <1>7 DEF RollbackTrash, TrashStage
  <2>3. Before(i)'
    BY <1>1, <1>3, <1>7, <2>1, <2>2 DEF RollbackTrash, Half, Before, RowIs, Listed
  <2>4. QED
    BY <1>1, <1>2, <1>3, <1>7, <2>1, <2>3 DEF RollbackTrash, Accounted, Tracked, BinCovered
<1>8. CASE RemoveIntent(i)
  <2>1. Pending(i) /\ ~Pending(i)' /\ (Before(i) \/ After(i)) /\ Unregistered' = Unregistered
    BY <1>1, <1>2, <1>3, <1>8 DEF RemoveIntent, CreateFile, RegisterFile, RejectFile, Tracked,
       Marked, Pending
  <2>2. RowIs(op[i].src, Listed(fs[op[i].src]))
    BY <1>1, <1>3, <2>1 DEF Before, After, RowIs, Listed
  <2>3. TrashAgrees(i)
    BY <2>1 DEF Before, After, TrashAgrees
  <2>4. QED
    BY <1>1, <1>2, <1>3, <1>8, <2>1, <2>2, <2>3
       DEF RemoveIntent, Accounted, Tracked, BinCovered, TrashAgrees, RowIs, Listed
<1>9. CASE DropRows(i)
  <2>1. ~Pending(i) /\ ~Pending(i)' /\ fs[op[i].src] = Nil /\ Unregistered' = Unregistered
    BY <1>1, <1>2, <1>9 DEF DropRows, CreateFile, RegisterFile, RejectFile, Prepared, Marked,
       Pending
  <2>2. RowIs(op[i].src, Listed(fs[op[i].src]))
    BY <1>1, <1>9, <2>1, UntouchedRows DEF DropRows, Running, Live
  <2>3. QED
    BY <1>1, <1>2, <1>3, <1>9, <2>1, <2>2
       DEF DropRows, Accounted, Tracked, BinCovered, TrashAgrees, Pending, RowIs, Listed
<1>10. QED
  BY <1>4, <1>5, <1>6, <1>7, <1>8, <1>9 DEF Advance, MoveEntry, MoveRows, RollbackMove,
     CreateFile, RegisterFile, RejectFile, FailRegister

LEMMA PutAccounted ==
  ASSUME NEW i \in Ops, Known, op[i].kind = "put", Advance(i)
  PROVE  Accounted(i)'
<1> USE DEF Goto, At, disk, tables, journal
<1>1. /\ op[i].dst \in Paths /\ op[i].src = op[i].dst
      /\ op' = op /\ faults' = faults /\ phase = "up"
      /\ ~(CreateFile(i) \/ RegisterFile(i) \/ RejectFile(i)) => Unregistered' = Unregistered
  BY AdvanceKind, AdvanceFrame, OrderlyFacts DEF Frame, Marked
<1>2. /\ ~Pending(i) /\ Prepared(i) /\ Marked(i) /\ TrashAgrees(i) /\ trashDir[i] = Nil
      /\ Footprint(i)' = {op[i].dst}
  BY <1>1, OrderlyFacts DEF Footprint, Tracked, BinCovered
<1>3. /\ rows \in [Paths -> Contents \cup {Nil}] /\ fs \in [Paths -> Contents \cup {Nil}]
      /\ pc \in [Ops -> Live \cup {"idle", "done", "dead", "orphaned"}]
      /\ i # Nil /\ Nil \notin Unregistered
  BY DriveAssumption DEF Known, TypeOK, Contents, Unregistered
<1>4. CreateFile(i) \/ RegisterFile(i) \/ RejectFile(i) \/ FailRegister(i)
  BY <1>1, <1>2 DEF Advance, LogIntent, MoveEntry, MoveRows, RollbackMove, TrashEntry,
     TrashRowsTx, RollbackTrash, DropRows, RemoveIntent, Marked
<1>5. RowIs(op[i].dst, Listed(fs[op[i].dst]))
  BY <1>1, <1>2, AdvanceKind, UntouchedRows
<1>6. ~Pending(i)' /\ pc'[i] \in {"created", "orphaned", "done"} /\ UNCHANGED <<trashDir, trashRows>>
  BY <1>2, <1>3, <1>4 DEF CreateFile, RegisterFile, RejectFile, FailRegister, Pending
<1>7. RowIs(op[i].dst, Listed(fs[op[i].dst]))'
  <2>1. CASE CreateFile(i)
    <3>1. CASE fs[op[i].dst] = Nil
      <4>1. rows[op[i].dst] = Nil
        BY <1>3, <1>5, <3>1 DEF RowIs, Listed
      <4>2. i \in Unregistered' /\ fs'[op[i].dst] = i /\ rows' = rows
        BY <1>1, <1>3, <2>1, <3>1 DEF CreateFile, Unregistered
      <4>3. QED
        BY <1>1, <4>1, <4>2 DEF RowIs, Listed
    <3>2. CASE fs[op[i].dst] # Nil
      <4>1. i \in Unregistered' <=> i \in Unregistered
        BY <1>3, <2>1, <3>2 DEF CreateFile, Unregistered
      <4>2. Unregistered' = Unregistered
        BY <1>3, <2>1, <4>1 DEF CreateFile, Unregistered
      <4>3. QED
        BY <1>1, <1>5, <2>1, <3>2, <4>2 DEF CreateFile, RowIs, Listed
    <3>3. QED
      BY <3>1, <3>2
  <2>2. CASE RegisterFile(i)
    <3>1. fs'[op[i].dst] = i /\ rows'[op[i].dst] = i
      BY <1>1, <1>2, <1>3, <2>2 DEF RegisterFile, Prepared
    <3>2. i \notin Unregistered'
      BY <1>3, <2>2 DEF RegisterFile, Unregistered
    <3>3. QED
      BY <1>1, <3>1, <3>2 DEF RowIs, Listed
  <2>3. CASE RejectFile(i)
    <3>1. i \in Unregistered /\ fs[op[i].dst] = i
      BY <1>2, <2>3 DEF RejectFile, Prepared, Unregistered
    <3>2. rows[op[i].dst] = Nil
      BY <1>5, <3>1 DEF RowIs, Listed
    <3>3. fs'[op[i].dst] = Nil /\ rows' = rows
      BY <1>1, <1>3, <2>3 DEF RejectFile
    <3>4. QED
      BY <1>1, <3>2, <3>3 DEF RowIs, Listed
  <2>4. CASE FailRegister(i)
    <3>1. Unregistered' = Unregistered
      BY <1>3, <2>4 DEF FailRegister, Unregistered
    <3>2. QED
      BY <1>1, <1>5, <2>4, <3>1 DEF FailRegister, RowIs, Listed
  <2>5. QED
    BY <1>4, <2>1, <2>2, <2>3, <2>4
<1>8. QED
  BY <1>1, <1>2, <1>6, <1>7 DEF Accounted, Tracked, BinCovered, TrashAgrees

LEMMA AdvanceStep ==
  ASSUME NEW i \in Ops, Known, Advance(i)
  PROVE  ReplayInv'
<1>1. /\ Frame(i) /\ UNCHANGED <<phase, todo, settled>>
      /\ \A j \in Ops \ {i} : pc'[j] = pc[j]
      /\ phase = "up" /\ Running(i) /\ op[i].kind \in {"move", "trash", "put"}
  BY AdvanceFrame, AdvanceKind
<1>2. Accounted(i)'
  BY <1>1, MoveAccounted, TrashAccounted, PutAccounted
<1>3. Footprint(i)' = Footprint(i) /\ faults' = faults
  BY <1>1 DEF Frame, Footprint
<1>4. /\ Apart'
      /\ \A j \in Ops : Tracked(j)' /\ BinCovered(j)'
      /\ \A p \in Paths : Covered(p)'
  <2>1. Open(i) /\ TypeOK
    BY <1>1 DEF Open, Known
  <2>2. \/ Pending(i)'
        \/ \A p \in Footprint(i) \cap Paths : rows'[p] = Listed(fs[p])'
                                             \/ ("list" \in faults /\ rows'[p] = Nil)
    BY <1>2, <1>3 DEF Accounted, RowIs
  <2>3. Tracked(i)' /\ BinCovered(i)'
    BY <1>2 DEF Accounted
  <2>4. QED
    BY <1>1, <2>1, <2>2, <2>3, OrderlyFacts, OneOperation
<1>5. \A j \in Ops : Marked(j)'
  <2>1. \A j \in Ops \ {i} : Marked(j)'
    BY <1>1, OrderlyFacts DEF Marked, Pending, Frame
  <2>2. Marked(i)'
    BY <1>1, <1>2, OrderlyFacts DEF Marked, Accounted, Frame
  <2>3. QED
    BY <2>1, <2>2
<1>6. listing' = listing
  BY DEF Advance, LogIntent, MoveEntry, MoveRows, RollbackMove, TrashEntry, TrashRowsTx,
     RollbackTrash, DropRows, CreateFile, RegisterFile, RejectFile, FailRegister,
     RemoveIntent, reader
<1>7. QED
  BY <1>3, <1>4, <1>5, <1>6 DEF ReplayInv, Known

------------------------------------------------------------------------------
(* The steps of the replay.                                                *)

LEMMA ReplayFrame ==
  ASSUME NEW i \in Ops, Known, Replay(i)
  PROVE  /\ Frame(i) /\ Pending(i) /\ phase = "replay"
         /\ UNCHANGED <<phase, pc, listing>> /\ Unregistered' = Unregistered
         /\ \A j \in Ops \ {i} : /\ j \in settled' => j \in settled
                                 /\ j \in todo' <=> j \in todo
         /\ settled' \subseteq todo'
         /\ Pending(i)' <=> i \in todo'
<1> USE DEF disk, tables, journal, request, server, reader, Settle, Retain
<1>1. /\ phase = "replay" /\ i \in todo
      /\ UNCHANGED <<op, phase, pc, listing, faults>>
      /\ \A j \in Ops \ {i} : /\ j \in settled' => j \in settled
                              /\ j \in todo' <=> j \in todo
  BY OrderlyFacts DEF Replay, Replaying, ReplayMoveEntry, ReplayMoveRows, ReplayTrashEntry,
     ReplayTrashRow, ReplayTrashDropRows, ReplayGiveUp, ReplayRemove, Marked
<1>2. Pending(i) /\ op[i].kind \in {"move", "trash"} /\ Tracked(i)
  BY <1>1, OrderlyFacts DEF Marked, Tracked
<1>3. op[i].src \in Paths /\ op[i].dst \in Paths
  BY <1>2, FootprintInPaths DEF Known
<1>4. Unregistered' = Unregistered
  BY <1>1 DEF Unregistered
<1>5. /\ \A p \in Paths \ Footprint(i) : fs'[p] = fs[p] /\ rows'[p] = rows[p]
      /\ \A j \in Ops \ {i} : /\ trashDir'[j] = trashDir[j] /\ trashRows'[j] = trashRows[j]
                              /\ jid'[j] = jid[j]
  <2> USE <1>3 DEF Footprint, Move, MovedRows, Known, TypeOK
  <2>1. CASE ReplayMoveEntry(i)
    BY <2>1 DEF ReplayMoveEntry
  <2>2. CASE ReplayMoveRows(i)
    BY <2>2 DEF ReplayMoveRows
  <2>3. CASE ReplayTrashEntry(i)
    BY <2>3 DEF ReplayTrashEntry
  <2>4. CASE ReplayTrashRow(i) \/ ReplayTrashDropRows(i)
    BY <2>4 DEF ReplayTrashRow, ReplayTrashDropRows
  <2>5. CASE ReplayGiveUp(i) \/ ReplayRemove(i)
    BY <2>5 DEF ReplayGiveUp, ReplayRemove
  <2>6. QED
    BY <2>1, <2>2, <2>3, <2>4, <2>5 DEF Replay
<1>6. settled' \subseteq todo' /\ (Pending(i)' <=> i \in todo')
  <2>1. settled \subseteq todo
    BY OrderlyFacts DEF Marked, Known, TypeOK
  <2>2. CASE ReplayRemove(i)
    BY <2>2, OrderlyFacts DEF ReplayRemove, Pending, Known, TypeOK
  <2>3. CASE ReplayMoveRows(i)
    <3>1. ~RowConflict(i)
      BY <1>2, <2>3 DEF ReplayMoveRows, Replaying, Tracked, Before, Half, After, RowConflict
    <3>2. QED
      BY <1>1, <1>2, <2>1, <2>3, <3>1, OrderlyFacts DEF ReplayMoveRows, Pending
  <2>4. CASE ~ReplayRemove(i) /\ ~ReplayMoveRows(i)
    BY <1>1, <1>2, <2>1, <2>4, OrderlyFacts DEF Replay, ReplayMoveEntry, ReplayTrashEntry,
       ReplayTrashRow, ReplayTrashDropRows, ReplayGiveUp, Pending
  <2>5. QED
    BY <2>2, <2>3, <2>4
<1>7. Frame(i)
  BY <1>1, <1>4, <1>5 DEF Frame
<1>8. QED
  BY <1>1, <1>2, <1>4, <1>6, <1>7

\* How far the replay has come with its intent.
LEMMA ReplayTracked ==
  ASSUME NEW i \in Ops, Known, Replay(i), Pending(i)'
  PROVE  Tracked(i)'
<1> USE DEF disk, tables, journal, request, server, reader, Settle, Retain
<1>1. /\ Pending(i) /\ phase = "replay" /\ op' = op /\ faults' = faults /\ pc' = pc
      /\ Unregistered' = Unregistered
  BY ReplayFrame DEF Frame
<1>2. Tracked(i) /\ op[i].kind \in {"move", "trash"}
  BY <1>1, OrderlyFacts DEF Tracked
<1>3. /\ op[i].src \in Paths /\ op[i].dst \in Paths
      /\ op[i].kind = "move" => op[i].src # op[i].dst
      /\ "lossyjournal" \notin faults /\ Nil \notin Unregistered
      /\ pc[i] \notin {"logged", "undone", "moved", "applied"}
  BY <1>1, <1>2, FootprintInPaths, OrderlyFacts, DriveAssumption
     DEF Known, Prepared, Unregistered, Stage, Running, Live
<1>4. /\ rows \in [Paths -> Contents \cup {Nil}] /\ fs \in [Paths -> Contents \cup {Nil}]
      /\ trashDir \in [Ops -> Contents \cup {Nil}] /\ trashRows \in [Ops -> Paths \cup {Nil}]
      /\ Nil \notin Paths
  BY DriveAssumption DEF Known, TypeOK
<1>5. ASSUME After(i)' \/ (Before(i)' /\ (fs'[op[i].src] = Nil \/ i \notin settled'))
             \/ (Half(i)' /\ i \notin settled')
      PROVE  Tracked(i)'
  BY <1>1, <1>2, <1>3, <1>5 DEF Tracked
<1>6. CASE ReplayMoveEntry(i)
  <2>1. Before(i)
    BY <1>1, <1>2, <1>6 DEF ReplayMoveEntry, Replaying, Tracked, Half, After
  <2>2. Half(i)' /\ i \notin settled'
    BY <1>1, <1>3, <1>4, <1>6, <2>1
       DEF ReplayMoveEntry, Replaying, Move, Before, Half, RowIs, Listed
  <2>3. QED
    BY <1>5, <2>2
<1>7. CASE ReplayMoveRows(i)
  <2>1. (Half(i) \/ After(i)) /\ ~RowConflict(i)
    BY <1>1, <1>2, <1>7
       DEF ReplayMoveRows, Replaying, Tracked, Before, Half, After, RowConflict
  <2>2. rows' = MovedRows(i) /\ UNCHANGED fs
    BY <1>3, <1>7, <2>1 DEF ReplayMoveRows
  <2>3. After(i)'
    BY <1>1, <1>3, <1>4, <1>7, <2>1, <2>2
       DEF ReplayMoveRows, Replaying, MovedRows, Move, Half, After, RowIs, Listed
  <2>4. QED
    BY <1>5, <2>3
<1>8. CASE ReplayTrashEntry(i)
  <2>1. Before(i)
    BY <1>1, <1>2, <1>8 DEF ReplayTrashEntry, Replaying, Tracked, Half, After
  <2>2. Half(i)' /\ i \notin settled'
    BY <1>1, <1>3, <1>4, <1>8, <2>1
       DEF ReplayTrashEntry, Replaying, Before, Half, RowIs, Listed
  <2>3. QED
    BY <1>5, <2>2
<1>9. CASE ReplayTrashRow(i)
  <2>1. Half(i)
    BY <1>1, <1>2, <1>9 DEF ReplayTrashRow, Replaying, Tracked, Before, After
  <2>2. Half(i)' /\ i \notin settled'
    BY <1>1, <1>3, <1>9, <2>1 DEF ReplayTrashRow, Replaying, Half, RowIs, Listed
  <2>3. QED
    BY <1>5, <2>2
<1>10. CASE ReplayTrashDropRows(i)
  <2>1. Half(i) \/ After(i)
    BY <1>1, <1>2, <1>10 DEF ReplayTrashDropRows, Replaying, Tracked, Before
  <2>2. After(i)'
    BY <1>1, <1>3, <1>4, <1>10, <2>1 DEF ReplayTrashDropRows, Replaying, Half, After
  <2>3. QED
    BY <1>5, <2>2
<1>11. CASE ReplayGiveUp(i)
  <2>1. Before(i) /\ fs[op[i].src] = Nil
    BY <1>1, <1>2, <1>11 DEF ReplayGiveUp, Replaying, Tracked, Before, Half, After
  <2>2. Before(i)' /\ fs'[op[i].src] = Nil
    BY <1>1, <1>11, <2>1 DEF ReplayGiveUp, Before, RowIs, Listed
  <2>3. QED
    BY <1>5, <2>2
<1>12. CASE ReplayRemove(i)
  BY <1>3, <1>12, DriveAssumption DEF ReplayRemove, Pending, Known, TypeOK
<1>13. QED
  BY <1>6, <1>7, <1>8, <1>9, <1>10, <1>11, <1>12 DEF Replay

LEMMA ReplayStep ==
  ASSUME NEW i \in Ops, Known, Replay(i)
  PROVE  ReplayInv'
<1>1. /\ Frame(i) /\ Pending(i) /\ phase = "replay" /\ op' = op /\ faults' = faults
      /\ UNCHANGED <<phase, pc, listing>> /\ Unregistered' = Unregistered
      /\ \A j \in Ops \ {i} : /\ j \in settled' => j \in settled
                              /\ j \in todo' <=> j \in todo
      /\ settled' \subseteq todo'
      /\ Pending(i)' <=> i \in todo'
  BY ReplayFrame DEF Frame
<1>2. Tracked(i)'
  <2>1. CASE Pending(i)'
    BY <2>1, ReplayTracked
  <2>2. CASE ~Pending(i)'
    BY <2>2 DEF Tracked
  <2>3. QED
    BY <2>1, <2>2
<1>3. ASSUME ~Pending(i)'
      PROVE  /\ ReplayRemove(i) /\ UNCHANGED <<fs, trashDir, rows, trashRows>>
             /\ Before(i) \/ After(i)
             /\ Before(i) => fs[op[i].src] = Nil
  <2>1. ReplayRemove(i)
    BY <1>1, <1>3 DEF Replay, ReplayMoveEntry, ReplayMoveRows, ReplayTrashEntry,
       ReplayTrashRow, ReplayTrashDropRows, ReplayGiveUp, Pending, journal
  <2>2. i \in settled /\ UNCHANGED <<fs, trashDir, rows, trashRows>>
    BY <2>1 DEF ReplayRemove, disk, tables
  <2>3. QED
    BY <1>1, <2>1, <2>2, OrderlyFacts DEF Tracked, After
<1>4. BinCovered(i)'
  <2>1. CASE op[i].kind = "trash"
    BY <1>1, <1>3, <2>1 DEF BinCovered, TrashAgrees, Before, After
  <2>2. CASE op[i].kind # "trash"
    <3>1. UNCHANGED <<trashDir, trashRows>>
      BY <2>2 DEF Replay, Replaying, ReplayMoveEntry, ReplayMoveRows, ReplayTrashEntry,
         ReplayTrashRow, ReplayTrashDropRows, ReplayGiveUp, ReplayRemove, disk, tables
    <3>2. QED
      BY <1>1, <2>2, <3>1, OrderlyFacts DEF BinCovered, TrashAgrees
  <2>3. QED
    BY <2>1, <2>2
<1>5. \/ Pending(i)'
      \/ \A p \in Footprint(i) \cap Paths : rows'[p] = Listed(fs[p])'
                                           \/ ("list" \in faults /\ rows'[p] = Nil)
  <2> SUFFICES ASSUME ~Pending(i)', NEW p \in Footprint(i) \cap Paths
               PROVE  rows'[p] = Listed(fs[p])' \/ ("list" \in faults /\ rows'[p] = Nil)
    OBVIOUS
  <2>1. op[i].kind \in {"move", "trash"} /\ (op[i].kind = "trash" => op[i].src = op[i].dst)
    BY <1>1, OrderlyFacts DEF Tracked, Marked
  <2>2. Nil \notin Unregistered
    BY DriveAssumption DEF Unregistered
  <2>3. RowIs(p, Listed(fs[p]))
    BY <1>3, <2>1, <2>2 DEF Footprint, Before, After, RowIs, Listed
  <2>4. QED
    BY <1>1, <1>3, <2>3 DEF RowIs, Listed
<1>6. /\ Apart'
      /\ \A j \in Ops : Tracked(j)' /\ BinCovered(j)'
      /\ \A p \in Paths : Covered(p)'
  <2>1. Open(i) /\ TypeOK /\ Frame(i)
    BY <1>1 DEF Open, Known
  <2>2. \A j \in Ops \ {i} : pc'[j] = pc[j] /\ (j \in settled' => j \in settled)
    <3>1. pc' = pc
      BY <1>1
    <3>2. \A j \in Ops \ {i} : j \in settled' => j \in settled
      BY <1>1
    <3>3. QED
      BY <3>1, <3>2
  <2>3. /\ Apart /\ \A j \in Ops : Tracked(j) /\ BinCovered(j)
        /\ \A p \in Paths : Covered(p)
    BY OrderlyFacts
  <2>4. QED
    BY <1>2, <1>4, <1>5, <2>1, <2>2, <2>3, OneOperation
<1>7. \A j \in Ops : Marked(j)'
  <2>1. \A j \in Ops : Marked(j)
    BY OrderlyFacts
  <2>2. \A j \in Ops \ {i} : Pending(j)' <=> Pending(j)
    BY <1>1 DEF Frame, Pending
  <2>3. ASSUME NEW j \in Ops
        PROVE  Pending(j)' <=> j \in todo'
    <3>1. phase = "replay" /\ (Pending(j) <=> j \in todo)
      BY <1>1, <2>1 DEF Marked
    <3>2. CASE j = i
      BY <1>1, <3>2
    <3>3. CASE j # i
      <4>1. j \in todo' <=> j \in todo
        BY <1>1, <3>3
      <4>2. QED
        BY <2>2, <3>1, <3>3, <4>1
    <3>4. QED
      BY <3>2, <3>3
  <2>4. phase' = "replay"
    BY <1>1
  <2>5. QED
    BY <1>1, <2>1, <2>3, <2>4 DEF Marked
<1>8. QED
  BY <1>1, <1>6, <1>7 DEF ReplayInv, Known

------------------------------------------------------------------------------
(* The steps that do not work on entries.                                  *)

\* A request is admitted next to the running ones only.
LEMMA StartStep ==
  ASSUME Known, NEW i \in Ops, NEW src \in Paths, NEW dst \in Paths,
         \/ StartMove(i, src, dst)
         \/ src = dst /\ (StartTrash(i, src) \/ StartPut(i, src))
  PROVE  ReplayInv'
<1> DEFINE kind  == op'[i].kind
           label == pc'[i]
<1> USE DEF Goto, disk, tables, journal, server, reader
<1>1. /\ op' = [op EXCEPT ![i] = [kind |-> kind, src |-> src, dst |-> dst]]
      /\ pc' = [pc EXCEPT ![i] = label]
      /\ pc[i] = "idle" /\ phase = "up"
      /\ Admitted({src, dst})
      /\ UNCHANGED <<fs, trashDir, rows, trashRows, jid, phase, todo, settled, listing, faults>>
  BY DEF StartMove, StartTrash, StartPut, Begin, Known, TypeOK
<1>2. /\ label \in {"checked", "rowsonly", "done"}
      /\ kind = "move" \/ src = dst
  BY <1>1 DEF StartMove, StartTrash, StartPut, Begin, Known, TypeOK
<1>3. op \in [Ops -> Request] /\ DOMAIN pc = Ops
  BY DEF Known, TypeOK
<1>4. \A j \in Ops \ {i} : op'[j] = op[j] /\ pc'[j] = pc[j]
  BY <1>1, <1>3
<1>5. op'[i].src = src /\ op'[i].dst = dst
  BY <1>1, <1>3
<1>6. ~Pending(i) /\ TrashAgrees(i) /\ trashDir[i] = Nil
  BY <1>1, OrderlyFacts DEF Stage, Tracked, BinCovered
<1>7. Unregistered' = Unregistered
  BY <1>1, <1>2, <1>4 DEF Unregistered
<1>8. \A j \in Ops : Pending(j)' <=> Pending(j)
  BY <1>1 DEF Pending
<1>9. ASSUME NEW j \in Ops
      PROVE  Tracked(j)' /\ Marked(j)' /\ BinCovered(j)'
  <2>1. CASE j = i
    BY <1>1, <1>2, <1>5, <1>6, <1>8, <2>1, OrderlyFacts
       DEF Tracked, Marked, BinCovered, TrashAgrees
  <2>2. CASE j # i
    <3>1. Tracked(j)'
      BY <1>1, <1>4, <1>7, <1>8, <2>2, OrderlyFacts
         DEF Tracked, Before, Half, After, RowIs, Listed
    <3>2. Marked(j)' /\ BinCovered(j)'
      BY <1>1, <1>4, <1>8, <2>2, OrderlyFacts DEF Marked, BinCovered, TrashAgrees
    <3>3. QED
      BY <3>1, <3>2
  <2>3. QED
    BY <2>1, <2>2
<1>10. Apart'
  <2>1. \A j \in Ops : Running(j) => {src, dst} \cap Footprint(j) = {}
    BY <1>1, OrderlyFacts DEF Admitted
  <2>2. \A j \in Ops : Open(j) => Running(j)
    BY <1>1, OrderlyFacts DEF Open, Marked, Running, Live
  <2>3. \A j \in Ops \ {i} : (Open(j)' <=> Open(j)) /\ Footprint(j)' = Footprint(j)
    BY <1>4, <1>8 DEF Open, Running, Footprint
  <2>4. Footprint(i)' = {src, dst}
    BY <1>5 DEF Footprint
  <2>5. QED
    BY <2>1, <2>2, <2>3, <2>4, OrderlyFacts DEF Apart
<1>11. ASSUME NEW p \in Paths
       PROVE  Covered(p)'
  <2>1. RowIs(p, Listed(fs[p])) => RowIs(p, Listed(fs[p]))'
    BY <1>1, <1>7 DEF RowIs, Listed
  <2>2. ASSUME NEW j \in Ops, Pending(j), p \in Footprint(j)
        PROVE  Pending(j)' /\ p \in Footprint(j)'
    BY <1>4, <1>6, <1>8, <2>2 DEF Footprint
  <2>3. QED
    BY <2>1, <2>2, OrderlyFacts DEF Covered
<1>12. QED
  BY <1>1, <1>9, <1>10, <1>11 DEF ReplayInv, Known

\* A listing may purge rows, a crash ends every handler; the rest is bookkeeping.
LEMMA IdleStep ==
  ASSUME Known, UNCHANGED <<fs, trashDir, trashRows, jid, op, faults>>,
         Unregistered' = Unregistered,
         \A p \in Paths : rows'[p] = rows[p] \/ ("list" \in faults /\ rows'[p] = Nil),
         \A i \in Ops : pc'[i] = pc[i] \/ pc'[i] \in {"dead", "orphaned"},
         \A i \in Ops : i \in settled' => i \in settled,
         \A i \in Ops : Marked(i)',
         listing'.stage # "none" => "list" \in faults
  PROVE  ReplayInv'
<1>1. \A i \in Ops : Pending(i)' <=> Pending(i)
  BY DEF Pending
<1>2. \A i \in Ops : Footprint(i)' = Footprint(i)
  BY DEF Footprint
<1>3. \A i \in Ops : Open(i)' => Open(i)
  BY <1>1 DEF Open, Running, Live
<1>4. Apart'
  BY <1>2, <1>3, OrderlyFacts DEF Apart
<1>5. ASSUME NEW p \in Paths
      PROVE  /\ \A c : RowIs(p, c) => rows'[p] = c \/ ("list" \in faults /\ rows'[p] = Nil)
             /\ rows[p] = Nil => rows'[p] = Nil
  BY DEF RowIs
<1>6. ASSUME NEW i \in Ops
      PROVE  Tracked(i)' /\ BinCovered(i)'
  <2>1. CASE Pending(i)
    <3>1. op[i].src \in Paths /\ op[i].dst \in Paths /\ op[i].kind \in {"move", "trash"}
      BY <2>1, FootprintInPaths, OrderlyFacts DEF Known, Tracked
    <3>2. /\ Before(i) => Before(i)'
          /\ Half(i) => Half(i)'
          /\ After(i) => After(i)'
      BY <1>5, <3>1 DEF Before, Half, After, RowIs, Listed
    <3>3. QED
      BY <1>1, <2>1, <3>2, OrderlyFacts DEF Tracked, BinCovered, TrashAgrees
  <2>2. CASE ~Pending(i)
    BY <1>1, <2>2, OrderlyFacts DEF Tracked, BinCovered, TrashAgrees
  <2>3. QED
    BY <2>1, <2>2
<1>7. ASSUME NEW p \in Paths
      PROVE  Covered(p)'
  <2>1. RowIs(p, Listed(fs[p])) => RowIs(p, Listed(fs[p]))'
    BY <1>5 DEF RowIs, Listed
  <2>2. QED
    BY <1>1, <1>2, <2>1, OrderlyFacts DEF Covered
<1>8. QED
  BY <1>4, <1>6, <1>7 DEF ReplayInv, Known

LEMMA ListStep ==
  ASSUME Known, ListRead \/ ListStat \/ ListPurge
  PROVE  ReplayInv'
<1> USE DEF ListRead, ListStat, ListPurge, disk, tables, journal, request, server
<1>1. /\ UNCHANGED <<fs, trashDir, trashRows, jid, op, pc, phase, todo, settled, faults>>
      /\ listing'.stage # "none" => "list" \in faults
  BY DEF Known, ReplayInv, NoListing, reader
<1>2. \A p \in Paths : rows'[p] = rows[p] \/ ("list" \in faults /\ rows'[p] = Nil)
  BY DEF Known, ReplayInv
<1>3. Unregistered' = Unregistered
  BY <1>1 DEF Unregistered
<1>4. \A i \in Ops : Marked(i)'
  BY <1>1, OrderlyFacts DEF Marked, Pending
<1>5. QED
  BY <1>1, <1>2, <1>3, <1>4, IdleStep

LEMMA CrashStep ==
  ASSUME Known, Crash
  PROVE  ReplayInv'
<1> USE DEF Crash, disk, tables, journal
<1>1. /\ UNCHANGED <<fs, trashDir, rows, trashRows, jid, op, faults>>
      /\ phase' = "down" /\ todo' = {} /\ settled' = {} /\ listing' = NoListing
      /\ pc' = [i \in Ops |-> Abandoned(pc[i])]
  OBVIOUS
<1>2. \A i \in Ops : pc'[i] = pc[i] \/ pc'[i] \in {"dead", "orphaned"}
  BY <1>1 DEF Abandoned
<1>3. Unregistered' = Unregistered
  BY <1>1 DEF Unregistered, Abandoned, Live
<1>4. \A i \in Ops : Marked(i)'
  BY <1>1, OrderlyFacts DEF Marked
<1>5. QED
  BY <1>1, <1>2, <1>3, <1>4, IdleStep DEF NoListing

LEMMA RestartStep ==
  ASSUME Known, Boot \/ Serve
  PROVE  ReplayInv'
<1> USE DEF Boot, Serve, disk, tables, journal, request, reader
<1>1. /\ UNCHANGED <<fs, trashDir, rows, trashRows, jid, op, pc, settled, listing, faults>>
      /\ \/ phase = "down" /\ phase' = "replay" /\ todo' = {i \in Ops : Pending(i)}
         \/ phase = "replay" /\ phase' = "up" /\ todo = {} /\ todo' = {}
  OBVIOUS
<1>2. Unregistered' = Unregistered
  BY <1>1 DEF Unregistered
<1>3. ASSUME NEW i \in Ops
      PROVE  Marked(i)'
  <2>1. CASE phase = "down"
    BY <1>1, <2>1, OrderlyFacts DEF Marked, Pending
  <2>2. CASE phase = "replay"
    <3>1. ~Running(i) /\ ~Pending(i)
      BY <1>1, <2>2, OrderlyFacts DEF Stage, Marked
    <3>2. QED
      BY <1>1, <2>2, <3>1, OrderlyFacts DEF Marked, Pending, Running, Live
  <2>3. QED
    BY <1>1, <2>1, <2>2
<1>4. QED
  BY <1>1, <1>2, <1>3, IdleStep DEF Known, ReplayInv

\* What may go wrong in a behaviour does not change; only a listing reads.
LEMMA ListingStep ==
  ASSUME [Next]_vars, listing.stage # "none" => "list" \in faults
  PROVE  faults' = faults /\ (listing'.stage # "none" => "list" \in faults)
<1> USE DEF server, reader, request, journal, NoListing
<1>1. ASSUME NEW i \in Ops, Advance(i)
      PROVE  UNCHANGED <<faults, listing>>
  BY <1>1 DEF Advance, LogIntent, MoveEntry, MoveRows, RollbackMove, TrashEntry,
     TrashRowsTx, RollbackTrash, DropRows, CreateFile, RegisterFile, RejectFile,
     FailRegister, RemoveIntent
<1>2. ASSUME NEW i \in Ops, Replay(i)
      PROVE  UNCHANGED <<faults, listing>>
  BY <1>2 DEF Replay, ReplayMoveEntry, ReplayMoveRows, ReplayTrashEntry, ReplayTrashRow,
     ReplayTrashDropRows, ReplayGiveUp, ReplayRemove
<1>3. ASSUME NEW i \in Ops, NEW src \in Paths, NEW dst \in Paths,
             StartMove(i, src, dst) \/ StartTrash(i, src) \/ StartPut(i, src)
      PROVE  UNCHANGED <<faults, listing>>
  BY <1>3 DEF StartMove, StartTrash, StartPut, Begin
<1>4. CASE ListRead \/ ListStat \/ ListPurge
  BY <1>4 DEF ListRead, ListStat, ListPurge
<1>5. CASE Crash \/ Boot \/ Serve
  BY <1>5 DEF Crash, Boot, Serve
<1>6. CASE UNCHANGED vars
  BY <1>6 DEF vars
<1>7. ASSUME UNCHANGED <<faults, listing>>
      PROVE  faults' = faults /\ (listing'.stage # "none" => "list" \in faults)
  BY <1>7
<1>8. CASE Next
  <2>1. CASE ListRead \/ ListStat \/ ListPurge \/ Crash \/ Boot \/ Serve
    BY <1>4, <1>5, <2>1
  <2>2. CASE \E i \in Ops :
               \/ \E src, dst \in Paths : StartMove(i, src, dst)
               \/ \E p \in Paths : StartTrash(i, p) \/ StartPut(i, p)
               \/ Advance(i) \/ Replay(i) \/ Disconnect(i)
    <3>1. UNCHANGED <<faults, listing>>
      <4>1. PICK i \in Ops :
               \/ \E src, dst \in Paths : StartMove(i, src, dst)
               \/ \E p \in Paths : StartTrash(i, p) \/ StartPut(i, p)
               \/ Advance(i) \/ Replay(i) \/ Disconnect(i)
        BY <2>2
      <4>2. CASE Disconnect(i)
        BY <4>2 DEF Disconnect
      <4>3. QED
        BY <1>1, <1>2, <1>3, <4>1, <4>2
    <3>2. QED
      BY <1>7, <3>1
  <2>3. QED
    BY <1>8, <2>1, <2>2 DEF Next
<1>9. QED
  BY <1>6, <1>8

LEMMA ReplayInvStep ==
  ASSUME TypeOK, PlaceInv, TrashInv, Unshared, ReplayInv, [Next]_vars
  PROVE  ReplayInv'
<1>1. faults' = faults /\ (listing'.stage # "none" => "list" \in faults)
  BY ListingStep DEF ReplayInv
<1>2. CASE ~Orderly
  BY <1>1, <1>2 DEF ReplayInv, Orderly
<1>3. CASE Orderly
  <2>1. Known
    BY <1>3 DEF Known
  <2>2. ASSUME NEW i \in Ops, NEW src \in Paths, NEW dst \in Paths, StartMove(i, src, dst)
        PROVE  ReplayInv'
    BY <2>1, <2>2, StartStep
  <2>3. ASSUME NEW i \in Ops, NEW p \in Paths, StartTrash(i, p) \/ StartPut(i, p)
        PROVE  ReplayInv'
    BY <2>1, <2>3, StartStep
  <2>4. ASSUME NEW i \in Ops
        PROVE  ~Disconnect(i)
    BY <2>1, OrderlyFacts DEF Disconnect
  <2>5. CASE UNCHANGED vars
    <3>1. UNCHANGED <<fs, trashDir, rows, trashRows, jid, op, pc, phase, todo, settled,
                      listing, faults>>
      BY <2>5 DEF vars, disk, tables, journal, request, server, reader
    <3>2. Unregistered' = Unregistered
      BY <3>1 DEF Unregistered
    <3>3. \A i \in Ops : Marked(i)'
      BY <2>1, <3>1, OrderlyFacts DEF Marked, Pending
    <3>4. QED
      BY <1>1, <2>1, <3>1, <3>2, <3>3, IdleStep
  <2>6. QED
    BY <2>1, <2>2, <2>3, <2>4, <2>5, AdvanceStep, ReplayStep, ListStep, CrashStep,
       RestartStep DEF Next
<1>4. QED
  BY <1>2, <1>3

LEMMA Recovery == Spec => [](TypeOK /\ PlaceInv /\ TrashInv /\ Unshared /\ ReplayInv)
<1>1. Init => PlaceInv /\ TrashInv /\ Unshared /\ ReplayInv
  BY PlaceInvInit, TrashInvInit, UnsharedInit, ReplayInvInit
<1>2. TypeOK /\ PlaceInv /\ TrashInv /\ Unshared /\ ReplayInv /\ [Next]_vars
        => (PlaceInv /\ TrashInv /\ Unshared /\ ReplayInv)'
  <2>1. PlaceInv => Stage
    BY DEF PlaceInv
  <2>2. QED
    BY <2>1, PlaceInvStep, TrashInvStep, UnsharedStep, ReplayInvStep
<1>3. QED
  BY <1>1, <1>2, TypeCorrect, PTL DEF Spec

\* Wherever table and directory disagree, an intent for that very place is in
\* fs_journal: a crash in any state of rename_core, move_core, delete_to_trash,
\* merge_chunks or of an earlier replay can be repaired.
THEOREM GapsAreJournalled == Spec => []EveryGapIsJournalled
<1>1. TypeOK /\ PlaceInv /\ TrashInv /\ Unshared /\ ReplayInv => EveryGapIsJournalled
  <2> SUFFICES ASSUME TypeOK, PlaceInv, TrashInv, Unshared, ReplayInv, Undisturbed
               PROVE  /\ \A p \in Paths :
                           RowAgrees(p) \/ \E i \in Ops : Pending(i) /\ p \in Footprint(i)
                      /\ \A i \in Ops : TrashAgrees(i) \/ Pending(i)
    BY DEF EveryGapIsJournalled
  <2>1. Known /\ "list" \notin faults
    BY DEF Known, Orderly, Undisturbed
  <2>2. QED
    BY <2>1, OrderlyFacts DEF Covered, BinCovered, RowAgrees, RowIs
<1>2. QED
  BY <1>1, Recovery, PTL

\* Whenever the server listens and no request runs, table and directory agree
\* and no intent is left, whatever crashed or failed before.
THEOREM SettledDrives == Spec => []SettledDriveAgrees
<1>1. TypeOK /\ PlaceInv /\ TrashInv /\ Unshared /\ ReplayInv => SettledDriveAgrees
  <2> SUFFICES ASSUME TypeOK, PlaceInv, TrashInv, Unshared, ReplayInv, Undisturbed, Quiet
               PROVE  /\ \A i \in Ops : ~Pending(i) /\ TrashAgrees(i)
                      /\ \A p \in Paths : RowAgrees(p)
    BY DEF SettledDriveAgrees
  <2>1. Known /\ "list" \notin faults
    BY DEF Known, Orderly, Undisturbed
  <2>2. \A i \in Ops : ~Pending(i)
    BY <2>1, OrderlyFacts DEF Quiet, Marked, Running, Live
  <2>3. QED
    BY <2>1, <2>2, OrderlyFacts DEF Covered, BinCovered, RowAgrees, RowIs
<1>2. QED
  BY <1>1, Recovery, PTL

\* A listing that purges rows under running requests leaves no row without its
\* file once the drive is quiet, and no row of another file.
THEOREM NoPhantoms == Spec => []NoPhantomRow
<1>1. TypeOK /\ PlaceInv /\ TrashInv /\ Unshared /\ ReplayInv => NoPhantomRow
  <2> SUFFICES ASSUME TypeOK, PlaceInv, TrashInv, Unshared, ReplayInv, Quiet,
                      faults \subseteq {"txfail", "list"}, NEW p \in Paths, rows[p] # Nil
               PROVE  rows[p] = fs[p]
    BY DEF NoPhantomRow
  <2>1. Known
    BY DEF Known, Orderly
  <2>2. \A i \in Ops : ~Pending(i)
    BY <2>1, OrderlyFacts DEF Quiet, Marked, Running, Live
  <2>3. QED
    BY <2>1, <2>2, OrderlyFacts DEF Covered, RowIs, Listed
<1>2. QED
  BY <1>1, Recovery, PTL

------------------------------------------------------------------------------
(* FsJournal implements AtomicDrive: the place of an entry is where the    *)
(* replay would put it.                                                    *)

\* The operation will take effect, but nothing has moved yet.
Ahead(i) ==
  /\ Pending(i)
  /\ \/ op[i].kind = "move" /\ fs[op[i].dst] = Nil
     \/ op[i].kind = "trash" /\ trashDir[i] = Nil

\* The mapping, entry by entry.
TreeFacts ==
  /\ ReplayedTree \in [Paths -> Contents \cup {Nil}]
  /\ ReplayedBin \in [Ops -> Contents \cup {Nil}]
  /\ \A i \in Ops : Ahead(i) =>
       /\ ReplayedTree[op[i].src] = Nil
       /\ op[i].kind = "move" => ReplayedTree[op[i].dst] = Listed(fs[op[i].src])
       /\ op[i].kind = "trash" => ReplayedBin[i] = Listed(fs[op[i].src])
  /\ \A p \in Paths :
       (\A i \in Ops : Ahead(i) => p \notin Footprint(i)) => ReplayedTree[p] = Listed(fs[p])
  /\ \A i \in Ops :
       (Ahead(i) => op[i].kind # "trash") => ReplayedBin[i] = Listed(trashDir[i])

LEMMA TreeIsMapped == Known => TreeFacts
<1> SUFFICES ASSUME Known
             PROVE  TreeFacts
  OBVIOUS
<1>1. \A c \in Contents \cup {Nil} : Listed(c) \in Contents \cup {Nil}
  BY DEF Listed
<1>2. \A i \in Ops : Ahead(i) => /\ op[i].kind \in {"move", "trash"} /\ Open(i)
                                 /\ op[i].src \in Paths /\ op[i].dst \in Paths
                                 /\ op[i].kind = "move" => op[i].src # op[i].dst
                                 /\ op[i].kind = "trash" => op[i].src = op[i].dst
  BY FootprintInPaths, OrderlyFacts DEF Known, Ahead, Tracked, Marked, Prepared, Open
<1>3. /\ fs \in [Paths -> Contents \cup {Nil}] /\ trashDir \in [Ops -> Contents \cup {Nil}]
  BY DEF Known, TypeOK
<1>4. \A p \in Paths : \A i \in Arriving(p) :
         i \in Ops /\ Ahead(i) /\ op[i].kind = "move" /\ op[i].dst = p /\ p \in Footprint(i)
  BY DEF Arriving, Ahead, Footprint
<1>5. \A p \in Paths : \A i \in Leaving(p) : i \in Ops /\ Ahead(i) /\ op[i].src = p /\ p \in Footprint(i)
  BY DEF Leaving, Ahead, Footprint
<1>6. \A p \in Paths, i, j \in Ops :
         Ahead(i) /\ Ahead(j) /\ p \in Footprint(i) /\ p \in Footprint(j) => i = j
  BY <1>2, OrderlyFacts DEF Apart
<1>7. \A p \in Paths :
         ReplayedTree[p] = IF Arriving(p) # {} THEN Listed(fs[op[CHOOSE i \in Arriving(p) : TRUE].src])
                           ELSE IF Leaving(p) # {} THEN Nil ELSE Listed(fs[p])
  BY DEF ReplayedTree
<1>8. \A p \in Paths : Arriving(p) # {} => (CHOOSE i \in Arriving(p) : TRUE) \in Arriving(p)
  OBVIOUS
<1>9. ASSUME NEW p \in Paths
      PROVE  ReplayedTree[p] \in Contents \cup {Nil}
  <2>1. CASE Arriving(p) # {}
    <3>1. PICK i \in Arriving(p) : i = CHOOSE k \in Arriving(p) : TRUE
      BY <1>8, <2>1
    <3>2. ReplayedTree[p] = Listed(fs[op[i].src]) /\ fs[op[i].src] \in Contents \cup {Nil}
      BY <1>2, <1>3, <1>4, <1>7, <2>1, <3>1
    <3>3. QED
      BY <1>1, <3>2
  <2>2. CASE Arriving(p) = {}
    BY <1>1, <1>3, <1>7, <2>2
  <2>3. QED
    BY <2>1, <2>2
<1>10. ReplayedTree \in [Paths -> Contents \cup {Nil}]
  BY <1>9 DEF ReplayedTree
<1>11. ReplayedBin \in [Ops -> Contents \cup {Nil}]
  <2>1. ASSUME NEW i \in Ops, Pending(i), op[i].kind = "trash"
        PROVE  fs[op[i].src] \in Contents \cup {Nil}
    BY <1>3, <2>1, FootprintInPaths DEF Known
  <2>2. QED
    BY <1>1, <1>3, <2>1 DEF ReplayedBin
<1>12. ASSUME NEW i \in Ops, Ahead(i)
       PROVE  /\ ReplayedTree[op[i].src] = Nil
              /\ op[i].kind = "move" => ReplayedTree[op[i].dst] = Listed(fs[op[i].src])
              /\ op[i].kind = "trash" => ReplayedBin[i] = Listed(fs[op[i].src])
  <2>1. op[i].src \in Footprint(i) /\ op[i].dst \in Footprint(i)
    BY DEF Footprint
  <2>2. Arriving(op[i].src) \subseteq {i} /\ Arriving(op[i].dst) \subseteq {i}
    BY <1>2, <1>4, <1>6, <1>12, <2>1
  <2>3. CASE op[i].kind = "move"
    <3>1. i \notin Arriving(op[i].src) /\ i \in Arriving(op[i].dst) /\ i \in Leaving(op[i].src)
      BY <1>2, <1>12, <2>3 DEF Arriving, Leaving, Ahead
    <3>2. Arriving(op[i].src) = {} /\ Arriving(op[i].dst) = {i} /\ Leaving(op[i].src) # {}
      BY <2>2, <3>1
    <3>3. (CHOOSE k \in Arriving(op[i].dst) : TRUE) = i
      BY <1>2, <1>8, <1>12, <3>2
    <3>4. QED
      BY <1>2, <1>7, <1>12, <2>3, <3>2, <3>3
  <2>4. CASE op[i].kind = "trash"
    <3>1. Arriving(op[i].src) = {} /\ Leaving(op[i].src) # {}
      BY <1>12, <2>2, <2>4 DEF Arriving, Leaving, Ahead
    <3>2. ReplayedBin[i] = Listed(fs[op[i].src])
      BY <1>12, <2>4 DEF ReplayedBin, Ahead
    <3>3. QED
      BY <1>2, <1>7, <1>12, <2>4, <3>1, <3>2
  <2>5. QED
    BY <1>2, <1>12, <2>3, <2>4
<1>13. ASSUME NEW p \in Paths, \A i \in Ops : Ahead(i) => p \notin Footprint(i)
       PROVE  ReplayedTree[p] = Listed(fs[p])
  BY <1>4, <1>5, <1>7, <1>13
<1>14. ASSUME NEW i \in Ops, Ahead(i) => op[i].kind # "trash"
       PROVE  ReplayedBin[i] = Listed(trashDir[i])
  BY <1>14 DEF ReplayedBin, Ahead
<1>15. QED
  BY <1>10, <1>11, <1>12, <1>13, <1>14 DEF TreeFacts

LEMMA TreeIsMappedNext == Known' => TreeFacts'
BY TreeIsMapped, PTL

\* What the mapping says of the entries of one operation.
OwnFacts(i) ==
  /\ Ahead(i) => /\ ReplayedTree[op[i].src] = Nil
                 /\ op[i].kind = "move" => ReplayedTree[op[i].dst] = Listed(fs[op[i].src])
                 /\ op[i].kind = "trash" => ReplayedBin[i] = Listed(fs[op[i].src])
  /\ ~Ahead(i) => \A p \in Footprint(i) \cap Paths : ReplayedTree[p] = Listed(fs[p])
  /\ ~Ahead(i) \/ op[i].kind # "trash" => ReplayedBin[i] = Listed(trashDir[i])

\* A step of operation i: the mapping changes at its own entries at most.
Local(i) ==
  /\ OwnFacts(i) /\ OwnFacts(i)'
  /\ ReplayedTree \in [Paths -> Contents \cup {Nil}] /\ ReplayedTree' \in [Paths -> Contents \cup {Nil}]
  /\ ReplayedBin \in [Ops -> Contents \cup {Nil}] /\ ReplayedBin' \in [Ops -> Contents \cup {Nil}]
  /\ \A p \in Paths \ Footprint(i) : ReplayedTree'[p] = ReplayedTree[p]
  /\ \A j \in Ops \ {i} : ReplayedBin'[j] = ReplayedBin[j]

LEMMA StepIsLocal ==
  ASSUME Known, Known', NEW i \in Ops, Open(i), Frame(i)
  PROVE  Local(i)
<1>1. TreeFacts /\ TreeFacts'
  BY TreeIsMapped, TreeIsMappedNext
<1>2. op' = op
  BY DEF Frame
<1>3. ASSUME NEW j \in Ops \ {i}
      PROVE  /\ Ahead(j)' <=> Ahead(j)
             /\ Ahead(j) => /\ Footprint(i) \cap Footprint(j) = {}
                            /\ op[j].kind \in {"move", "trash"}
                            /\ op[j].kind = "trash" => op[j].src = op[j].dst
                            /\ op[j].src \in Paths /\ op[j].dst \in Paths
                            /\ Listed(fs[op[j].src])' = Listed(fs[op[j].src])
  <2>1. Pending(j)' <=> Pending(j)
    BY DEF Frame, Pending
  <2>2. CASE Pending(j)
    <3>1. /\ Footprint(i) \cap Footprint(j) = {} /\ op[j].kind \in {"move", "trash"}
          /\ op[j].kind = "trash" => op[j].src = op[j].dst
      BY <2>2, OrderlyFacts DEF Apart, Open, Tracked, Marked
    <3>2. op[j].src \in Paths \ Footprint(i) /\ op[j].dst \in Paths \ Footprint(i)
      BY <3>1, FootprintInPaths DEF Footprint, Known
    <3>3. Listed(fs[op[j].src])' = Listed(fs[op[j].src])
      BY <3>2 DEF Frame, Listed
    <3>4. Ahead(j)' <=> Ahead(j)
      BY <1>2, <2>1, <3>2 DEF Ahead, Frame
    <3>5. QED
      BY <3>1, <3>2, <3>3, <3>4
  <2>3. CASE ~Pending(j)
    BY <2>1, <2>3 DEF Ahead
  <2>4. QED
    BY <2>2, <2>3
<1>4. \A j \in Ops : Footprint(j)' = Footprint(j)
  BY <1>2 DEF Footprint
<1>5. ASSUME NEW p \in Paths \ Footprint(i)
      PROVE  ReplayedTree'[p] = ReplayedTree[p]
  <2>1. CASE \E j \in Ops : Ahead(j) /\ p \in Footprint(j)
    <3>1. PICK j \in Ops : Ahead(j) /\ p \in Footprint(j)
      BY <2>1
    <3>2. j # i /\ Ahead(j)'
      BY <1>3, <3>1
    <3>3. CASE p = op[j].src
      BY <1>1, <1>2, <3>1, <3>2, <3>3 DEF TreeFacts
    <3>4. CASE p # op[j].src
      <4>1. p = op[j].dst /\ op[j].kind = "move"
        BY <1>3, <3>1, <3>2, <3>4 DEF Footprint
      <4>2. ReplayedTree[p] = Listed(fs[op[j].src]) /\ ReplayedTree'[p] = Listed(fs[op[j].src])'
        BY <1>1, <1>2, <3>1, <3>2, <4>1 DEF TreeFacts
      <4>3. QED
        BY <1>3, <3>1, <3>2, <4>2
    <3>5. QED
      BY <3>3, <3>4
  <2>2. CASE \A j \in Ops : Ahead(j) => p \notin Footprint(j)
    <3>1. \A j \in Ops : Ahead(j)' => p \notin Footprint(j)'
      BY <1>3, <1>4, <2>2
    <3>2. ReplayedTree[p] = Listed(fs[p]) /\ ReplayedTree'[p] = Listed(fs[p])'
      BY <1>1, <2>2, <3>1 DEF TreeFacts
    <3>3. Listed(fs[p])' = Listed(fs[p])
      BY DEF Frame, Listed
    <3>4. QED
      BY <3>2, <3>3
  <2>3. QED
    BY <2>1, <2>2
<1>6. ASSUME NEW j \in Ops \ {i}
      PROVE  ReplayedBin'[j] = ReplayedBin[j]
  <2>1. CASE Ahead(j) /\ op[j].kind = "trash"
    BY <1>1, <1>2, <1>3, <2>1 DEF TreeFacts
  <2>2. CASE ~(Ahead(j) /\ op[j].kind = "trash")
    <3>1. ReplayedBin[j] = Listed(trashDir[j]) /\ ReplayedBin'[j] = Listed(trashDir[j])'
      BY <1>1, <1>2, <1>3, <2>2 DEF TreeFacts
    <3>2. QED
      BY <3>1 DEF Frame, Listed
  <2>3. QED
    BY <2>1, <2>2
<1>7. OwnFacts(i)
  <2>1. \A j \in Ops \ {i} : Ahead(j) => Footprint(i) \cap Footprint(j) = {}
    BY <1>3
  <2>2. QED
    BY <1>1, <2>1 DEF TreeFacts, OwnFacts
<1>8. OwnFacts(i)'
  <2>1. \A j \in Ops \ {i} : Ahead(j)' => Footprint(i)' \cap Footprint(j)' = {}
    BY <1>3, <1>4
  <2>2. QED
    BY <1>1, <2>1 DEF TreeFacts, OwnFacts
<1>9. QED
  BY <1>1, <1>5, <1>6, <1>7, <1>8 DEF TreeFacts, Local

\* A step of AtomicDrive, or none.
Implemented == [Drive!Next]_<<ReplayedTree, ReplayedBin>>

LEMMA Invisible ==
  ASSUME NEW i \in Ops, Local(i),
         \A p \in Footprint(i) \cap Paths : ReplayedTree'[p] = ReplayedTree[p],
         ReplayedBin'[i] = ReplayedBin[i]
  PROVE  Implemented
<1>1. ReplayedTree' = ReplayedTree
  BY DEF Local
<1>2. ReplayedBin' = ReplayedBin
  BY DEF Local
<1>3. QED
  BY <1>1, <1>2 DEF Implemented

LEMMA Relocates ==
  ASSUME NEW i \in Ops, Local(i), NEW from \in Paths, NEW to \in Paths,
         from # to, Footprint(i) = {from, to},
         ReplayedTree[to] = Nil, ReplayedTree'[to] = ReplayedTree[from],
         ReplayedTree'[from] = Nil, ReplayedBin'[i] = ReplayedBin[i]
  PROVE  Implemented
<1>1. CASE ReplayedTree[from] = Nil
  BY <1>1, Invisible
<1>2. CASE ReplayedTree[from] # Nil
  <2>1. ReplayedTree' = [ReplayedTree EXCEPT ![to] = ReplayedTree[from], ![from] = Nil]
    BY DEF Local
  <2>2. ReplayedBin' = ReplayedBin
    BY DEF Local
  <2>3. Drive!Relocate(from, to)
    BY <1>2, <2>1, <2>2 DEF Drive!Relocate
  <2>4. QED
    BY <2>3 DEF Implemented, Drive!Next
<1>3. QED
  BY <1>1, <1>2

LEMMA Discards ==
  ASSUME NEW i \in Ops, Local(i), NEW p \in Paths, Footprint(i) = {p},
         ReplayedBin[i] = Nil, ReplayedBin'[i] = ReplayedTree[p], ReplayedTree'[p] = Nil
  PROVE  Implemented
<1>1. CASE ReplayedTree[p] = Nil
  BY <1>1, Invisible
<1>2. CASE ReplayedTree[p] # Nil
  <2>1. ReplayedTree' = [ReplayedTree EXCEPT ![p] = Nil]
    BY DEF Local
  <2>2. ReplayedBin' = [ReplayedBin EXCEPT ![i] = ReplayedTree[p]]
    BY DEF Local
  <2>3. Drive!Discard(p, i)
    BY <1>2, <2>1, <2>2 DEF Drive!Discard
  <2>4. QED
    BY <2>3 DEF Implemented, Drive!Next
<1>3. QED
  BY <1>1, <1>2

LEMMA PutsBack ==
  ASSUME NEW i \in Ops, Local(i), NEW p \in Paths, Footprint(i) = {p},
         ReplayedTree[p] = Nil, ReplayedTree'[p] = ReplayedBin[i], ReplayedBin'[i] = Nil
  PROVE  Implemented
<1>1. CASE ReplayedBin[i] = Nil
  BY <1>1, Invisible
<1>2. CASE ReplayedBin[i] # Nil
  <2>1. ReplayedTree' = [ReplayedTree EXCEPT ![p] = ReplayedBin[i]]
    BY DEF Local
  <2>2. ReplayedBin' = [ReplayedBin EXCEPT ![i] = Nil]
    BY DEF Local
  <2>3. Drive!PutBack(p, i)
    BY <1>2, <2>1, <2>2 DEF Drive!PutBack
  <2>4. QED
    BY <2>3 DEF Implemented, Drive!Next
<1>3. QED
  BY <1>1, <1>2

\* A step that leaves the files and the intents alone is invisible.
LEMMA SameDisk ==
  ASSUME NEW i \in Ops, Local(i), op' = op,
         op[i].kind = "trash" => op[i].src = op[i].dst,
         UNCHANGED <<fs, trashDir>>, jid'[i] = jid[i],
         Unregistered' = Unregistered
  PROVE  Implemented
<1>1. (Ahead(i)' <=> Ahead(i)) /\ Footprint(i)' = Footprint(i)
  BY DEF Ahead, Pending, Footprint
<1>2. \A c : Listed(c)' = Listed(c)
  BY DEF Listed
<1>3. \A p \in Footprint(i) \cap Paths : ReplayedTree'[p] = ReplayedTree[p]
  <2>1. CASE ~Ahead(i)
    BY <1>1, <2>1 DEF Local, OwnFacts, Listed
  <2>2. CASE Ahead(i)
    <3>1. op[i].kind = "move" \/ op[i].kind = "trash"
      BY <2>2 DEF Ahead
    <3>2. ReplayedTree'[op[i].src] = ReplayedTree[op[i].src]
      BY <1>1, <2>2 DEF Local, OwnFacts
    <3>3. op[i].kind = "move" => ReplayedTree'[op[i].dst] = ReplayedTree[op[i].dst]
      BY <1>1, <2>2 DEF Local, OwnFacts, Listed
    <3>4. QED
      BY <3>1, <3>2, <3>3 DEF Footprint
  <2>3. QED
    BY <2>1, <2>2
<1>4. ReplayedBin'[i] = ReplayedBin[i]
  BY <1>1 DEF Local, OwnFacts, Ahead, Listed
<1>5. QED
  BY <1>3, <1>4, Invisible

LEMMA MoveImplements ==
  ASSUME NEW i \in Ops, Known, Known', op[i].kind = "move", Advance(i)
  PROVE  Implemented
<1> USE DEF Goto, At, disk, tables, journal
<1>1. /\ op[i].src \in Paths /\ op[i].dst \in Paths /\ op[i].src # op[i].dst
      /\ op' = op /\ faults' = faults /\ phase = "up" /\ "lossyjournal" \notin faults
      /\ Footprint(i) = {op[i].src, op[i].dst} /\ Footprint(i)' = Footprint(i)
      /\ Unregistered' = Unregistered /\ Nil \notin Unregistered
  BY AdvanceKind, AdvanceFrame, OrderlyFacts, DriveAssumption
     DEF Frame, Prepared, CreateFile, RegisterFile, RejectFile, Footprint, Unregistered
<1>2. Tracked(i) /\ Prepared(i) /\ Marked(i)
  BY OrderlyFacts
<1>3. Local(i)
  BY AdvanceKind, AdvanceFrame, StepIsLocal DEF Open
<1>4. /\ fs \in [Paths -> Contents \cup {Nil}] /\ jid \in [Ops -> Nat] /\ nextJid \in Nat \ {0}
  BY DEF Known, TypeOK
<1>5. Listed(Nil) = Nil /\ Listed(Nil)' = Nil /\ \A c : Listed(c)' = Listed(c)
  BY <1>1 DEF Listed
<1>6. trashDir' = trashDir /\ ReplayedBin'[i] = ReplayedBin[i]
  <2>1. trashDir' = trashDir
    BY <1>1 DEF Advance, LogIntent, MoveEntry, MoveRows, RollbackMove, TrashEntry,
       TrashRowsTx, RollbackTrash, DropRows, CreateFile, RegisterFile, RejectFile,
       FailRegister, RemoveIntent
  <2>2. ReplayedBin[i] = Listed(trashDir[i]) /\ ReplayedBin'[i] = Listed(trashDir[i])'
    BY <1>1, <1>3 DEF Local, OwnFacts
  <2>3. QED
    BY <1>1, <2>1, <2>2 DEF Listed
<1>7. Ahead(i) <=> Pending(i) /\ fs[op[i].dst] = Nil
  BY DEF Ahead
<1>8. Ahead(i)' <=> jid'[i] # 0 /\ fs'[op[i].dst] = Nil
  BY <1>1 DEF Ahead, Pending
<1>9. Ahead(i) => /\ ReplayedTree[op[i].src] = Nil
                  /\ ReplayedTree[op[i].dst] = Listed(fs[op[i].src])
  BY <1>3 DEF Local, OwnFacts
<1>10. Ahead(i)' => /\ ReplayedTree'[op[i].src] = Nil
                    /\ ReplayedTree'[op[i].dst] = Listed(fs'[op[i].src])
  BY <1>1, <1>3 DEF Local, OwnFacts, Listed
<1>11. ~Ahead(i) => /\ ReplayedTree[op[i].src] = Listed(fs[op[i].src])
                    /\ ReplayedTree[op[i].dst] = Listed(fs[op[i].dst])
  BY <1>1, <1>3 DEF Local, OwnFacts
<1>12. ~Ahead(i)' => /\ ReplayedTree'[op[i].src] = Listed(fs'[op[i].src])
                     /\ ReplayedTree'[op[i].dst] = Listed(fs'[op[i].dst])
  BY <1>1, <1>3 DEF Local, OwnFacts, Listed
<1>13. ASSUME ReplayedTree'[op[i].src] = ReplayedTree[op[i].src],
              ReplayedTree'[op[i].dst] = ReplayedTree[op[i].dst]
       PROVE  Implemented
  BY <1>1, <1>3, <1>6, <1>13, Invisible
<1>14. CASE LogIntent(i)
  <2>1. ~Pending(i) /\ fs[op[i].dst] = Nil /\ fs' = fs
    BY <1>1, <1>2, <1>14 DEF LogIntent, Marked, Prepared
  <2>2. CASE jid' = [jid EXCEPT ![i] = nextJid]
    <3>1. Ahead(i)'
      BY <1>4, <1>8, <2>1, <2>2
    <3>2. /\ ReplayedTree[op[i].dst] = Nil
          /\ ReplayedTree'[op[i].dst] = ReplayedTree[op[i].src]
          /\ ReplayedTree'[op[i].src] = Nil
      BY <1>5, <1>7, <1>10, <1>11, <2>1, <3>1
    <3>3. QED
      BY <1>1, <1>3, <1>6, <3>2, Relocates
  <2>3. CASE UNCHANGED jid
    BY <1>1, <1>3, <1>6, <2>1, <2>3, SameDisk
  <2>4. QED
    BY <1>14, <2>2, <2>3 DEF LogIntent
<1>15. CASE MoveEntry(i)
  <2>1. Pending(i) /\ jid' = jid /\ Before(i)
    BY <1>1, <1>2, <1>15 DEF MoveEntry, Tracked, Marked
  <2>2. CASE fs[op[i].src] # Nil /\ fs' = Move(fs, op[i].src, op[i].dst)
    <3>1. fs'[op[i].dst] = fs[op[i].src] /\ fs'[op[i].src] = Nil
      BY <1>1, <1>4, <2>2 DEF Move
    <3>2. Ahead(i) /\ ~Ahead(i)'
      BY <1>1, <1>7, <1>8, <2>1, <2>2, <3>1 DEF Before
    <3>3. QED
      BY <1>5, <1>9, <1>12, <1>13, <3>1, <3>2
  <2>3. CASE UNCHANGED fs
    BY <1>1, <1>3, <1>6, <2>1, <2>3, SameDisk
  <2>4. QED
    BY <1>15, <2>2, <2>3 DEF MoveEntry
<1>16. CASE MoveRows(i)
  BY <1>1, <1>3, <1>16, SameDisk DEF MoveRows
<1>17. CASE RollbackMove(i)
  <2>1. Pending(i) /\ jid' = jid /\ Half(i)
    BY <1>1, <1>2, <1>17 DEF RollbackMove, Tracked, Marked
  <2>2. fs' = Move(fs, op[i].dst, op[i].src) /\ fs[op[i].dst] # Nil /\ fs[op[i].src] = Nil
    BY <1>17, <2>1 DEF RollbackMove, Half
  <2>3. fs'[op[i].src] = fs[op[i].dst] /\ fs'[op[i].dst] = Nil
    BY <1>1, <1>4, <2>2 DEF Move
  <2>4. ~Ahead(i) /\ Ahead(i)'
    BY <1>7, <1>8, <2>1, <2>2, <2>3 DEF Pending
  <2>5. QED
    BY <1>5, <1>10, <1>11, <1>13, <2>2, <2>3, <2>4
<1>18. CASE RemoveIntent(i)
  <2>1. Pending(i) /\ jid'[i] = 0 /\ fs' = fs /\ (Before(i) \/ After(i))
    BY <1>1, <1>2, <1>4, <1>18 DEF RemoveIntent, Tracked, Marked
  <2>2. ~Ahead(i)'
    BY <1>8, <2>1
  <2>3. CASE Before(i)
    <3>1. Ahead(i) /\ fs[op[i].dst] = Nil
      BY <1>1, <1>7, <2>1, <2>3 DEF Before
    <3>2. /\ ReplayedTree[op[i].src] = Nil
          /\ ReplayedTree'[op[i].src] = ReplayedTree[op[i].dst]
          /\ ReplayedTree'[op[i].dst] = Nil
      BY <1>5, <1>9, <1>12, <2>1, <2>2, <3>1
    <3>3. Footprint(i) = {op[i].dst, op[i].src}
      BY <1>1
    <3>4. QED
      BY <1>1, <1>3, <1>6, <3>2, <3>3, Relocates
  <2>4. CASE After(i)
    <3>1. ~Ahead(i)
      BY <1>1, <1>7, <2>4 DEF After
    <3>2. QED
      BY <1>11, <1>12, <1>13, <2>1, <2>2, <3>1
  <2>5. QED
    BY <2>1, <2>3, <2>4
<1>19. QED
  BY <1>14, <1>15, <1>16, <1>17, <1>18 DEF Advance, TrashEntry, TrashRowsTx, RollbackTrash,
     DropRows, CreateFile, RegisterFile, RejectFile, FailRegister

LEMMA TrashImplements ==
  ASSUME NEW i \in Ops, Known, Known', op[i].kind = "trash", Advance(i)
  PROVE  Implemented
<1> USE DEF Goto, At, disk, tables, journal
<1>1. /\ op[i].src \in Paths /\ op[i].src = op[i].dst
      /\ op' = op /\ faults' = faults /\ phase = "up" /\ "lossyjournal" \notin faults
      /\ Footprint(i) = {op[i].src} /\ Footprint(i)' = Footprint(i)
      /\ Unregistered' = Unregistered /\ Nil \notin Unregistered
  BY AdvanceKind, AdvanceFrame, OrderlyFacts, DriveAssumption
     DEF Frame, Marked, CreateFile, RegisterFile, RejectFile, Footprint, Unregistered
<1>2. Tracked(i) /\ Prepared(i) /\ Marked(i)
  BY OrderlyFacts
<1>3. Local(i)
  BY AdvanceKind, AdvanceFrame, StepIsLocal DEF Open
<1>4. /\ fs \in [Paths -> Contents \cup {Nil}] /\ trashDir \in [Ops -> Contents \cup {Nil}]
      /\ jid \in [Ops -> Nat] /\ nextJid \in Nat \ {0}
  BY DEF Known, TypeOK
<1>5. Listed(Nil) = Nil /\ Listed(Nil)' = Nil /\ \A c : Listed(c)' = Listed(c)
  BY <1>1 DEF Listed
<1>6. Ahead(i) <=> Pending(i) /\ trashDir[i] = Nil
  BY DEF Ahead
<1>7. Ahead(i)' <=> jid'[i] # 0 /\ trashDir'[i] = Nil
  BY <1>1 DEF Ahead, Pending
<1>8. Ahead(i) => ReplayedTree[op[i].src] = Nil /\ ReplayedBin[i] = Listed(fs[op[i].src])
  BY <1>3 DEF Local, OwnFacts
<1>9. Ahead(i)' => ReplayedTree'[op[i].src] = Nil /\ ReplayedBin'[i] = Listed(fs'[op[i].src])
  BY <1>1, <1>3 DEF Local, OwnFacts, Listed
<1>10. ~Ahead(i) => /\ ReplayedTree[op[i].src] = Listed(fs[op[i].src])
                    /\ ReplayedBin[i] = Listed(trashDir[i])
  BY <1>1, <1>3 DEF Local, OwnFacts
<1>11. ~Ahead(i)' => /\ ReplayedTree'[op[i].src] = Listed(fs'[op[i].src])
                     /\ ReplayedBin'[i] = Listed(trashDir'[i])
  BY <1>1, <1>3 DEF Local, OwnFacts, Listed
<1>12. ASSUME ReplayedTree'[op[i].src] = ReplayedTree[op[i].src], ReplayedBin'[i] = ReplayedBin[i]
       PROVE  Implemented
  BY <1>1, <1>3, <1>12, Invisible
<1>13. CASE LogIntent(i)
  <2>1. ~Pending(i) /\ trashDir[i] = Nil /\ fs' = fs /\ trashDir' = trashDir
    BY <1>1, <1>2, <1>13 DEF LogIntent, Marked, Prepared
  <2>2. CASE jid' = [jid EXCEPT ![i] = nextJid]
    <3>1. Ahead(i)'
      BY <1>4, <1>7, <2>1, <2>2
    <3>2. /\ ReplayedBin[i] = Nil
          /\ ReplayedBin'[i] = ReplayedTree[op[i].src]
          /\ ReplayedTree'[op[i].src] = Nil
      BY <1>5, <1>6, <1>9, <1>10, <2>1, <3>1
    <3>3. QED
      BY <1>1, <1>3, <3>2, Discards
  <2>3. CASE UNCHANGED jid
    BY <1>1, <1>3, <2>1, <2>3, SameDisk
  <2>4. QED
    BY <1>13, <2>2, <2>3 DEF LogIntent
<1>14. CASE TrashEntry(i)
  <2>1. Pending(i) /\ jid' = jid /\ Before(i)
    BY <1>1, <1>2, <1>14 DEF TrashEntry, Tracked, Marked
  <2>2. CASE /\ fs[op[i].src] # Nil
             /\ trashDir' = [trashDir EXCEPT ![i] = fs[op[i].src]]
             /\ fs' = [fs EXCEPT ![op[i].src] = Nil]
    <3>1. trashDir'[i] = fs[op[i].src] /\ fs'[op[i].src] = Nil
      BY <1>1, <1>4, <2>2
    <3>2. Ahead(i) /\ ~Ahead(i)'
      BY <1>6, <1>7, <2>1, <2>2, <3>1 DEF Before
    <3>3. QED
      BY <1>5, <1>8, <1>11, <1>12, <3>1, <3>2
  <2>3. CASE UNCHANGED disk
    BY <1>1, <1>3, <2>1, <2>3, SameDisk
  <2>4. QED
    BY <1>14, <2>2, <2>3 DEF TrashEntry
<1>15. CASE TrashRowsTx(i) \/ DropRows(i)
  BY <1>1, <1>3, <1>15, SameDisk DEF TrashRowsTx, DropRows
<1>16. CASE RollbackTrash(i)
  <2>1. Pending(i) /\ jid' = jid /\ Half(i)
    BY <1>1, <1>2, <1>16 DEF RollbackTrash, Tracked, Marked
  <2>2. trashDir[i] # Nil /\ fs[op[i].src] = Nil
    BY <2>1 DEF Half
  <2>3. fs'[op[i].src] = trashDir[i] /\ trashDir'[i] = Nil
    BY <1>1, <1>4, <1>16 DEF RollbackTrash
  <2>4. ~Ahead(i) /\ Ahead(i)'
    BY <1>6, <1>7, <2>1, <2>2, <2>3 DEF Pending
  <2>5. QED
    BY <1>5, <1>9, <1>10, <1>12, <2>2, <2>3, <2>4
<1>17. CASE RemoveIntent(i)
  <2>1. Pending(i) /\ jid'[i] = 0 /\ fs' = fs /\ trashDir' = trashDir /\ (Before(i) \/ After(i))
    BY <1>1, <1>2, <1>4, <1>17 DEF RemoveIntent, Tracked, Marked
  <2>2. ~Ahead(i)'
    BY <1>7, <2>1
  <2>3. CASE Before(i)
    <3>1. Ahead(i) /\ trashDir[i] = Nil
      BY <1>6, <2>1, <2>3 DEF Before
    <3>2. /\ ReplayedTree[op[i].src] = Nil
          /\ ReplayedTree'[op[i].src] = ReplayedBin[i]
          /\ ReplayedBin'[i] = Nil
      BY <1>5, <1>8, <1>11, <2>1, <2>2, <3>1
    <3>3. QED
      BY <1>1, <1>3, <3>2, PutsBack
  <2>4. CASE After(i)
    <3>1. ~Ahead(i)
      BY <1>6, <2>4 DEF After
    <3>2. QED
      BY <1>10, <1>11, <1>12, <1>5, <2>1, <2>2, <3>1
  <2>5. QED
    BY <2>1, <2>3, <2>4
<1>18. QED
  BY <1>13, <1>14, <1>15, <1>16, <1>17 DEF Advance, MoveEntry, MoveRows, RollbackMove,
     CreateFile, RegisterFile, RejectFile, FailRegister

\* Content that is not registered yet is nowhere in the abstract drive.
LEMMA MappedIsRegistered ==
  ASSUME Known
  PROVE  /\ \A p \in Paths : ReplayedTree[p] \notin Unregistered
         /\ \A j \in Ops : ReplayedBin[j] \notin Unregistered
<1>1. TreeFacts
  BY TreeIsMapped
<1>2. \A c : Listed(c) \notin Unregistered
  BY DriveAssumption DEF Listed, Unregistered
<1>3. ASSUME NEW p \in Paths
      PROVE  ReplayedTree[p] \notin Unregistered
  <2>1. CASE \E j \in Ops : Ahead(j) /\ p \in Footprint(j)
    <3>1. PICK j \in Ops : Ahead(j) /\ p \in Footprint(j)
      BY <2>1
    <3>2. op[j].kind = "trash" => op[j].src = op[j].dst
      BY OrderlyFacts DEF Marked
    <3>3. ReplayedTree[p] = Nil \/ ReplayedTree[p] = Listed(fs[op[j].src])
      BY <1>1, <3>1, <3>2 DEF TreeFacts, Footprint, Ahead
    <3>4. QED
      BY <1>2, <3>3, DriveAssumption DEF Unregistered
  <2>2. CASE \A j \in Ops : Ahead(j) => p \notin Footprint(j)
    <3>1. ReplayedTree[p] = Listed(fs[p])
      BY <1>1, <2>2 DEF TreeFacts
    <3>2. QED
      BY <1>2, <3>1
  <2>3. QED
    BY <2>1, <2>2
<1>4. ASSUME NEW j \in Ops
      PROVE  ReplayedBin[j] \notin Unregistered
  <2>1. ReplayedBin[j] = Listed(fs[op[j].src]) \/ ReplayedBin[j] = Listed(trashDir[j])
    BY <1>1 DEF TreeFacts
  <2>2. QED
    BY <1>2, <2>1
<1>5. QED
  BY <1>3, <1>4

LEMMA PutImplements ==
  ASSUME NEW i \in Ops, Known, Known', op[i].kind = "put", Advance(i)
  PROVE  Implemented
<1> USE DEF Goto, At, disk, tables, journal
<1>1. /\ op[i].dst \in Paths /\ op[i].src = op[i].dst
      /\ op' = op /\ faults' = faults /\ phase = "up"
      /\ Footprint(i) = {op[i].dst} /\ Footprint(i)' = Footprint(i)
  BY AdvanceKind, AdvanceFrame, OrderlyFacts DEF Frame, Marked, Footprint
<1>2. ~Pending(i) /\ Prepared(i) /\ Marked(i) /\ trashDir[i] = Nil
  BY <1>1, OrderlyFacts DEF Tracked, BinCovered
<1>3. Local(i)
  BY AdvanceKind, AdvanceFrame, StepIsLocal DEF Open
<1>4. /\ fs \in [Paths -> Contents \cup {Nil}] /\ i # Nil
      /\ pc \in [Ops -> Live \cup {"idle", "done", "dead", "orphaned"}]
      /\ Nil \notin Unregistered /\ Nil \notin Unregistered'
  BY DriveAssumption DEF Known, TypeOK, Unregistered
<1>5. CreateFile(i) \/ RegisterFile(i) \/ RejectFile(i) \/ FailRegister(i)
  BY <1>1, <1>2 DEF Advance, LogIntent, MoveEntry, MoveRows, RollbackMove, TrashEntry,
     TrashRowsTx, RollbackTrash, DropRows, RemoveIntent, Marked
<1>6. jid' = jid /\ trashDir' = trashDir
  BY <1>5 DEF CreateFile, RegisterFile, RejectFile, FailRegister
<1>7. ~Ahead(i) /\ ~Ahead(i)'
  BY <1>1, <1>2, <1>6 DEF Ahead, Pending
<1>8. ReplayedBin'[i] = ReplayedBin[i]
  BY <1>2, <1>3, <1>4, <1>6, <1>7 DEF Local, OwnFacts, Listed
<1>9. /\ ReplayedTree[op[i].dst] = Listed(fs[op[i].dst])
      /\ \A c : c = fs'[op[i].dst] => ReplayedTree'[op[i].dst] = Listed(c)'
  BY <1>1, <1>3, <1>7 DEF Local, OwnFacts, Listed
<1>10. ASSUME ReplayedTree'[op[i].dst] = ReplayedTree[op[i].dst]
       PROVE  Implemented
  BY <1>1, <1>3, <1>8, <1>10, Invisible
<1>11. CASE CreateFile(i)
  <2>1. CASE fs[op[i].dst] = Nil
    <3>1. fs'[op[i].dst] = i /\ i \in Unregistered'
      BY <1>1, <1>4, <1>11, <2>1 DEF CreateFile, Unregistered
    <3>2. QED
      BY <1>4, <1>9, <1>10, <2>1, <3>1 DEF Listed
  <2>2. CASE fs[op[i].dst] # Nil
    <3>1. pc[i] = "checked" /\ pc' = [pc EXCEPT ![i] = "done"] /\ fs' = fs
      BY <1>11, <2>2 DEF CreateFile
    <3>2. Unregistered' = Unregistered
      BY <1>4, <3>1 DEF Unregistered
    <3>3. QED
      BY <1>1, <1>3, <1>6, <3>1, <3>2, SameDisk
  <2>3. QED
    BY <2>1, <2>2
<1>12. CASE RegisterFile(i)
  <2>1. fs[op[i].dst] = i /\ fs' = fs /\ i \in Unregistered /\ i \notin Unregistered'
    BY <1>2, <1>4, <1>12 DEF RegisterFile, Prepared, Unregistered
  <2>2. ReplayedTree[op[i].dst] = Nil /\ ReplayedTree'[op[i].dst] = i
    BY <1>9, <2>1 DEF Listed
  <2>3. ReplayedTree' = [ReplayedTree EXCEPT ![op[i].dst] = i]
    BY <1>1, <1>3, <2>2 DEF Local
  <2>4. ReplayedBin' = ReplayedBin
    BY <1>3, <1>8 DEF Local
  <2>5. ~Drive!Present(i)
    BY <2>1, MappedIsRegistered DEF Drive!Present
  <2>6. Drive!Add(op[i].dst, i)
    BY <2>2, <2>3, <2>4, <2>5 DEF Drive!Add
  <2>7. i \in Contents
    BY DEF Contents
  <2>8. QED
    BY <1>1, <2>6, <2>7 DEF Implemented, Drive!Next
<1>13. CASE RejectFile(i)
  <2>1. fs[op[i].dst] = i /\ fs'[op[i].dst] = Nil /\ i \in Unregistered
    BY <1>1, <1>2, <1>4, <1>13 DEF RejectFile, Prepared, Unregistered
  <2>2. QED
    BY <1>4, <1>9, <1>10, <2>1 DEF Listed
<1>14. CASE FailRegister(i)
  <2>1. Unregistered' = Unregistered /\ fs' = fs
    BY <1>4, <1>14 DEF FailRegister, Unregistered
  <2>2. QED
    BY <1>1, <1>3, <1>6, <2>1, SameDisk
<1>15. QED
  BY <1>5, <1>11, <1>12, <1>13, <1>14

LEMMA ReplayImplements ==
  ASSUME NEW i \in Ops, Known, Known', Replay(i)
  PROVE  Implemented
<1> USE DEF disk, tables, journal, Settle, Retain
<1>1. /\ Frame(i) /\ Pending(i) /\ op' = op /\ Unregistered' = Unregistered
  BY ReplayFrame DEF Frame
<1>2. Tracked(i) /\ Prepared(i) /\ Marked(i) /\ op[i].kind \in {"move", "trash"}
  BY <1>1, OrderlyFacts DEF Tracked
<1>3. /\ op[i].src \in Paths /\ op[i].dst \in Paths
      /\ op[i].kind = "move" => op[i].src # op[i].dst
      /\ op[i].kind = "trash" => op[i].src = op[i].dst
      /\ Footprint(i)' = Footprint(i)
  BY <1>1, <1>2, FootprintInPaths DEF Known, Prepared, Marked, Footprint
<1>4. Local(i)
  BY <1>1, StepIsLocal DEF Open
<1>5. /\ fs \in [Paths -> Contents \cup {Nil}] /\ trashDir \in [Ops -> Contents \cup {Nil}]
      /\ jid \in [Ops -> Nat] /\ Nil \notin Unregistered /\ "lossyjournal" \notin faults
  BY OrderlyFacts, DriveAssumption DEF Known, TypeOK, Unregistered
<1>6. Listed(Nil) = Nil /\ Listed(Nil)' = Nil /\ \A c : Listed(c)' = Listed(c)
  BY <1>1, <1>5 DEF Listed
<1>7. ASSUME UNCHANGED <<fs, trashDir, jid>>
      PROVE  Implemented
  BY <1>1, <1>3, <1>4, <1>7, SameDisk
<1>8. Ahead(i) => /\ ReplayedTree[op[i].src] = Nil
                  /\ op[i].kind = "move" => ReplayedTree[op[i].dst] = Listed(fs[op[i].src])
                  /\ op[i].kind = "trash" => ReplayedBin[i] = Listed(fs[op[i].src])
  BY <1>4 DEF Local, OwnFacts
<1>9. ~Ahead(i)' => /\ ReplayedTree'[op[i].src] = Listed(fs'[op[i].src])
                    /\ ReplayedTree'[op[i].dst] = Listed(fs'[op[i].dst])
  BY <1>1, <1>3, <1>4 DEF Local, OwnFacts, Listed, Footprint
<1>10. ~Ahead(i)' \/ op[i].kind # "trash" => ReplayedBin'[i] = Listed(trashDir'[i])
  BY <1>1, <1>4 DEF Local, OwnFacts, Listed
<1>11. op[i].kind # "trash" => ReplayedBin[i] = Listed(trashDir[i])
  BY <1>4 DEF Local, OwnFacts
<1>12. ASSUME ReplayedTree'[op[i].src] = ReplayedTree[op[i].src],
              ReplayedTree'[op[i].dst] = ReplayedTree[op[i].dst],
              ReplayedBin'[i] = ReplayedBin[i]
       PROVE  Implemented
  BY <1>4, <1>12, Invisible DEF Footprint
<1>13. CASE ReplayMoveEntry(i)
  <2>1. /\ op[i].kind = "move" /\ Ahead(i) /\ fs[op[i].src] # Nil /\ trashDir' = trashDir
        /\ fs'[op[i].dst] = fs[op[i].src] /\ fs'[op[i].src] = Nil
    BY <1>1, <1>3, <1>5, <1>13 DEF ReplayMoveEntry, Replaying, Move, Ahead
  <2>2. ~Ahead(i)'
    BY <1>1, <2>1 DEF Ahead
  <2>3. QED
    BY <1>6, <1>8, <1>9, <1>10, <1>11, <1>12, <2>1, <2>2
<1>14. CASE ReplayTrashEntry(i)
  <2>1. /\ op[i].kind = "trash" /\ Ahead(i) /\ fs[op[i].src] # Nil
        /\ trashDir'[i] = fs[op[i].src] /\ fs'[op[i].src] = Nil
    BY <1>1, <1>3, <1>5, <1>14 DEF ReplayTrashEntry, Replaying, Ahead
  <2>2. ~Ahead(i)'
    BY <1>1, <2>1 DEF Ahead
  <2>3. QED
    BY <1>3, <1>6, <1>8, <1>9, <1>10, <1>12, <2>1, <2>2
<1>15. CASE ReplayMoveRows(i) \/ ReplayTrashRow(i) \/ ReplayTrashDropRows(i) \/ ReplayGiveUp(i)
  BY <1>7, <1>15 DEF ReplayMoveRows, ReplayTrashRow, ReplayTrashDropRows, ReplayGiveUp
<1>16. CASE ReplayRemove(i)
  <2>1. /\ fs' = fs /\ trashDir' = trashDir /\ jid'[i] = 0
        /\ After(i) \/ (Before(i) /\ fs[op[i].src] = Nil)
    BY <1>1, <1>2, <1>5, <1>16 DEF ReplayRemove, Tracked
  <2>2. ~Ahead(i)'
    BY <1>1, <2>1 DEF Ahead, Pending
  <2>3. CASE After(i)
    <3>1. ~Ahead(i)
      BY <2>3 DEF After, Ahead
    <3>2. /\ ReplayedTree[op[i].src] = Listed(fs[op[i].src])
          /\ ReplayedTree[op[i].dst] = Listed(fs[op[i].dst])
          /\ ReplayedBin[i] = Listed(trashDir[i])
      BY <1>3, <1>4, <3>1 DEF Local, OwnFacts, Footprint
    <3>3. QED
      BY <1>6, <1>9, <1>10, <1>12, <2>1, <2>2, <3>2
  <2>4. CASE Before(i) /\ fs[op[i].src] = Nil
    <3>1. Ahead(i)
      BY <1>1, <1>2, <2>4 DEF Before, Ahead
    <3>2. op[i].kind = "move" => fs[op[i].dst] = Nil
      BY <2>4 DEF Before
    <3>3. op[i].kind = "trash" => trashDir[i] = Nil
      BY <2>4 DEF Before
    <3>4. ReplayedTree'[op[i].src] = ReplayedTree[op[i].src]
      BY <1>6, <1>8, <1>9, <2>1, <2>2, <2>4, <3>1
    <3>5. ReplayedTree'[op[i].dst] = ReplayedTree[op[i].dst]
      BY <1>2, <1>3, <1>6, <1>8, <1>9, <2>1, <2>2, <2>4, <3>1, <3>2
    <3>6. ReplayedBin'[i] = ReplayedBin[i]
      BY <1>2, <1>6, <1>8, <1>10, <1>11, <2>1, <2>2, <2>4, <3>1, <3>3
    <3>7. QED
      BY <1>12, <3>4, <3>5, <3>6
  <2>5. QED
    BY <2>1, <2>3, <2>4
<1>17. QED
  BY <1>13, <1>14, <1>15, <1>16 DEF Replay

\* Nor does a request that starts, a listing, a crash or a restart show.
LEMMA SameEntries ==
  ASSUME Known, Known', UNCHANGED <<fs, trashDir, jid>>, Unregistered' = Unregistered,
         \A i \in Ops : Pending(i) => op'[i] = op[i]
  PROVE  Implemented
<1>1. TreeFacts /\ TreeFacts'
  BY TreeIsMapped, TreeIsMappedNext
<1>2. \A i \in Ops : /\ Ahead(i)' <=> Ahead(i)
                     /\ Ahead(i) => op'[i] = op[i]
                     /\ Ahead(i) => op[i].kind \in {"move", "trash"}
                     /\ Ahead(i) /\ op[i].kind = "trash" => op[i].src = op[i].dst
  BY OrderlyFacts DEF Ahead, Pending, Marked
<1>3. \A c : Listed(c)' = Listed(c)
  BY DEF Listed
<1>4. ASSUME NEW p \in Paths
      PROVE  ReplayedTree'[p] = ReplayedTree[p]
  <2>1. CASE \E j \in Ops : Ahead(j) /\ p \in Footprint(j)
    <3>1. PICK j \in Ops : Ahead(j) /\ p \in Footprint(j)
      BY <2>1
    <3>2. Ahead(j)' /\ op'[j] = op[j]
      BY <1>2, <3>1
    <3>3. CASE p = op[j].src
      BY <1>1, <3>1, <3>2, <3>3 DEF TreeFacts
    <3>4. CASE p # op[j].src
      <4>1. p = op[j].dst /\ op[j].kind = "move"
        BY <1>2, <3>1, <3>4 DEF Footprint
      <4>2. ReplayedTree[p] = Listed(fs[op[j].src]) /\ ReplayedTree'[p] = Listed(fs[op[j].src])'
        BY <1>1, <3>1, <3>2, <4>1 DEF TreeFacts
      <4>3. QED
        BY <3>2, <4>2 DEF Listed
    <3>5. QED
      BY <3>3, <3>4
  <2>2. CASE \A j \in Ops : Ahead(j) => p \notin Footprint(j)
    <3>1. \A j \in Ops : Ahead(j)' => p \notin Footprint(j)'
      BY <1>2, <2>2 DEF Footprint
    <3>2. ReplayedTree[p] = Listed(fs[p]) /\ ReplayedTree'[p] = Listed(fs[p])'
      BY <1>1, <2>2, <3>1 DEF TreeFacts
    <3>3. QED
      BY <3>2 DEF Listed
  <2>3. QED
    BY <2>1, <2>2
<1>5. ASSUME NEW j \in Ops
      PROVE  ReplayedBin'[j] = ReplayedBin[j]
  <2>1. CASE Ahead(j) /\ op[j].kind = "trash"
    <3>1. ReplayedBin[j] = Listed(fs[op[j].src]) /\ ReplayedBin'[j] = Listed(fs[op[j].src])'
      BY <1>1, <1>2, <2>1 DEF TreeFacts
    <3>2. QED
      BY <1>2, <2>1, <3>1 DEF Listed
  <2>2. CASE ~(Ahead(j) /\ op[j].kind = "trash")
    <3>1. ReplayedBin[j] = Listed(trashDir[j]) /\ ReplayedBin'[j] = Listed(trashDir[j])'
      BY <1>1, <1>2, <2>2 DEF TreeFacts
    <3>2. QED
      BY <3>1 DEF Listed
  <2>3. QED
    BY <2>1, <2>2
<1>6. ReplayedTree' = ReplayedTree
  BY <1>1, <1>4 DEF TreeFacts
<1>7. ReplayedBin' = ReplayedBin
  BY <1>1, <1>5 DEF TreeFacts
<1>8. QED
  BY <1>6, <1>7 DEF Implemented

LEMMA StepImplements ==
  ASSUME Known, Known', [Next]_vars
  PROVE  Implemented
<1> USE DEF disk, tables, journal, request, server, reader, Goto
<1>1. ASSUME NEW i \in Ops, NEW src \in Paths, NEW dst \in Paths,
             StartMove(i, src, dst) \/ StartTrash(i, src) \/ StartPut(i, src)
      PROVE  Implemented
  <2>1. /\ pc[i] = "idle" /\ pc'[i] \in {"checked", "rowsonly", "done"}
        /\ \A j \in Ops \ {i} : pc'[j] = pc[j] /\ op'[j] = op[j]
        /\ UNCHANGED <<fs, trashDir, jid>>
    BY <1>1 DEF StartMove, StartTrash, StartPut, Begin, Known, TypeOK
  <2>2. Unregistered' = Unregistered
    BY <2>1 DEF Unregistered
  <2>3. ~Pending(i)
    BY <2>1, OrderlyFacts DEF Stage, Tracked
  <2>4. QED
    BY <2>1, <2>2, <2>3, SameEntries
<1>2. ASSUME NEW i \in Ops, Advance(i)
      PROVE  Implemented
  BY <1>2, AdvanceKind, MoveImplements, TrashImplements, PutImplements
<1>3. ASSUME UNCHANGED <<fs, trashDir, jid, op>>, Unregistered' = Unregistered
      PROVE  Implemented
  BY <1>3, SameEntries
<1>4. CASE ListRead \/ ListStat \/ ListPurge \/ Boot \/ Serve
  <2>1. UNCHANGED <<fs, trashDir, jid, op, pc>>
    BY <1>4 DEF ListRead, ListStat, ListPurge, Boot, Serve
  <2>2. QED
    BY <1>3, <2>1 DEF Unregistered
<1>5. CASE Crash
  BY <1>3, <1>5 DEF Crash, Abandoned, Live, Unregistered
<1>6. CASE UNCHANGED vars
  BY <1>3, <1>6 DEF vars, Unregistered
<1>7. ASSUME NEW i \in Ops
      PROVE  ~Disconnect(i)
  BY OrderlyFacts DEF Disconnect
<1>8. QED
  BY <1>1, <1>2, <1>4, <1>5, <1>6, <1>7, ReplayImplements DEF Next

\* The journalled drive implements the atomic one: a rename, a move, a delete and
\* an upload of entries nobody else works on takes effect in one step, and a
\* crash, the restart and every step of the replay change nothing.
THEOREM DriveIsAtomic == Spec => CrashesAreInvisible
<1>1. Init => Drive!Init
  <2> SUFFICES ASSUME Init
               PROVE  Drive!Init
    OBVIOUS
  <2>1. \A i \in Ops : ~Pending(i) /\ trashDir[i] = Nil
    BY DEF Init, Pending
  <2>2. fs \in [Paths -> Contents \cup {Nil}] /\ \A c \in Contents \cup {Nil} : Listed(c) \in Contents \cup {Nil}
    BY DEF Init, Contents, Listed
  <2>3. \A p \in Paths : Arriving(p) = {} /\ Leaving(p) = {}
    BY <2>1 DEF Arriving, Leaving
  <2>4. ReplayedTree \in [Paths -> Contents \cup {Nil}]
    BY <2>2, <2>3 DEF ReplayedTree
  <2>5. ReplayedBin = [u \in Ops |-> Nil]
    BY <2>1, DriveAssumption DEF ReplayedBin, Listed, Unregistered
  <2>6. QED
    BY <2>4, <2>5 DEF Drive!Init
<1>2. /\ TypeOK /\ PlaceInv /\ TrashInv /\ Unshared /\ ReplayInv
      /\ (TypeOK /\ PlaceInv /\ TrashInv /\ Unshared /\ ReplayInv)'
      /\ [Next]_vars
      => [(faults \subseteq {"txfail", "list"}) => Drive!Next]_<<ReplayedTree, ReplayedBin>>
  <2> SUFFICES ASSUME TypeOK, PlaceInv, TrashInv, Unshared, ReplayInv,
                      (TypeOK /\ PlaceInv /\ TrashInv /\ Unshared /\ ReplayInv)',
                      [Next]_vars, Orderly
               PROVE  Implemented
    BY DEF Orderly, Implemented
  <2>1. Orderly'
    BY ListingStep DEF ReplayInv, Orderly
  <2>2. Known /\ Known'
    BY <2>1 DEF Known
  <2>3. QED
    BY <2>2, StepImplements
<1>3. QED
  BY <1>1, <1>2, Recovery, PTL DEF Spec, CrashesAreInvisible
=============================================================================

---------------------------- MODULE MCFsJournal ----------------------------
(* Instances of FsJournal for TLC.                                         *)
EXTENDS FsJournal, TLC

TxFaults      == {{"txfail"}}
AllFaults     == {{"txfail", "list"}, FaultKinds \ {"overlap"}, FaultKinds}
OverlapFaults == {{"overlap"}}

Symmetry == Permutations(Paths) \cup Permutations(Ops)
=============================================================================

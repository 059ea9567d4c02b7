------------------------------ MODULE MCAccess ------------------------------
(* Instances of Access for TLC.                                            *)
EXTENDS Access, TLC

SomeFaults   == {{"dberror"}, {"overlap", "sync", "disconnect"}}
NoFaults     == {{}}
SlotSymmetry == Permutations(Slots)
=============================================================================

----------------------------- MODULE MCTrashBin -----------------------------
(* Instances of TrashBin for TLC.                                          *)
EXTENDS TrashBin, TLC

CONSTANTS a, b, d, p, q

\* two files of one path, and a directory of two short files
ThreeItems == {a, b, d}
Where      == a :> p @@ b :> p @@ d :> q
Directory  == {d}
Lengths    == a :> (1 :> 2) @@ b :> (1 :> 3) @@ d :> (1 :> 1 @@ 2 :> 1)

SomeFaults == {{"txfail", "iofail", "dberror", "crash"}, {"txfail"}, {"disconnect"},
               {"overlap", "directory"}}
SlotSymmetry == Permutations(Slots)
=============================================================================

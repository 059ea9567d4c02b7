------------------------------ MODULE MCDirTree ------------------------------
(* Instances of DirTree for TLC.                                           *)
EXTENDS DirTree, TLC

\* no two names differ only in case
NoTwins == [n \in Names |-> n]

\* sound with NoTwins
NameSymmetry == Permutations(Names)
=============================================================================

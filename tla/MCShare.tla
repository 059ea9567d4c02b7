------------------------------ MODULE MCShare -------------------------------
(* Instances of Share for TLC.                                             *)
EXTENDS Share, TLC

CONSTANT register

\* One file of a shared directory within the short window; registration has the long one.
Limits  == "access" :> 3 @@ "page" :> 3 @@ "subfile" :> 1 @@ register :> 1
Windows == "access" :> 1 @@ "page" :> 1 @@ "subfile" :> 1 @@ register :> 2

SomeFaults     == {{}, {"overlap", "dberror"}}
ClientSymmetry == Permutations(Clients) \cup Permutations(Slots)
=============================================================================

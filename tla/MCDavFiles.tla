----------------------------- MODULE MCDavFiles -----------------------------
(* Instances of DavFiles for TLC.                                          *)
EXTENDS DavFiles, TLC

CONSTANTS d, e, n, m, small, large

Sizes    == small :> 1 @@ large :> 2
TwoFiles == <<d, n>> :> large @@ <<e, m>> :> small

SomeFaults == {{"iofail"}, {"txfail", "fullcopy"}, {"recount", "overlap", "missing"},
               {"crash", "disconnect", "dberror"}}
NoFaults == {{}}
SlotSymmetry == Permutations(Slots)
=============================================================================

---------------------------- MODULE MCChunkUpload ----------------------------
(* Instances of ChunkUpload for TLC.                                       *)
EXTENDS ChunkUpload, TLC

CONSTANTS big, small

\* a file of two short chunks, and a file of one full chunk
TwoFiles == (big :> (0 :> 1 @@ 1 :> 1)) @@ (small :> (0 :> 2))

\* kinds of faults; those properties that a kind excludes are checked under the others
SomeFaults ==
  {{"crash", "disconnect"}, {"truncate"}, {"create"}, {"expire"}, {"overlap"}}
SlotSymmetry == Permutations(Slots)
=============================================================================

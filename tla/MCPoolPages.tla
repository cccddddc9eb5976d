----------------------------- MODULE MCPoolPages -----------------------------
(* Instances of the two windows for TLC.                                   *)
EXTENDS PoolPages, TLC

\* The supply may hand out any frame, so frames are interchangeable.
FrameSymmetry == Permutations(Frames)
==============================================================================

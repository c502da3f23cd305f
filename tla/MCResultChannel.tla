--------------------------- MODULE MCResultChannel ---------------------------
(***************************************************************************)
(* Model checking of ResultChannel: two frames are enough to tell a whole  *)
(* image or result from a mixed one.                                       *)
(***************************************************************************)
EXTENDS ResultChannel, TLC

Symmetry == Permutations(Producers) \cup Permutations(Frames)

=============================================================================

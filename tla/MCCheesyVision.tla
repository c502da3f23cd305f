--------------------------- MODULE MCCheesyVision ---------------------------
(***************************************************************************)
(* Model checking of CheesyVision with the timeout and the sleeps of the   *)
(* source, 3 and 50 seconds.                                               *)
(***************************************************************************)
EXTENDS CheesyVision

=============================================================================

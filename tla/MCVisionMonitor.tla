--------------------------- MODULE MCVisionMonitor ---------------------------
(***************************************************************************)
(* Model checking of VisionMonitor with as many images as let one be       *)
(* overwritten before, during and after the processing of another.         *)
(***************************************************************************)
EXTENDS VisionMonitor

=============================================================================

-------------------------- MODULE MCCameraLifecycle --------------------------
(***************************************************************************)
(* Model checking of CameraLifecycle.  Two PiCam threads are main's own    *)
(* and a restart, or two restarts; two record threads let a T meet a T.    *)
(* The threads are interchangeable.                                        *)
(***************************************************************************)
EXTENDS CameraLifecycle, TLC

Symmetry == Permutations(CamThreads) \cup Permutations(RecThreads)

=============================================================================

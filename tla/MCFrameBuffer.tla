---------------------------- MODULE MCFrameBuffer ----------------------------
(***************************************************************************)
(* Model checking of FrameBuffer: VIDEO_OUTPUT_BUFFERS_NUM buffers, and as *)
(* many frames as let the callback lap start twice.                        *)
(***************************************************************************)
EXTENDS FrameBuffer

=============================================================================

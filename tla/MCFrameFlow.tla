----------------------------- MODULE MCFrameFlow -----------------------------
(* Instances of FrameFlow for TLC. *)
EXTENDS FrameFlow
=============================================================================

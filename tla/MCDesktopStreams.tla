--------------------------- MODULE MCDesktopStreams ---------------------------
(* Instances of DesktopStreams for TLC. *)
EXTENDS DesktopStreams
=============================================================================

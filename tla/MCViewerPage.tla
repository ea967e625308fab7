---------------------------- MODULE MCViewerPage ----------------------------
(* Instances of ViewerPage for TLC. *)
EXTENDS ViewerPage
=============================================================================

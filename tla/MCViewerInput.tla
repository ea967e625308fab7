---------------------------- MODULE MCViewerInput ----------------------------
(* Instances of ViewerInput for TLC. *)
EXTENDS ViewerInput, TLC

Symmetry == Permutations(Places) \cup Permutations(Keys)
=============================================================================

--------------------------- MODULE MCControlPlane ---------------------------
(* Values for the constants of ControlPlane. *)
EXTENDS ControlPlane, TLC

Symmetry == Permutations(Routes) \cup Permutations(Shapes)
=============================================================================

---------------------------- MODULE MCHookEndpoint ----------------------------
(* Values for the constants of HookEndpoint. *)
EXTENDS HookEndpoint, TLC

CONSTANTS w, x, adm

WriteOnly     == {w}
ExplicitScope == {x}
AllScopes     == {w, x, adm}

Symmetry == Permutations(Secrets)
=============================================================================

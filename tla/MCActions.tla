------------------------------ MODULE MCActions ------------------------------
(* Two calls at a time, which are alike. *)
EXTENDS Actions, TLC

Symmetry == Permutations(Callers)

=============================================================================

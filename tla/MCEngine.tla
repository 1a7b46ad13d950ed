------------------------------ MODULE MCEngine ------------------------------
(* Engine on small instances. *)
EXTENDS Engine, TLC

RunSymmetry == Permutations(Runs)
=============================================================================

------------------------------ MODULE MCLogin -------------------------------
(* A small instance of Login for TLC. *)
EXTENDS Login, TLC

Symmetry == Permutations(Reqs)
=============================================================================

------------------------------ MODULE MCBilling ------------------------------
(* Small instances of Billing for TLC. *)
EXTENDS Billing, TLC

Symmetry == Permutations(Tasks)

\* Every plan has a price and a product of its own, and so has what is no plan.
OwnPrice == [i \in Items |-> i]
=============================================================================

----------------------------- MODULE MCMetering -----------------------------
(* Small instances of Metering for TLC. *)
EXTENDS Metering, TLC

\* The database's session is a second west of UTC, half a day of this clock.
West == -1

Symmetry == Permutations(Reqs)
=============================================================================

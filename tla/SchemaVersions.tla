--------------------------- MODULE SchemaVersions ---------------------------
(* What db/migrate.js promises of the database: the files are applied in     *)
(* filename order, each exactly once, one at a time, whoever applies them.   *)
EXTENDS Integers

CONSTANT Files      \* number of files in db/migrations, numbered in order

VARIABLES
    version,    \* files applied
    times       \* how often each file's SQL was committed

Init == version = 0 /\ times = [f \in 1..Files |-> 0]

Upgrade ==
    /\ version < Files
    /\ version' = version + 1
    /\ times' = [times EXCEPT ![version + 1] = @ + 1]

Spec == Init /\ [][Upgrade]_<<version, times>>
=============================================================================

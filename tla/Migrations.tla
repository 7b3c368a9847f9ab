----------------------------- MODULE Migrations -----------------------------
(***************************************************************************)
(* db/migrate.js: any number of runs of the script on one database, at the *)
(* same time, one after another, cut off at any point and started again,   *)
(* from checkouts of different age (a newer one has more files).           *)
(*                                                                         *)
(* The SQL of a file and its row in schema_migrations are one transaction. *)
(* A second INSERT of the same filename waits for the first transaction to *)
(* end, then conflicts with its row or takes its place.                    *)
(*                                                                         *)
(* times, rivals and broken are history variables.                         *)
(***************************************************************************)
EXTENDS Integers, FiniteSets

CONSTANTS Runs, Files

ASSUME FilesAssumption == Files \in Nat

VARIABLES
    applied,    \* the rows of schema_migrations
    run,        \* the locals of every run of the script
    times,      \* history: commits of each file's SQL
    rivals,     \* history: files others have committed since a run began
    broken      \* history: runs a statement of which failed, or that were killed

vars == <<applied, run, times, rivals, broken>>

File == 1..Files

\* dir: the files of this checkout; seen: the applied ones when it asked; file:
\* the one it is at.  "insert" and "commit" are inside a transaction.
Locals == [pc : {"off", "read", "insert", "commit", "done", "failed"},
           dir : 0..Files, seen : SUBSET File, file : 0..Files]

TypeOK ==
    /\ applied \in SUBSET File
    /\ run \in [Runs -> Locals]
    /\ times \in [File -> Nat]
    /\ rivals \in [Runs -> SUBSET File]
    /\ broken \in [Runs -> BOOLEAN]

At(r, pc) == run[r].pc = pc
Over(r) == run[r].pc \in {"off", "done", "failed"}

Init ==
    /\ applied = {}
    /\ run = [r \in Runs |-> [pc |-> "off", dir |-> 0, seen |-> {}, file |-> 0]]
    /\ times = [f \in File |-> 0]
    /\ rivals = [r \in Runs |-> {}]
    /\ broken = [r \in Runs |-> FALSE]

\* The table is created if need be; then the applied files are asked for.
Start(r, dir) ==
    /\ Over(r)
    /\ run' = [run EXCEPT ![r] = [pc |-> "read", dir |-> dir, seen |-> {}, file |-> 0]]
    /\ rivals' = [rivals EXCEPT ![r] = {}]
    /\ broken' = [broken EXCEPT ![r] = FALSE]
    /\ UNCHANGED <<applied, times>>

\* Mutant: the loop starts at the second file.
MissingSkips(dir, seen, file) == {f \in 1..dir : f > file + 1 /\ f \notin seen}

\* for (const file of files) if (applied.has(file)) continue;
Missing(dir, seen, file) == {f \in 1..dir : f > file /\ f \notin seen}

\* Go on to the next file, whose SQL is executed, or come to the end.
GoOn(r, seen) ==
    LET missing == Missing(run[r].dir, seen, run[r].file)
    IN  \/ \E f \in missing :
              /\ \A g \in missing : f <= g
              /\ run' = [run EXCEPT ![r].pc = "insert", ![r].seen = seen, ![r].file = f]
        \/ missing = {} /\ run' = [run EXCEPT ![r].pc = "done", ![r].seen = seen]

ReadApplied(r) ==
    /\ At(r, "read")
    /\ GoOn(r, applied)
    /\ UNCHANGED <<applied, times, rivals, broken>>

\* Mutant: no PRIMARY KEY.
FreeAlways(r) == TRUE

\* Nobody has the row, committed or not.
Free(r) ==
    /\ run[r].file \notin applied
    /\ \A q \in Runs : At(q, "commit") => run[q].file # run[r].file

\* The INSERT of the filename.
InsertRow(r) ==
    /\ At(r, "insert")
    /\ Free(r)
    /\ run' = [run EXCEPT ![r].pc = "commit"]
    /\ UNCHANGED <<applied, times, rivals, broken>>

\* Mutant: the catch tries again.
InsertConflictsForever(r) ==
    /\ At(r, "insert")
    /\ run[r].file \in applied
    /\ UNCHANGED vars

\* The primary key refuses it: ROLLBACK, exit(1).
InsertConflicts(r) ==
    /\ At(r, "insert")
    /\ run[r].file \in applied
    /\ run' = [run EXCEPT ![r].pc = "failed"]
    /\ UNCHANGED <<applied, times, rivals, broken>>

Commit(r) ==
    LET f == run[r].file
    IN  /\ At(r, "commit")
        /\ applied' = applied \cup {f}
        /\ times' = [times EXCEPT ![f] = @ + 1]
        /\ rivals' = [q \in Runs |-> IF q = r THEN rivals[q] ELSE rivals[q] \cup {f}]
        /\ GoOn(r, run[r].seen)
        /\ UNCHANGED broken

\* A statement fails (ROLLBACK, exit(1)), or the script is killed and the server
\* rolls back.
Breaks(r) ==
    /\ ~Over(r)
    /\ run' = [run EXCEPT ![r].pc = "failed"]
    /\ broken' = [broken EXCEPT ![r] = TRUE]
    /\ UNCHANGED <<applied, times, rivals>>

Advance(r) == ReadApplied(r) \/ InsertRow(r) \/ InsertConflicts(r) \/ Commit(r)

Next == \E r \in Runs : (\E dir \in 0..Files : Start(r, dir)) \/ Advance(r) \/ Breaks(r)

\* A run that can go on does; one that waits for a row is next when it is free,
\* for PostgreSQL queues those who wait.
Spec ==
    /\ Init
    /\ [][Next]_vars
    /\ \A r \in Runs : WF_vars(Advance(r)) /\ SF_vars(InsertRow(r))

-----------------------------------------------------------------------------
\* Properties

\* How a run ends (db/migrate.js:21-54): one that says it is done has brought the
\* schema to its own last file at least; one that failed without a failing
\* statement met a file that another run has committed since it asked.
OutcomesHold ==
    \A r \in Runs :
        /\ At(r, "done") => 1..run[r].dir \subseteq applied
        /\ At(r, "failed") /\ ~broken[r] => run[r].file \in rivals[r] \cap applied

\* db/migrate.js:1-2: in filename order, re-running is always safe.  However runs
\* overlap, fail and are repeated, the files are applied in order, each once.
Schema == INSTANCE SchemaVersions WITH version <- Cardinality(applied)
Versioned == Schema!Spec

\* No run waits for ever on another's transaction (db/migrate.js:39-42).
RunsEnd == \A r \in Runs : ~Over(r) ~> Over(r)
=============================================================================

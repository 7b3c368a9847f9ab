-------------------------- MODULE MigrationsProofs --------------------------
(***************************************************************************)
(* However many runs of db/migrate.js there are, and wherever they fail:   *)
(* what a run says of its end is true, and the files are applied in order  *)
(* and once, as SchemaVersions states it.                                  *)
(***************************************************************************)
EXTENDS Migrations, FiniteSetTheorems, TLAPS

\* The applied files are the first ones.
InOrder == \E v \in 0..Files : applied = 1..v

\* A run that works on a file has everything before it applied, did not see the
\* file applied, and owes every later one that is applied to somebody else.
Working(r) ==
    /\ run[r].file \in 1..run[r].dir
    /\ run[r].file \notin run[r].seen
    /\ 1..(run[r].file - 1) \subseteq applied
    /\ \A g \in applied : g \in run[r].seen \/ g \in rivals[r] \/ g < run[r].file

RunSound(r) ==
    /\ run[r].seen \subseteq applied
    /\ At(r, "read") => run[r].file = 0
    /\ run[r].pc \in {"insert", "commit"} => Working(r)
    /\ At(r, "commit") => run[r].file \notin applied
    /\ At(r, "done") => 1..run[r].dir \subseteq applied
    /\ At(r, "failed") /\ ~broken[r] => run[r].file \in rivals[r] \cap applied

\* A row that is inserted and not yet committed keeps others from inserting it.
OneWriter == \A q, r \in Runs : At(q, "commit") /\ At(r, "commit") /\ run[q].file = run[r].file => q = r

IInv == TypeOK /\ InOrder /\ OneWriter /\ \A r \in Runs : RunSound(r)

-----------------------------------------------------------------------------

(* The invariant holds before any run of the script. *)
LEMMA InitInv == Init => IInv
<1> SUFFICES ASSUME Init PROVE IInv
  OBVIOUS
<1>1. TypeOK
  BY FilesAssumption DEF Init, TypeOK, Locals, File
<1>2. InOrder
  BY FilesAssumption DEF Init, InOrder
<1>3. OneWriter /\ \A r \in Runs : RunSound(r)
  BY DEF Init, OneWriter, RunSound, At
<1> QED
  BY <1>1, <1>2, <1>3 DEF IInv

(* GoOn leaves the run at its next file, or done with none left. *)
LEMMA GoOnEffect ==
    ASSUME TypeOK, NEW r \in Runs, NEW seen \in SUBSET File, GoOn(r, seen)
    PROVE  /\ run' \in [Runs -> Locals]
           /\ \A q \in Runs \ {r} : run'[q] = run[q]
           /\ run'[r].dir = run[r].dir /\ run'[r].seen = seen
           /\ \/ /\ run'[r].pc = "insert"
                 /\ run'[r].file \in 1..run[r].dir
                 /\ run'[r].file > run[r].file
                 /\ run'[r].file \notin seen
                 /\ \A g \in 1..run[r].dir : run[r].file < g /\ g < run'[r].file => g \in seen
              \/ /\ run'[r].pc = "done"
                 /\ \A g \in 1..run[r].dir : run[r].file < g => g \in seen
<1> DEFINE missing == Missing(run[r].dir, seen, run[r].file)
<1>1. run[r] \in Locals
  BY DEF TypeOK
<1>2. CASE \E f \in missing : /\ \A g \in missing : f <= g
                              /\ run' = [run EXCEPT ![r].pc = "insert", ![r].seen = seen, ![r].file = f]
  <2>1. PICK f \in missing : /\ \A g \in missing : f <= g
                             /\ run' = [run EXCEPT ![r].pc = "insert", ![r].seen = seen, ![r].file = f]
    BY <1>2
  <2>2. f \in 1..run[r].dir /\ f > run[r].file /\ f \notin seen /\ f \in 0..Files
    BY <2>1, <1>1, FilesAssumption DEF Missing, Locals
  <2>3. \A g \in 1..run[r].dir : run[r].file < g /\ g < f => g \in seen
    BY <2>1, <2>2, <1>1, FilesAssumption DEF Missing, Locals
  <2>4. run'[r].pc = "insert" /\ run'[r].file = f /\ run'[r].dir = run[r].dir /\ run'[r].seen = seen
        /\ \A q \in Runs \ {r} : run'[q] = run[q]
    BY <2>1, <1>1 DEF TypeOK, Locals
  <2>5. run' \in [Runs -> Locals]
    BY <2>1, <2>2, <1>1 DEF TypeOK, Locals
  <2> QED
    BY <2>2, <2>3, <2>4, <2>5
<1>3. CASE missing = {} /\ run' = [run EXCEPT ![r].pc = "done", ![r].seen = seen]
  <2>1. \A g \in 1..run[r].dir : run[r].file < g => g \in seen
    BY <1>3, <1>1, FilesAssumption DEF Missing, Locals
  <2>2. run'[r].pc = "done" /\ run'[r].dir = run[r].dir /\ run'[r].seen = seen
        /\ \A q \in Runs \ {r} : run'[q] = run[q]
    BY <1>3, <1>1 DEF TypeOK, Locals
  <2>3. run' \in [Runs -> Locals]
    BY <1>3, <1>1 DEF TypeOK, Locals
  <2> QED
    BY <2>1, <2>2, <2>3
<1> QED
  BY <1>2, <1>3 DEF GoOn

(* A run is sound as long as others only add to what is applied, and it is told
   which files they added. *)
LEMMA OthersSound ==
    ASSUME IInv, NEW q \in Runs, NEW f \in File,
           run'[q] = run[q], broken'[q] = broken[q],
           applied' = applied \cup {f}, rivals'[q] = rivals[q] \cup {f},
           At(q, "commit") => run[q].file # f
    PROVE  RunSound(q)'
<1>1. RunSound(q)
  BY DEF IInv
<1>2. Working(q) => Working(q)'
  BY DEF Working
<1> QED
  BY <1>1, <1>2 DEF RunSound, At

(* The script starts and asks for the applied files. *)
LEMMA StartInv ==
    ASSUME IInv, NEW r \in Runs, NEW dir \in 0..Files, Start(r, dir)
    PROVE  IInv'
<1>1. TypeOK'
  BY FilesAssumption DEF IInv, TypeOK, Start, Locals, File
<1>2. run'[r] = [pc |-> "read", dir |-> dir, seen |-> {}, file |-> 0]
      /\ \A q \in Runs \ {r} : run'[q] = run[q] /\ rivals'[q] = rivals[q] /\ broken'[q] = broken[q]
  BY DEF IInv, TypeOK, Start
<1>3. RunSound(r)'
  BY <1>2 DEF RunSound, At
<1>4. \A q \in Runs \ {r} : RunSound(q)'
  <2> TAKE q \in Runs \ {r}
  <2>1. Working(q) => Working(q)'
    BY <1>2 DEF Start, Working
  <2> QED
    BY <1>2, <2>1 DEF IInv, Start, RunSound, At
<1>5. InOrder' /\ OneWriter'
  BY <1>2 DEF IInv, InOrder, OneWriter, Start, At
<1> QED
  BY <1>1, <1>3, <1>4, <1>5 DEF IInv

(* The applied files are read: what is missing begins behind what is there. *)
LEMMA ReadInv ==
    ASSUME IInv, NEW r \in Runs, ReadApplied(r)
    PROVE  IInv'
<1>0. TypeOK /\ RunSound(r) /\ applied \in SUBSET File /\ run[r] \in Locals
  BY DEF IInv, TypeOK
<1>1. /\ run' \in [Runs -> Locals]
      /\ \A q \in Runs \ {r} : run'[q] = run[q]
      /\ run'[r].dir = run[r].dir /\ run'[r].seen = applied
      /\ \/ /\ run'[r].pc = "insert"
            /\ run'[r].file \in 1..run[r].dir
            /\ run'[r].file > run[r].file
            /\ run'[r].file \notin applied
            /\ \A g \in 1..run[r].dir : run[r].file < g /\ g < run'[r].file => g \in applied
         \/ /\ run'[r].pc = "done"
            /\ \A g \in 1..run[r].dir : run[r].file < g => g \in applied
  BY <1>0, GoOnEffect DEF ReadApplied
<1>2. run[r].file = 0
  BY <1>0 DEF RunSound, ReadApplied
<1>3. RunSound(r)'
  BY <1>0, <1>1, <1>2, FilesAssumption DEF RunSound, Working, At, ReadApplied, Locals
<1>4. \A q \in Runs \ {r} : RunSound(q)'
  <2> TAKE q \in Runs \ {r}
  <2>1. Working(q) => Working(q)'
    BY <1>1 DEF ReadApplied, Working
  <2> QED
    BY <1>1, <2>1 DEF IInv, ReadApplied, RunSound, At
<1>5. TypeOK' /\ InOrder' /\ OneWriter'
  BY <1>1 DEF IInv, TypeOK, InOrder, OneWriter, ReadApplied, At
<1> QED
  BY <1>3, <1>4, <1>5 DEF IInv

(* A row is inserted by one run at a time. *)
LEMMA InsertInv ==
    ASSUME IInv, NEW r \in Runs, InsertRow(r)
    PROVE  IInv'
<1>1. run' = [run EXCEPT ![r].pc = "commit"] /\ At(r, "insert") /\ Free(r) /\ run[r] \in Locals
  BY DEF InsertRow, IInv, TypeOK
<1>2. /\ run'[r].pc = "commit" /\ run'[r].dir = run[r].dir /\ run'[r].seen = run[r].seen
      /\ run'[r].file = run[r].file
      /\ \A q \in Runs \ {r} : run'[q] = run[q]
  BY <1>1 DEF IInv, TypeOK, Locals
<1>3. TypeOK'
  BY <1>1 DEF IInv, TypeOK, InsertRow, Locals
<1>4. \A q \in Runs : Working(q) => Working(q)'
  BY <1>2 DEF InsertRow, Working
<1>5. RunSound(r) /\ RunSound(r)'
  BY <1>1, <1>2, <1>4 DEF IInv, InsertRow, RunSound, Free, At
<1>6. \A q \in Runs \ {r} : RunSound(q)'
  BY <1>2, <1>4 DEF IInv, InsertRow, RunSound, At
<1>7. InOrder' /\ OneWriter'
  BY <1>1, <1>2 DEF IInv, InOrder, OneWriter, InsertRow, Free, At
<1> QED
  BY <1>3, <1>5, <1>6, <1>7 DEF IInv

(* A run that fails, on a conflict or for another reason, changes nothing else;
   on a conflict, the file is one that others have committed. *)
LEMMA FailInv ==
    ASSUME IInv, NEW r \in Runs, InsertConflicts(r) \/ Breaks(r)
    PROVE  IInv'
<1>1. /\ run' = [run EXCEPT ![r].pc = "failed"] /\ run[r] \in Locals
      /\ UNCHANGED <<applied, times, rivals>>
      /\ broken' = [broken EXCEPT ![r] = TRUE] \/ broken' = broken
  BY DEF InsertConflicts, Breaks, IInv, TypeOK
<1>2. /\ run'[r].pc = "failed" /\ run'[r].seen = run[r].seen /\ run'[r].file = run[r].file
      /\ \A q \in Runs \ {r} : run'[q] = run[q] /\ broken'[q] = broken[q]
  BY <1>1 DEF IInv, TypeOK, Locals
<1>3. TypeOK'
  BY <1>1 DEF IInv, TypeOK, Locals
<1>4. ~broken'[r] => run[r].file \in rivals[r] \cap applied
  <2>1. CASE InsertConflicts(r)
    <3>1. run[r].file \in applied /\ Working(r)
      BY <2>1 DEF InsertConflicts, IInv, RunSound, At
    <3> QED
      BY <3>1, <1>1, FilesAssumption DEF Working, Locals
  <2>2. CASE Breaks(r)
    BY <2>2 DEF Breaks, IInv, TypeOK
  <2> QED
    BY <2>1, <2>2
<1>5. RunSound(r)'
  BY <1>1, <1>2, <1>4 DEF IInv, RunSound, At
<1>6. \A q \in Runs \ {r} : RunSound(q)'
  <2> TAKE q \in Runs \ {r}
  <2>1. Working(q) => Working(q)'
    BY <1>1, <1>2 DEF Working
  <2> QED
    BY <1>1, <1>2, <2>1 DEF IInv, RunSound, At
<1>7. InOrder' /\ OneWriter'
  BY <1>1, <1>2 DEF IInv, InOrder, OneWriter, At
<1> QED
  BY <1>3, <1>5, <1>6, <1>7 DEF IInv

(* The file a run commits is the one after the applied ones. *)
LEMMA CommitNext ==
    ASSUME IInv, NEW r \in Runs, Commit(r)
    PROVE  /\ run[r].file \in 1..run[r].dir /\ run[r].dir <= Files
           /\ run[r].file \notin applied
           /\ applied = 1..(run[r].file - 1)
           /\ applied' = 1..run[r].file
<1>1. Working(r) /\ run[r].file \notin applied /\ run[r] \in Locals /\ applied' = applied \cup {run[r].file}
  BY DEF Commit, IInv, RunSound, TypeOK, At
<1>2. PICK v \in 0..Files : applied = 1..v
  BY DEF IInv, InOrder
<1>3. run[r].file \in 1..run[r].dir /\ run[r].dir \in 0..Files
  BY <1>1 DEF Working, Locals
<1>4. v = run[r].file - 1
  <2>1. run[r].file \in Int /\ 1 <= run[r].file /\ v \in Nat
    BY <1>3, FilesAssumption
  <2>2. run[r].file > v
    BY <1>1, <1>2, <2>1
  <2>3. run[r].file = 1 \/ run[r].file - 1 \in 1..(run[r].file - 1)
    BY <2>1
  <2>4. run[r].file = 1 \/ run[r].file - 1 \in 1..v
    BY <1>1, <1>2, <2>3 DEF Working
  <2> QED
    BY <2>1, <2>2, <2>4
<1> QED
  BY <1>1, <1>2, <1>3, <1>4, FilesAssumption

(* A commit adds the next file and goes on to the one after it that is missing. *)
LEMMA CommitInv ==
    ASSUME IInv, NEW r \in Runs, Commit(r)
    PROVE  IInv'
<1> DEFINE f == run[r].file
<1>0. /\ TypeOK /\ RunSound(r) /\ run[r] \in Locals /\ run[r].seen \in SUBSET File
      /\ At(r, "commit") /\ Working(r) /\ GoOn(r, run[r].seen) /\ broken' = broken
      /\ times' = [times EXCEPT ![f] = @ + 1]
      /\ rivals' = [q \in Runs |-> IF q = r THEN rivals[q] ELSE rivals[q] \cup {f}]
  BY DEF IInv, TypeOK, Locals, Commit, RunSound, At
<1>1. /\ f \in 1..run[r].dir /\ run[r].dir \in 0..Files /\ f \in File
      /\ applied = 1..(f - 1) /\ applied' = 1..f /\ applied' = applied \cup {f}
  <2>1. /\ f \in 1..run[r].dir /\ run[r].dir <= Files /\ applied = 1..(f - 1) /\ applied' = 1..f
    BY CommitNext
  <2>2. run[r].dir \in 0..Files
    BY <1>0 DEF Locals
  <2>3. applied' = applied \cup {f}
    BY DEF Commit
  <2>4. f \in File
    BY <2>1, <2>2, FilesAssumption DEF File
  <2> QED
    BY <2>1, <2>2, <2>3, <2>4
<1>2. /\ run' \in [Runs -> Locals]
      /\ \A q \in Runs \ {r} : run'[q] = run[q]
      /\ run'[r].dir = run[r].dir /\ run'[r].seen = run[r].seen
      /\ \/ /\ run'[r].pc = "insert"
            /\ run'[r].file \in 1..run[r].dir
            /\ run'[r].file > run[r].file
            /\ run'[r].file \notin run[r].seen
            /\ \A g \in 1..run[r].dir : run[r].file < g /\ g < run'[r].file => g \in run[r].seen
         \/ /\ run'[r].pc = "done"
            /\ \A g \in 1..run[r].dir : run[r].file < g => g \in run[r].seen
  BY <1>0, GoOnEffect
<1>3. TypeOK'
  <2>1. rivals' \in [Runs -> SUBSET File]
    BY <1>0, <1>1 DEF TypeOK
  <2>2. times' \in [File -> Nat]
    BY <1>0, <1>1 DEF TypeOK
  <2> QED
    BY <1>0, <1>1, <1>2, <2>1, <2>2, FilesAssumption DEF TypeOK, File
<1>4. RunSound(r)'
  <2>1. run[r].seen \subseteq applied'
    BY <1>0, <1>1 DEF RunSound
  <2>2. CASE run'[r].pc = "insert"
    <3>1. 1..(run'[r].file - 1) \subseteq applied'
      BY <1>1, <1>2, <2>1, <2>2
    <3>2. \A g \in applied' : g \in run'[r].seen \/ g \in rivals'[r] \/ g < run'[r].file
      BY <1>0, <1>1, <1>2, <2>2 DEF Working
    <3> QED
      BY <1>2, <2>1, <2>2, <3>1, <3>2 DEF RunSound, Working, At
  <2>3. CASE run'[r].pc = "done"
    <3>1. 1..run[r].dir \subseteq applied'
      BY <1>1, <1>2, <2>1, <2>3
    <3> QED
      BY <1>2, <2>1, <2>3, <3>1 DEF RunSound, At
  <2> QED
    BY <1>2, <2>2, <2>3
<1>5. \A q \in Runs \ {r} : RunSound(q)'
  <2> TAKE q \in Runs \ {r}
  <2>1. At(q, "commit") => run[q].file # f
    BY <1>0 DEF IInv, OneWriter
  <2>2. rivals'[q] = rivals[q] \cup {f}
    BY <1>0
  <2> QED
    BY <1>0, <1>1, <1>2, <2>1, <2>2, OthersSound
<1>6. InOrder' /\ OneWriter'
  <2>1. f \in 0..Files
    BY <1>1, FilesAssumption
  <2>2. InOrder'
    BY <1>1, <2>1 DEF InOrder
  <2>3. OneWriter'
    BY <1>2 DEF IInv, OneWriter, At
  <2> QED
    BY <2>2, <2>3
<1> QED
  BY <1>3, <1>4, <1>5, <1>6 DEF IInv

-----------------------------------------------------------------------------

(* The invariant is preserved by every step of every run, whoever else runs. *)
THEOREM Inductive == IInv /\ [Next]_vars => IInv'
<1> SUFFICES ASSUME IInv, [Next]_vars PROVE IInv'
  OBVIOUS
<1>1. CASE Next
  <2>1. PICK r \in Runs : (\E dir \in 0..Files : Start(r, dir)) \/ Advance(r) \/ Breaks(r)
    BY <1>1 DEF Next
  <2> QED
    BY <2>1, StartInv, ReadInv, InsertInv, FailInv, CommitInv DEF Advance
<1>2. CASE UNCHANGED vars
  BY <1>2 DEF vars, IInv, TypeOK, InOrder, OneWriter, RunSound, Working, At
<1> QED
  BY <1>1, <1>2

(* It holds throughout. *)
LEMMA AlwaysInv == Spec => []IInv
<1> QED
  BY InitInv, Inductive, PTL DEF Spec

(* Every variable keeps its type, for any number of runs and files. *)
THEOREM TypeCorrect == Spec => []TypeOK
<1>1. IInv => TypeOK
  BY DEF IInv
<1> QED
  BY AlwaysInv, <1>1, PTL

(* What a run of db/migrate.js says of its end is true, for any number of runs
   and files: done means up to date, and failing without a failing statement
   means that another run has committed the file. *)
THEOREM Outcomes == Spec => []OutcomesHold
<1>1. IInv => OutcomesHold
  BY DEF IInv, OutcomesHold, RunSound
<1> QED
  BY AlwaysInv, <1>1, PTL

(* The script implements SchemaVersions: for any number of runs and files, at
   once, again or cut off, the files are applied in order and each once. *)
THEOREM ImplementsVersions == Spec => Versioned
<1>1. Init => Schema!Init
  <2> SUFFICES ASSUME Init PROVE Schema!Init
    OBVIOUS
  <2>1. Cardinality(applied) = 0
    BY FS_EmptySet DEF Init
  <2> QED
    BY <2>1 DEF Init, Schema!Init, File
<1>2. IInv /\ [Next]_vars => [Schema!Upgrade]_<<Cardinality(applied), times>>
  <2> SUFFICES ASSUME IInv, [Next]_vars, UNCHANGED <<applied, times>> \/ \E r \in Runs : Commit(r)
               PROVE  [Schema!Upgrade]_<<Cardinality(applied), times>>
    <3>1. [Next]_vars => UNCHANGED <<applied, times>> \/ \E r \in Runs : Commit(r)
      BY DEF Next, vars, Advance, Start, ReadApplied, InsertRow, InsertConflicts, Breaks
    <3> QED
      BY <3>1
  <2>1. CASE UNCHANGED <<applied, times>>
    BY <2>1
  <2>2. CASE \E r \in Runs : Commit(r)
    <3>1. PICK r \in Runs : Commit(r)
      BY <2>2
    <3>2. /\ run[r].file \in 1..Files
          /\ applied = 1..(run[r].file - 1) /\ applied' = 1..run[r].file
          /\ times' = [times EXCEPT ![run[r].file] = @ + 1]
      <4>1. run[r].file \in 1..run[r].dir /\ run[r].dir \in 0..Files
        BY <3>1, CommitNext DEF IInv, TypeOK, Locals
      <4>2. run[r].file \in 1..Files
        BY <4>1, FilesAssumption
      <4> QED
        BY <3>1, <4>2, CommitNext DEF Commit
    <3>3. Cardinality(applied) = run[r].file - 1 /\ Cardinality(applied') = run[r].file
      <4>1. \A f \in Nat : Cardinality(1..f) = f
        <5> SUFFICES ASSUME NEW f \in Nat PROVE Cardinality(1..f) = f
          OBVIOUS
        <5>1. Cardinality(1..f) = IF 1 > f THEN 0 ELSE f - 1 + 1
          BY FS_Interval
        <5> QED
          BY <5>1
      <4>2. run[r].file \in Nat /\ run[r].file - 1 \in Nat
        BY <3>2, FilesAssumption
      <4>3. Cardinality(1..(run[r].file - 1)) = run[r].file - 1 /\ Cardinality(1..run[r].file) = run[r].file
        BY <4>1, <4>2
      <4> QED
        BY <3>2, <4>3
    <3>4. Cardinality(applied)' = Cardinality(applied')
      OBVIOUS
    <3>5. Cardinality(applied) + 1 = run[r].file /\ Cardinality(applied) < Files
          /\ Cardinality(applied)' = Cardinality(applied) + 1
      BY <3>2, <3>3, <3>4, FilesAssumption
    <3>6. times' = [times EXCEPT ![Cardinality(applied) + 1] = @ + 1]
      BY <3>2, <3>5, Zenon
    <3>7. Schema!Upgrade
      BY <3>5, <3>6 DEF Schema!Upgrade
    <3> QED
      BY <3>7
  <2> QED
    BY <2>1, <2>2
<1> QED
  BY <1>1, <1>2, AlwaysInv, PTL DEF Spec, Versioned, Schema!Spec
=============================================================================

---------------------------- MODULE LlamaCluster ----------------------------
(***************************************************************************)
(* config/llama-cluster.js: the model servers behind POST /api/chat, picked *)
(* round robin, skipping for 30 seconds one that has failed.  The state is  *)
(* the process's own: a restart forgets it.                                *)
(*                                                                         *)
(* passed is a history variable: the picks that passed a server by since   *)
(* it last was picked, or was in cooldown.                                 *)
(***************************************************************************)
EXTENDS Integers

CONSTANT Size       \* number of servers, not 0 (assumed in Chat)

VARIABLES index, cooldown, passed
vars == <<index, cooldown, passed>>

Server == 0..(Size - 1)

TypeOK ==
    /\ index \in Server
    /\ cooldown \in SUBSET Server       \* failedUntil is in the future
    /\ passed \in [Server -> Nat]

\* Steps round the ring from a server to another.
Distance(from, to) == IF from <= to THEN to - from ELSE to - from + Size

\* Mutant: index stays at the server picked.
AfterSame(s) == s

\* (s + 1) % urls.length
After(s) == IF s = Size - 1 THEN 0 ELSE s + 1

\* The first server from index on that is not in cooldown.
IsFirst(s) == s \notin cooldown /\ \A q \in Server \ cooldown : Distance(index, s) <= Distance(index, q)

Init ==
    /\ index = 0
    /\ cooldown = {}
    /\ passed = [s \in Server |-> 0]

\* What a pick of s does to the history.
Counted(s) == [q \in Server |-> IF q = s \/ q \in cooldown THEN 0 ELSE passed[q] + 1]

\* nextServerUrl returns s and goes on behind it; when all are in cooldown it
\* moves on by one, returns that server, and stays there.
Pick(s) ==
    /\ \/ IsFirst(s) /\ index' = After(s)
       \/ cooldown = Server /\ s = After(index) /\ index' = s
    /\ passed' = Counted(s)
    /\ UNCHANGED cooldown

\* markFailed
MarkFailed(s) ==
    /\ cooldown' = cooldown \cup {s}
    /\ passed' = [passed EXCEPT ![s] = 0]
    /\ UNCHANGED index

\* 30 seconds have passed since the last failure of s.
CooldownEnds(s) ==
    /\ s \in cooldown
    /\ cooldown' = cooldown \ {s}
    /\ UNCHANGED <<index, passed>>

\* The process starts again.
Boot == index' = 0 /\ cooldown' = {} /\ passed' = [s \in Server |-> 0]

Next == Boot \/ \E s \in Server : Pick(s) \/ MarkFailed(s) \/ CooldownEnds(s)

Spec == Init /\ [][Next]_vars

\* Round robin (config/llama-cluster.js:13-26), also through failures and the
\* branch taken when every server is in cooldown: a server that is not in
\* cooldown is picked at the latest when each other one has been picked once.
NoServerStarved == \A s \in Server \ cooldown : passed[s] + Distance(index, s) < Size
=============================================================================

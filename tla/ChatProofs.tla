------------------------------ MODULE ChatProofs ------------------------------
(***************************************************************************)
(* Of chat, for any number of requests, conversations and model servers:   *)
(* no healthy server falls out of the round robin, none is in cooldown but *)
(* for a failure, and a shutdown that exits with 0 has cut off nobody who   *)
(* was still connected.                                                    *)
(***************************************************************************)
EXTENDS Chat, TLAPS

-----------------------------------------------------------------------------
\* The cluster

\* A server in cooldown starts from zero when it comes back.
RingInv ==
    /\ Cluster!TypeOK
    /\ \A s \in cooldown : passed[s] = 0
    /\ NoServerStarved

(* From a server of the ring any other is less than one round away, and one
   step less from the next server. *)
LEMMA DistanceFacts ==
    ASSUME NEW a \in Cluster!Server, NEW b \in Cluster!Server
    PROVE  /\ Cluster!Distance(a, b) \in 0..(Size - 1)
           /\ Cluster!After(a) \in Cluster!Server
           /\ Cluster!Distance(Cluster!After(a), a) = Size - 1
           /\ a # b => Cluster!Distance(Cluster!After(a), b) = Cluster!Distance(a, b) - 1
  BY ChatAssumption DEF Cluster!Distance, Cluster!After, Cluster!Server

(* A server between another and the index is that much nearer. *)
LEMMA DistanceAdds ==
    ASSUME NEW i \in Cluster!Server, NEW s \in Cluster!Server, NEW q \in Cluster!Server,
           Cluster!Distance(i, s) <= Cluster!Distance(i, q)
    PROVE  Cluster!Distance(s, q) = Cluster!Distance(i, q) - Cluster!Distance(i, s)
  BY ChatAssumption DEF Cluster!Distance, Cluster!Server

(* A pick passes every other healthy server by once, and comes one step nearer
   to it at least. *)
LEMMA PickInv ==
    ASSUME RingInv, NEW s \in Cluster!Server, Cluster!Pick(s)
    PROVE  RingInv'
<1>1. /\ index \in Cluster!Server /\ cooldown \in SUBSET Cluster!Server
      /\ passed \in [Cluster!Server -> Nat]
      /\ cooldown' = cooldown /\ passed' = Cluster!Counted(s)
  BY DEF RingInv, Cluster!TypeOK, Cluster!Pick
<1>2. index' \in Cluster!Server
  BY <1>1, DistanceFacts DEF Cluster!Pick
<1>3. /\ passed' \in [Cluster!Server -> Nat]
      /\ \A q \in Cluster!Server : passed'[q] = IF q = s \/ q \in cooldown THEN 0 ELSE passed[q] + 1
  BY <1>1 DEF Cluster!Counted
<1>4. ASSUME NEW q \in Cluster!Server \ cooldown
      PROVE  passed'[q] + Cluster!Distance(index', q) < Size
  <2>1. Cluster!IsFirst(s) /\ index' = Cluster!After(s)
    BY <1>1, <1>4 DEF Cluster!Pick
  <2>2. CASE q = s
    BY <1>3, <2>1, <2>2, DistanceFacts, ChatAssumption
  <2>3. CASE q # s
    <3>1. Cluster!Distance(index, s) <= Cluster!Distance(index, q)
      BY <1>4, <2>1 DEF Cluster!IsFirst
    <3>2. Cluster!Distance(s, q) = Cluster!Distance(index, q) - Cluster!Distance(index, s)
      BY <1>1, <1>4, <3>1, DistanceAdds
    <3>3. Cluster!Distance(index', q) = Cluster!Distance(s, q) - 1
      BY <1>4, <2>1, <2>3, DistanceFacts
    <3>4. passed'[q] = passed[q] + 1 /\ passed[q] \in Nat
      BY <1>1, <1>3, <1>4, <2>3
    <3>5. passed[q] + Cluster!Distance(index, q) < Size
      BY <1>4 DEF RingInv, NoServerStarved, Cluster!NoServerStarved
    <3>6. Cluster!Distance(index, q) \in Int /\ Cluster!Distance(index, s) \in Nat
      BY <1>1, <1>4, DistanceFacts, ChatAssumption
    <3> QED
      BY <3>2, <3>3, <3>4, <3>5, <3>6, ChatAssumption
  <2> QED
    BY <2>2, <2>3
<1>5. \A q \in cooldown' : passed'[q] = 0
  BY <1>1, <1>3
<1> QED
  BY <1>1, <1>2, <1>3, <1>4, <1>5
     DEF RingInv, Cluster!TypeOK, NoServerStarved, Cluster!NoServerStarved

(* A failure, the end of a cooldown and a restart keep the invariant. *)
LEMMA HealthInv ==
    ASSUME RingInv,
           \/ \E s \in Cluster!Server : Cluster!MarkFailed(s) \/ Cluster!CooldownEnds(s)
           \/ Cluster!Boot
           \/ UNCHANGED cluster
    PROVE  RingInv'
<1>1. CASE \E s \in Cluster!Server : Cluster!MarkFailed(s)
  BY <1>1 DEF RingInv, Cluster!TypeOK, NoServerStarved, Cluster!NoServerStarved, Cluster!MarkFailed
<1>2. CASE \E s \in Cluster!Server : Cluster!CooldownEnds(s)
  <2>1. PICK s \in Cluster!Server : Cluster!CooldownEnds(s)
    BY <1>2
  <2>2. passed[s] = 0 /\ Cluster!Distance(index, s) \in 0..(Size - 1)
    BY <2>1, DistanceFacts DEF RingInv, Cluster!TypeOK, Cluster!CooldownEnds
  <2> QED
    BY <2>1, <2>2, ChatAssumption
       DEF RingInv, Cluster!TypeOK, NoServerStarved, Cluster!NoServerStarved, Cluster!CooldownEnds
<1>3. CASE Cluster!Boot
  <2>1. 0 \in Cluster!Server
    BY ChatAssumption DEF Cluster!Server
  <2>2. \A s \in Cluster!Server : Cluster!Distance(0, s) \in 0..(Size - 1)
    BY <2>1, DistanceFacts
  <2> QED
    BY <1>3, <2>1, <2>2, ChatAssumption
       DEF RingInv, Cluster!TypeOK, NoServerStarved, Cluster!NoServerStarved, Cluster!Boot
<1>4. CASE UNCHANGED cluster
  BY <1>4 DEF cluster, RingInv, Cluster!TypeOK, NoServerStarved, Cluster!NoServerStarved
<1> QED
  BY <1>1, <1>2, <1>3, <1>4

\* With the servers that failed others.
ClusterInv == RingInv /\ elsewhere \in SUBSET Cluster!Server

(* What a step does to the servers. *)
LEMMA ClusterStep ==
    ASSUME TypeOK, [Next]_vars
    PROVE  /\ \/ \E s \in Cluster!Server : Cluster!Pick(s) \/ Cluster!MarkFailed(s) \/ Cluster!CooldownEnds(s)
              \/ Cluster!Boot
              \/ UNCHANGED cluster
           /\ elsewhere' \in SUBSET Cluster!Server
<1>1. (\A r \in Reqs : Blamed(r) \in Cluster!Server) /\ elsewhere \in SUBSET Cluster!Server
  BY DEF TypeOK, Locals, Blamed
<1>2. ASSUME NEW r \in Reqs, Serve(r)
      PROVE  /\ (\E s \in Cluster!Server : Cluster!Pick(s) \/ Cluster!MarkFailed(s)) \/ UNCHANGED cluster
             /\ elsewhere' = elsewhere
  <2>1. CASE \E s \in Cluster!Server : Ask(r, s)
    BY <2>1 DEF Ask
  <2>2. CASE Unreachable(r) \/ MessageRefused(r) \/ StatementFails(r)
    BY <1>1, <2>2 DEF Unreachable, MessageRefused, StatementFails, Rejects, cluster
  <2>3. CASE \/ \E stream \in BOOLEAN : Arrive(r, stream)
             \/ \E c \in Convs : GetOrCreateConversation(r, c)
             \/ \E text \in BOOLEAN : StreamEnds(r, text)
             \/ SaveQuestion(r) \/ Answered(r) \/ Refused(r) \/ Charge(r) \/ SaveAnswer(r)
             \/ Report(r) \/ ClientLeaves(r)
    <3>1. UNCHANGED cluster
      BY <2>3 DEF Arrive, GetOrCreateConversation, StreamEnds, SaveQuestion, Answered, Refused, Charge,
                  SaveAnswer, Report, ClientLeaves
    <3> QED
      BY <3>1 DEF cluster
  <2> QED
    BY <1>2, <2>1, <2>2, <2>3 DEF Serve
<1>3. ASSUME UNCHANGED cluster PROVE elsewhere' = elsewhere
  BY <1>3 DEF cluster
<1>4. CASE \E c \in Convs : DeleteConversation(c)
  BY <1>1, <1>3, <1>4 DEF DeleteConversation
<1>5. CASE \E s \in Cluster!Server : CooldownEnds(s) \/ OthersAsk(s) \/ OthersFail(s)
  BY <1>1, <1>5 DEF CooldownEnds, OthersAsk, OthersFail
<1>6. CASE Lifecycle
  <2>1. UNCHANGED cluster \/ (Cluster!Boot /\ elsewhere' = {})
    BY <1>6 DEF Lifecycle, Shutdown, EndPool, CleanExit, ForcedExit, Killed, Exit, Boot
  <2> QED
    BY <1>1, <1>3, <2>1
<1>7. CASE UNCHANGED vars
  BY <1>1, <1>7 DEF vars, cluster
<1> QED
  BY <1>1, <1>2, <1>4, <1>5, <1>6, <1>7 DEF Next

(* Hence a step of chat keeps the invariant of the servers. *)
LEMMA ClusterNext ==
    ASSUME TypeOK, ClusterInv, [Next]_vars
    PROVE  ClusterInv'
<1>1. RingInv
  BY DEF ClusterInv
<1>2. CASE \E s \in Cluster!Server : Cluster!Pick(s)
  BY <1>1, <1>2, ClusterStep, PickInv DEF ClusterInv
<1>3. CASE \/ \E s \in Cluster!Server : Cluster!MarkFailed(s) \/ Cluster!CooldownEnds(s)
           \/ Cluster!Boot
           \/ UNCHANGED cluster
  BY <1>1, <1>3, ClusterStep, HealthInv DEF ClusterInv
<1> QED
  BY <1>2, <1>3, ClusterStep

-----------------------------------------------------------------------------
\* The requests

\* What a request has written at each place of its handler.  Ended in "failed",
\* "unanswered" or "lost" it may have been charged, for one of the reasons named.
Turn(r) ==
    /\ handler[r].pc \in {"new", "open", "question", "touch", "asked", "streaming", "refused", "charge"}
          => charged[r] = 0
    /\ handler[r].pc \in {"answer", "report", "served"} => charged[r] = 1
    /\ handler[r].pc = "served" => handler[r].ok
    /\ charged[r] = 1 /\ handler[r].pc \in {"failed", "unanswered", "lost"} =>
          ~handler[r].ok \/ handler[r].why \in {"statement", "deleted", "exit 0", "exit 1"}

\* Where its messages are.  A conversation is not created again.
Kept(r) ==
    /\ handler[r].pc \notin {"new", "open", "failed", "unanswered", "lost"} => conv[handler[r].conv] # "none"
    /\ handler[r].pc \in {"touch", "asked", "streaming", "refused", "charge", "answer", "report", "served"}
          /\ Open(r) => <<r, "user">> \in messages
    /\ handler[r].pc \in {"report", "served"} /\ handler[r].ok /\ handler[r].text /\ Open(r)
          => <<r, "assistant">> \in messages
    /\ <<r, "assistant">> \in messages => <<r, "user">> \in messages /\ charged[r] = 1

\* From the callback of server.close on, nobody who is served is connected.
Drain(r) ==
    /\ process = "closing" /\ r \in InFlight => r \in gone
    /\ handler[r].why = "exit 0" => r \in gone

IInv ==
    /\ TypeOK
    /\ ClusterInv
    /\ \A r \in Reqs : Turn(r) /\ Kept(r) /\ Drain(r)

(* The invariant holds at the start. *)
LEMMA InitInv == Init => IInv
<1>1. 0 \in Cluster!Server /\ 1 \in Convs
  BY ChatAssumption DEF Cluster!Server, Convs
<1>2. \A s \in Cluster!Server : Cluster!Distance(0, s) \in 0..(Size - 1)
  BY <1>1, DistanceFacts
<1> SUFFICES ASSUME Init PROVE IInv
  OBVIOUS
<1>3. index = 0 /\ cooldown = {} /\ passed = [s \in Cluster!Server |-> 0]
  BY DEF Init, Cluster!Init
<1>4. Cluster!TypeOK
  BY <1>1, <1>3 DEF Cluster!TypeOK
<1>5. ClusterInv /\ elsewhere \in SUBSET Cluster!Server
  <2>1. elsewhere = {}
    BY DEF Init
  <2>2. RingInv
    BY <1>2, <1>3, <1>4, ChatAssumption DEF RingInv, NoServerStarved, Cluster!NoServerStarved
  <2> QED
    BY <2>1, <2>2 DEF ClusterInv
<1>6. handler \in [Reqs -> Locals]
  BY <1>1 DEF Init, Locals, Pc
<1>7. TypeOK
  <2>1. conv = [c \in Convs |-> "none"] /\ charged = [r \in Reqs |-> 0]
    BY DEF Init
  <2>2. conv \in [Convs -> {"none", "open", "deleted"}] /\ charged \in [Reqs -> 0..1]
    BY <2>1
  <2>3. /\ messages \in SUBSET (Reqs \X {"user", "assistant"}) /\ gone \in SUBSET Reqs
        /\ unfinished \in SUBSET Reqs /\ process \in {"up", "draining", "closing", "off"}
    BY DEF Init
  <2> QED
    BY <1>4, <1>5, <1>6, <2>2, <2>3 DEF TypeOK
<1>8. \A r \in Reqs : handler[r].pc = "new" /\ handler[r].why = "" /\ charged[r] = 0
  BY DEF Init
<1>9. messages = {} /\ process = "up"
  BY DEF Init
<1>10. \A r \in Reqs : Turn(r)
  BY <1>8 DEF Turn
<1>11. \A r \in Reqs : Kept(r)
  BY <1>8, <1>9 DEF Kept
<1>12. \A r \in Reqs : Drain(r)
  BY <1>8, <1>9 DEF Drain
<1> QED
  BY <1>5, <1>7, <1>10, <1>11, <1>12 DEF IInv

\* A request's step leaves the others, and what they have written, alone.
OthersKept(r) ==
    /\ \A q \in Reqs \ {r} : handler'[q] = handler[q] /\ charged'[q] = charged[q]
    /\ \A c \in Convs : conv[c] # "none" => conv'[c] = conv[c]
    /\ messages \subseteq messages'
    /\ \A q \in Reqs \ {r} : <<q, "assistant">> \in messages' => <<q, "assistant">> \in messages
    /\ gone \subseteq gone'
    /\ process' = process

(* So their part of the invariant holds after it. *)
LEMMA OthersInv ==
    ASSUME IInv, NEW r \in Reqs, OthersKept(r), NEW q \in Reqs \ {r}
    PROVE  Turn(q)' /\ Kept(q)' /\ Drain(q)'
<1>1. Turn(q) /\ Kept(q) /\ Drain(q) /\ handler'[q] = handler[q] /\ charged'[q] = charged[q]
  BY DEF IInv, OthersKept
<1>2. handler[q].conv \in Convs
  BY DEF IInv, TypeOK, Locals
<1>3. Turn(q)'
  BY <1>1 DEF Turn
<1>4. Kept(q)'
  BY <1>1, <1>2 DEF Kept, Open, OthersKept
<1>5. Drain(q)'
  BY <1>1 DEF Drain, InFlight, OthersKept
<1> QED
  BY <1>3, <1>4, <1>5

\* What a request's step keeps: its type, its own part of the invariant, the others'.
StepSound(r) ==
    /\ handler' \in [Reqs -> Locals]
    /\ conv' \in [Convs -> {"none", "open", "deleted"}]
    /\ OthersKept(r)
    /\ Turn(r)' /\ Kept(r)' /\ Drain(r)'

(* The steps of a request that goes on. *)
LEMMA GoesOn ==
    ASSUME IInv, NEW r \in Reqs
    PROVE  /\ \A stream \in BOOLEAN : Arrive(r, stream) => StepSound(r)
           /\ \A c \in Convs : GetOrCreateConversation(r, c) => StepSound(r)
           /\ SaveQuestion(r) => StepSound(r)
           /\ \A s \in Cluster!Server : Ask(r, s) => StepSound(r)
           /\ Answered(r) => StepSound(r)
           /\ Refused(r) => StepSound(r)
           /\ Unreachable(r) => StepSound(r)
           /\ \A text \in BOOLEAN : StreamEnds(r, text) => StepSound(r)
           /\ Charge(r) => StepSound(r)
           /\ SaveAnswer(r) => StepSound(r)
           /\ Report(r) => StepSound(r)
<1>1. handler \in [Reqs -> Locals] /\ handler[r] \in Locals /\ Turn(r) /\ Kept(r) /\ Drain(r)
  BY DEF IInv, TypeOK
<1>2. conv \in [Convs -> {"none", "open", "deleted"}] /\ charged \in [Reqs -> 0..1]
  BY DEF IInv, TypeOK
<1>3. ASSUME NEW stream \in BOOLEAN, Arrive(r, stream)
      PROVE  StepSound(r)
  <2>1. /\ handler[r].pc = "new" /\ process \in {"up", "draining"}
        /\ handler' = [handler EXCEPT ![r].pc = "open", ![r].stream = stream]
        /\ UNCHANGED <<conv, messages, charged, gone, process>>
    BY <1>3 DEF Arrive, Serving, At, tables
  <2>2. /\ handler'[r] = [handler[r] EXCEPT !.pc = "open", !.stream = stream]
        /\ \A q \in Reqs \ {r} : handler'[q] = handler[q]
    BY <1>1, <2>1
  <2>3. /\ handler'[r].pc = "open" /\ handler'[r].stream = stream
        /\ handler'[r].conv = handler[r].conv /\ handler'[r].ok = handler[r].ok
        /\ handler'[r].text = handler[r].text /\ handler'[r].why = handler[r].why
    BY <1>1, <2>2 DEF Locals
  <2>4. handler'[r] \in Locals
    BY <1>1, <1>3, <2>2 DEF Locals, Pc, Storing, Ended
  <2>5. handler' \in [Reqs -> Locals] /\ conv' \in [Convs -> {"none", "open", "deleted"}]
    BY <1>1, <1>2, <2>1, <2>4
  <2>6. OthersKept(r)
    BY <1>2, <2>1, <2>2 DEF OthersKept
  <2>7. Turn(r)'
    BY <1>1, <1>2, <2>1, <2>3 DEF Turn
  <2>8. Kept(r)'
    BY <1>1, <1>2, <2>1, <2>3 DEF Kept, Turn, Open, Locals
  <2>9. Drain(r)'
    BY <1>1, <2>1, <2>3 DEF Drain, InFlight, Ended
  <2> QED
    BY <2>5, <2>6, <2>7, <2>8, <2>9 DEF StepSound
<1>4. ASSUME NEW c \in Convs, GetOrCreateConversation(r, c)
      PROVE  StepSound(r)
  <2>1. /\ handler[r].pc = "open"
        /\ handler' = [handler EXCEPT ![r].pc = "question", ![r].conv = c]
        /\ conv' = [conv EXCEPT ![c] = "open"] /\ conv[c] \in {"open", "none"}
        /\ UNCHANGED <<messages, charged, gone, process>>
    BY <1>4 DEF GetOrCreateConversation, At, Stores
  <2>2. /\ handler'[r] = [handler[r] EXCEPT !.pc = "question", !.conv = c]
        /\ \A q \in Reqs \ {r} : handler'[q] = handler[q]
    BY <1>1, <2>1
  <2>3. /\ handler'[r].pc = "question" /\ handler'[r].conv = c
        /\ handler'[r].ok = handler[r].ok /\ handler'[r].text = handler[r].text
        /\ handler'[r].why = handler[r].why
    BY <1>1, <2>2 DEF Locals
  <2>4. handler'[r] \in Locals
    BY <1>1, <1>4, <2>2 DEF Locals, Pc, Storing, Ended
  <2>5. handler' \in [Reqs -> Locals] /\ conv' \in [Convs -> {"none", "open", "deleted"}]
    BY <1>1, <1>2, <2>1, <2>4
  <2>6. OthersKept(r)
    BY <1>2, <2>1, <2>2 DEF OthersKept
  <2>7. Turn(r)'
    BY <1>1, <1>2, <2>1, <2>3 DEF Turn
  <2>8. Kept(r)'
    BY <1>1, <1>2, <2>1, <2>3 DEF Kept, Turn, Open, Locals
  <2>9. Drain(r)'
    BY <1>1, <2>1, <2>3 DEF Drain, InFlight, Ended
  <2> QED
    BY <2>5, <2>6, <2>7, <2>8, <2>9 DEF StepSound
<1>5. ASSUME SaveQuestion(r)
      PROVE  StepSound(r)
  <2>1. /\ handler[r].pc = "question" /\ Open(r)
        /\ handler' = [handler EXCEPT ![r].pc = "touch"]
        /\ messages' = messages \cup {<<r, "user">>} /\ UNCHANGED <<conv, charged, gone, process>>
    BY <1>5 DEF SaveQuestion, At, Stores, Goto
  <2>2. /\ handler'[r] = [handler[r] EXCEPT !.pc = "touch"]
        /\ \A q \in Reqs \ {r} : handler'[q] = handler[q]
    BY <1>1, <2>1
  <2>3. /\ handler'[r].pc = "touch"
        /\ handler'[r].conv = handler[r].conv /\ handler'[r].ok = handler[r].ok
        /\ handler'[r].text = handler[r].text /\ handler'[r].why = handler[r].why
    BY <1>1, <2>2 DEF Locals
  <2>4. handler'[r] \in Locals
    BY <1>1, <2>2 DEF Locals, Pc, Storing, Ended
  <2>5. handler' \in [Reqs -> Locals] /\ conv' \in [Convs -> {"none", "open", "deleted"}]
    BY <1>1, <1>2, <2>1, <2>4
  <2>6. OthersKept(r)
    BY <1>2, <2>1, <2>2 DEF OthersKept
  <2>7. Turn(r)'
    BY <1>1, <1>2, <2>1, <2>3 DEF Turn
  <2>8. Kept(r)'
    BY <1>1, <1>2, <2>1, <2>3 DEF Kept, Turn, Open, Locals
  <2>9. Drain(r)'
    BY <1>1, <2>1, <2>3 DEF Drain, InFlight, Ended
  <2> QED
    BY <2>5, <2>6, <2>7, <2>8, <2>9 DEF StepSound
<1>6. ASSUME NEW s \in Cluster!Server, Ask(r, s)
      PROVE  StepSound(r)
  <2>1. /\ handler[r].pc = "touch"
        /\ handler' = [handler EXCEPT ![r].pc = "asked", ![r].server = s]
        /\ UNCHANGED <<conv, messages, charged, gone, process>>
    BY <1>6 DEF Ask, At, Stores, tables
  <2>2. /\ handler'[r] = [handler[r] EXCEPT !.pc = "asked", !.server = s]
        /\ \A q \in Reqs \ {r} : handler'[q] = handler[q]
    BY <1>1, <2>1
  <2>3. /\ handler'[r].pc = "asked" /\ handler'[r].server = s
        /\ handler'[r].conv = handler[r].conv /\ handler'[r].ok = handler[r].ok
        /\ handler'[r].text = handler[r].text /\ handler'[r].why = handler[r].why
    BY <1>1, <2>2 DEF Locals
  <2>4. handler'[r] \in Locals
    BY <1>1, <1>6, <2>2 DEF Locals, Pc, Storing, Ended
  <2>5. handler' \in [Reqs -> Locals] /\ conv' \in [Convs -> {"none", "open", "deleted"}]
    BY <1>1, <1>2, <2>1, <2>4
  <2>6. OthersKept(r)
    BY <1>2, <2>1, <2>2 DEF OthersKept
  <2>7. Turn(r)'
    BY <1>1, <1>2, <2>1, <2>3 DEF Turn
  <2>8. Kept(r)'
    BY <1>1, <1>2, <2>1, <2>3 DEF Kept, Turn, Open, Locals
  <2>9. Drain(r)'
    BY <1>1, <2>1, <2>3 DEF Drain, InFlight, Ended
  <2> QED
    BY <2>5, <2>6, <2>7, <2>8, <2>9 DEF StepSound
<1>7. ASSUME Answered(r)
      PROVE  StepSound(r)
  <2>1. /\ handler[r].pc = "asked"
        /\ handler' = [handler EXCEPT ![r].pc = IF handler[r].stream THEN "streaming" ELSE "charge",
                                         ![r].ok = TRUE, ![r].text = ~handler[r].stream]
        /\ UNCHANGED <<conv, messages, charged, gone, process>>
    BY <1>7 DEF Answered, At, tables
  <2>2. /\ handler'[r] = [handler[r] EXCEPT !.pc = IF handler[r].stream THEN "streaming" ELSE "charge",
                                          !.ok = TRUE, !.text = ~handler[r].stream]
        /\ \A q \in Reqs \ {r} : handler'[q] = handler[q]
    BY <1>1, <2>1
  <2>3. /\ handler'[r].pc = (IF handler[r].stream THEN "streaming" ELSE "charge")
        /\ handler'[r].ok = TRUE /\ handler'[r].text = ~handler[r].stream
        /\ handler'[r].conv = handler[r].conv /\ handler'[r].why = handler[r].why
    BY <1>1, <2>2 DEF Locals
  <2>4. handler'[r] \in Locals
    BY <1>1, <2>2 DEF Locals, Pc, Storing, Ended
  <2>5. handler' \in [Reqs -> Locals] /\ conv' \in [Convs -> {"none", "open", "deleted"}]
    BY <1>1, <1>2, <2>1, <2>4
  <2>6. OthersKept(r)
    BY <1>2, <2>1, <2>2 DEF OthersKept
  <2>7. Turn(r)'
    BY <1>1, <1>2, <2>1, <2>3 DEF Turn
  <2>8. Kept(r)'
    BY <1>1, <1>2, <2>1, <2>3 DEF Kept, Turn, Open, Locals
  <2>9. Drain(r)'
    BY <1>1, <2>1, <2>3 DEF Drain, InFlight, Ended
  <2> QED
    BY <2>5, <2>6, <2>7, <2>8, <2>9 DEF StepSound
<1>8. ASSUME Refused(r)
      PROVE  StepSound(r)
  <2>1. /\ handler[r].pc = "asked"
        /\ handler' = [handler EXCEPT ![r].pc = IF handler[r].stream THEN "failed" ELSE "refused"]
        /\ UNCHANGED <<conv, messages, charged, gone, process>>
    BY <1>8 DEF Refused, At, tables
  <2>2. /\ handler'[r] = [handler[r] EXCEPT !.pc = IF handler[r].stream THEN "failed" ELSE "refused"]
        /\ \A q \in Reqs \ {r} : handler'[q] = handler[q]
    BY <1>1, <2>1
  <2>3. /\ handler'[r].pc = (IF handler[r].stream THEN "failed" ELSE "refused")
        /\ handler'[r].conv = handler[r].conv /\ handler'[r].ok = handler[r].ok
        /\ handler'[r].text = handler[r].text /\ handler'[r].why = handler[r].why
    BY <1>1, <2>2 DEF Locals
  <2>4. handler'[r] \in Locals
    BY <1>1, <2>2 DEF Locals, Pc, Storing, Ended
  <2>5. handler' \in [Reqs -> Locals] /\ conv' \in [Convs -> {"none", "open", "deleted"}]
    BY <1>1, <1>2, <2>1, <2>4
  <2>6. OthersKept(r)
    BY <1>2, <2>1, <2>2 DEF OthersKept
  <2>7. Turn(r)'
    BY <1>1, <1>2, <2>1, <2>3 DEF Turn
  <2>8. Kept(r)'
    BY <1>1, <1>2, <2>1, <2>3 DEF Kept, Turn, Open, Locals
  <2>9. Drain(r)'
    BY <1>1, <2>1, <2>3 DEF Drain, InFlight, Ended
  <2> QED
    BY <2>5, <2>6, <2>7, <2>8, <2>9 DEF StepSound
<1>9. ASSUME Unreachable(r)
      PROVE  StepSound(r)
  <2>1. /\ handler[r].pc \in {"asked", "streaming"}
        /\ handler' = [handler EXCEPT ![r].pc = "failed", ![r].why = "unreachable"]
        /\ UNCHANGED <<conv, messages, charged, gone, process>>
    BY <1>9 DEF Unreachable, Fail, tables
  <2>2. /\ handler'[r] = [handler[r] EXCEPT !.pc = "failed", !.why = "unreachable"]
        /\ \A q \in Reqs \ {r} : handler'[q] = handler[q]
    BY <1>1, <2>1
  <2>3. /\ handler'[r].pc = "failed" /\ handler'[r].why = "unreachable"
        /\ handler'[r].conv = handler[r].conv /\ handler'[r].ok = handler[r].ok
        /\ handler'[r].text = handler[r].text
    BY <1>1, <2>2 DEF Locals
  <2>4. handler'[r] \in Locals
    BY <1>1, <2>2 DEF Locals, Pc, Storing, Ended
  <2>5. handler' \in [Reqs -> Locals] /\ conv' \in [Convs -> {"none", "open", "deleted"}]
    BY <1>1, <1>2, <2>1, <2>4
  <2>6. OthersKept(r)
    BY <1>2, <2>1, <2>2 DEF OthersKept
  <2>7. Turn(r)'
    <3>1. charged'[r] = 0 /\ handler'[r].pc = "failed"
      BY <1>1, <2>1, <2>3 DEF Turn
    <3> QED
      BY <3>1 DEF Turn
  <2>8. Kept(r)'
    BY <1>1, <1>2, <2>1, <2>3 DEF Kept, Turn, Open, Locals
  <2>9. Drain(r)'
    BY <1>1, <2>1, <2>3 DEF Drain, InFlight, Ended
  <2> QED
    BY <2>5, <2>6, <2>7, <2>8, <2>9 DEF StepSound
<1>10. ASSUME NEW text \in BOOLEAN, StreamEnds(r, text)
      PROVE  StepSound(r)
  <2>1. /\ handler[r].pc = "streaming"
        /\ handler' = [handler EXCEPT ![r].pc = "charge", ![r].text = text]
        /\ UNCHANGED <<conv, messages, charged, gone, process>>
    BY <1>10 DEF StreamEnds, At, tables
  <2>2. /\ handler'[r] = [handler[r] EXCEPT !.pc = "charge", !.text = text]
        /\ \A q \in Reqs \ {r} : handler'[q] = handler[q]
    BY <1>1, <2>1
  <2>3. /\ handler'[r].pc = "charge" /\ handler'[r].text = text
        /\ handler'[r].conv = handler[r].conv /\ handler'[r].ok = handler[r].ok
        /\ handler'[r].why = handler[r].why
    BY <1>1, <2>2 DEF Locals
  <2>4. handler'[r] \in Locals
    BY <1>1, <1>10, <2>2 DEF Locals, Pc, Storing, Ended
  <2>5. handler' \in [Reqs -> Locals] /\ conv' \in [Convs -> {"none", "open", "deleted"}]
    BY <1>1, <1>2, <2>1, <2>4
  <2>6. OthersKept(r)
    BY <1>2, <2>1, <2>2 DEF OthersKept
  <2>7. Turn(r)'
    BY <1>1, <1>2, <2>1, <2>3 DEF Turn
  <2>8. Kept(r)'
    BY <1>1, <1>2, <2>1, <2>3 DEF Kept, Turn, Open, Locals
  <2>9. Drain(r)'
    BY <1>1, <2>1, <2>3 DEF Drain, InFlight, Ended
  <2> QED
    BY <2>5, <2>6, <2>7, <2>8, <2>9 DEF StepSound
<1>11. ASSUME Charge(r)
      PROVE  StepSound(r)
  <2>1. /\ handler[r].pc \in {"refused", "charge"}
        /\ handler' = [handler EXCEPT ![r].pc = AfterCharge(r)]
        /\ charged' = [charged EXCEPT ![r] = @ + 1] /\ UNCHANGED <<conv, messages, gone, process>>
    BY <1>11 DEF Charge, At, Stores, Goto, tables
  <2>2. /\ handler'[r] = [handler[r] EXCEPT !.pc = AfterCharge(r)]
        /\ \A q \in Reqs \ {r} : handler'[q] = handler[q]
    BY <1>1, <2>1
  <2>3. /\ handler'[r].pc = AfterCharge(r)
        /\ handler'[r].conv = handler[r].conv /\ handler'[r].ok = handler[r].ok
        /\ handler'[r].text = handler[r].text /\ handler'[r].why = handler[r].why
    BY <1>1, <2>2 DEF Locals
  <2>4. handler'[r] \in Locals
    BY <1>1, <2>2 DEF AfterCharge, Locals, Pc, Storing, Ended
  <2>5. handler' \in [Reqs -> Locals] /\ conv' \in [Convs -> {"none", "open", "deleted"}]
    BY <1>1, <1>2, <2>1, <2>4
  <2>6. OthersKept(r)
    BY <1>2, <2>1, <2>2 DEF OthersKept
  <2>7. Turn(r)'
    <3>1. charged[r] = 0 /\ handler'[r].pc \in {"answer", "report"}
      BY <1>1, <2>1, <2>3 DEF AfterCharge, Turn
    <3>2. charged'[r] = charged[r] + 1
      BY <1>2, <2>1
    <3>3. charged'[r] = 1
      BY <3>1, <3>2
    <3> QED
      BY <2>3, <3>1, <3>3 DEF Turn
  <2>8. Kept(r)'
    <3>1. /\ charged[r] = 0 /\ handler'[r].pc \in {"answer", "report"}
          /\ handler'[r].pc = "report" => ~(handler'[r].ok /\ handler'[r].text)
      BY <1>1, <1>2, <2>1, <2>3 DEF AfterCharge, Turn, Locals
    <3>2. <<r, "assistant">> \notin messages
      BY <1>1, <3>1 DEF Kept
    <3> QED
      BY <1>1, <2>1, <2>3, <3>1, <3>2 DEF Kept, Open
  <2>9. Drain(r)'
    BY <1>1, <2>1, <2>3 DEF Drain, InFlight, Ended
  <2> QED
    BY <2>5, <2>6, <2>7, <2>8, <2>9 DEF StepSound
<1>12. ASSUME SaveAnswer(r)
      PROVE  StepSound(r)
  <2>1. /\ handler[r].pc = "answer" /\ Open(r)
        /\ handler' = [handler EXCEPT ![r].pc = "report"]
        /\ messages' = messages \cup {<<r, "assistant">>} /\ UNCHANGED <<conv, charged, gone, process>>
    BY <1>12 DEF SaveAnswer, At, Stores, Goto
  <2>2. /\ handler'[r] = [handler[r] EXCEPT !.pc = "report"]
        /\ \A q \in Reqs \ {r} : handler'[q] = handler[q]
    BY <1>1, <2>1
  <2>3. /\ handler'[r].pc = "report"
        /\ handler'[r].conv = handler[r].conv /\ handler'[r].ok = handler[r].ok
        /\ handler'[r].text = handler[r].text /\ handler'[r].why = handler[r].why
    BY <1>1, <2>2 DEF Locals
  <2>4. handler'[r] \in Locals
    BY <1>1, <2>2 DEF Locals, Pc, Storing, Ended
  <2>5. handler' \in [Reqs -> Locals] /\ conv' \in [Convs -> {"none", "open", "deleted"}]
    BY <1>1, <1>2, <2>1, <2>4
  <2>6. OthersKept(r)
    BY <1>2, <2>1, <2>2 DEF OthersKept
  <2>7. Turn(r)'
    BY <1>1, <1>2, <2>1, <2>3 DEF Turn
  <2>8. Kept(r)'
    BY <1>1, <1>2, <2>1, <2>3 DEF Kept, Turn, Open, Locals
  <2>9. Drain(r)'
    BY <1>1, <2>1, <2>3 DEF Drain, InFlight, Ended
  <2> QED
    BY <2>5, <2>6, <2>7, <2>8, <2>9 DEF StepSound
<1>13. ASSUME Report(r)
      PROVE  StepSound(r)
  <2>1. /\ handler[r].pc = "report"
        /\ handler' = [handler EXCEPT ![r].pc = IF handler[r].ok THEN "served" ELSE "failed"]
        /\ UNCHANGED <<conv, messages, charged, gone, process>>
    BY <1>13 DEF Report, At, Stores, Goto, tables
  <2>2. /\ handler'[r] = [handler[r] EXCEPT !.pc = IF handler[r].ok THEN "served" ELSE "failed"]
        /\ \A q \in Reqs \ {r} : handler'[q] = handler[q]
    BY <1>1, <2>1
  <2>3. /\ handler'[r].pc = (IF handler[r].ok THEN "served" ELSE "failed")
        /\ handler'[r].conv = handler[r].conv /\ handler'[r].ok = handler[r].ok
        /\ handler'[r].text = handler[r].text /\ handler'[r].why = handler[r].why
    BY <1>1, <2>2 DEF Locals
  <2>4. handler'[r] \in Locals
    BY <1>1, <2>2 DEF Locals, Pc, Storing, Ended
  <2>5. handler' \in [Reqs -> Locals] /\ conv' \in [Convs -> {"none", "open", "deleted"}]
    BY <1>1, <1>2, <2>1, <2>4
  <2>6. OthersKept(r)
    BY <1>2, <2>1, <2>2 DEF OthersKept
  <2>7. Turn(r)'
    <3>1. charged'[r] = 1
      BY <1>1, <2>1 DEF Turn
    <3>2. CASE handler[r].ok
      BY <2>3, <3>1, <3>2 DEF Turn
    <3>3. CASE ~handler[r].ok
      BY <2>3, <3>1, <3>3 DEF Turn
    <3> QED
      BY <3>2, <3>3
  <2>8. Kept(r)'
    BY <1>1, <1>2, <2>1, <2>3 DEF Kept, Turn, Open, Locals
  <2>9. Drain(r)'
    BY <1>1, <2>1, <2>3 DEF Drain, InFlight, Ended
  <2> QED
    BY <2>5, <2>6, <2>7, <2>8, <2>9 DEF StepSound
<1> QED
  BY <1>3, <1>4, <1>5, <1>6, <1>7, <1>8, <1>9, <1>10, <1>11, <1>12, <1>13

(* A statement that rejects ends its request.  If it was charged before, the
   reason is among those named. *)
LEMMA Rejected ==
    ASSUME IInv, NEW r \in Reqs, NEW why \in {"statement", "deleted"},
           handler[r].pc \in Storing, Rejects(r, why),
           UNCHANGED <<conv, messages, charged, gone, process>>
    PROVE  StepSound(r)
<1>1. handler \in [Reqs -> Locals] /\ handler[r] \in Locals /\ Turn(r) /\ Kept(r) /\ Drain(r)
  BY DEF IInv, TypeOK
<1>2. conv \in [Convs -> {"none", "open", "deleted"}]
  BY DEF IInv, TypeOK
<1>3. PICK pc \in {"failed", "unanswered"} : handler' = [handler EXCEPT ![r].pc = pc, ![r].why = why]
  BY DEF Rejects, Fail
<1>4. /\ handler'[r] = [handler[r] EXCEPT !.pc = pc, !.why = why]
      /\ \A q \in Reqs \ {r} : handler'[q] = handler[q]
  BY <1>1, <1>3
<1>5. handler'[r].pc = pc /\ handler'[r].why = why /\ handler'[r].conv = handler[r].conv
  BY <1>1, <1>4 DEF Locals
<1>6. handler' \in [Reqs -> Locals]
  <2>1. handler'[r] \in Locals
    BY <1>1, <1>3, <1>4 DEF Locals, Pc, Storing, Ended
  <2> QED
    BY <1>1, <1>3, <2>1
<1>7. OthersKept(r)
  BY <1>4 DEF OthersKept
<1>8. Turn(r)'
  BY <1>3, <1>5 DEF Turn
<1>9. Kept(r)'
  BY <1>1, <1>3, <1>5 DEF Kept, Open
<1>10. Drain(r)'
  BY <1>1, <1>3, <1>5 DEF Drain, InFlight, Ended, Storing
<1> QED
  BY <1>2, <1>6, <1>7, <1>8, <1>9, <1>10 DEF StepSound

(* So does a client that leaves, unless the handler does not look. *)
LEMMA Left ==
    ASSUME IInv, NEW r \in Reqs, ClientLeaves(r)
    PROVE  StepSound(r)
<1>1. handler \in [Reqs -> Locals] /\ handler[r] \in Locals /\ Turn(r) /\ Kept(r) /\ Drain(r)
  BY DEF IInv, TypeOK
<1>2. conv \in [Convs -> {"none", "open", "deleted"}]
  BY DEF IInv, TypeOK
<1>3. gone' = gone \cup {r} /\ UNCHANGED <<conv, messages, charged, process>>
  BY DEF ClientLeaves, tables
<1>4. CASE UNCHANGED handler
  <2>1. OthersKept(r)
    BY <1>3, <1>4 DEF OthersKept
  <2>2. Turn(r)' /\ Kept(r)'
    BY <1>1, <1>3, <1>4 DEF Turn, Kept, Open
  <2>3. Drain(r)'
    BY <1>3 DEF Drain
  <2> QED
    BY <1>1, <1>2, <1>3, <1>4, <2>1, <2>2, <2>3 DEF StepSound
<1>5. CASE /\ handler[r].pc \in {"asked", "streaming"}
           /\ handler' = [handler EXCEPT ![r].pc = "failed", ![r].why = "cancelled"]
  <2>1. /\ handler'[r] = [handler[r] EXCEPT !.pc = "failed", !.why = "cancelled"]
        /\ \A q \in Reqs \ {r} : handler'[q] = handler[q]
    BY <1>1, <1>5
  <2>2. handler'[r].pc = "failed" /\ handler'[r].why = "cancelled" /\ handler'[r].conv = handler[r].conv
    BY <1>1, <2>1 DEF Locals
  <2>3. handler' \in [Reqs -> Locals]
    <3>1. handler'[r] \in Locals
      BY <1>1, <2>1 DEF Locals, Pc, Storing, Ended
    <3> QED
      BY <1>1, <1>5, <3>1
  <2>4. OthersKept(r)
    BY <1>3, <2>1 DEF OthersKept
  <2>5. Turn(r)'
    <3>1. charged'[r] = 0
      BY <1>1, <1>3, <1>5 DEF Turn
    <3> QED
      BY <2>2, <3>1 DEF Turn
  <2>6. Kept(r)'
    BY <1>1, <1>3, <2>2 DEF Kept, Open
  <2>7. Drain(r)'
    BY <1>3 DEF Drain
  <2> QED
    BY <1>2, <1>3, <2>3, <2>4, <2>5, <2>6, <2>7 DEF StepSound
<1> QED
  BY <1>4, <1>5 DEF ClientLeaves, Fail

(* Every step of a request. *)
LEMMA ServeSound ==
    ASSUME IInv, NEW r \in Reqs, Serve(r)
    PROVE  StepSound(r)
<1>1. ASSUME MessageRefused(r) PROVE StepSound(r)
  <2>1. /\ handler[r].pc \in Storing /\ Rejects(r, "deleted")
        /\ UNCHANGED <<conv, messages, charged, gone, process>>
    BY <1>1 DEF MessageRefused, Stores, At, Storing, tables
  <2> QED
    BY <2>1, Rejected
<1>2. ASSUME StatementFails(r) PROVE StepSound(r)
  <2>1. /\ handler[r].pc \in Storing /\ Rejects(r, "statement")
        /\ UNCHANGED <<conv, messages, charged, gone, process>>
    BY <1>2 DEF StatementFails, tables
  <2> QED
    BY <2>1, Rejected
<1> QED
  BY <1>1, <1>2, GoesOn, Left DEF Serve

(* The other variables keep their types in it. *)
LEMMA ServeTypes ==
    ASSUME IInv, NEW r \in Reqs, Serve(r)
    PROVE  /\ messages' \in SUBSET (Reqs \X {"user", "assistant"})
           /\ charged' \in [Reqs -> 0..1]
           /\ gone' \in SUBSET Reqs
           /\ process' = process
           /\ unfinished' \in SUBSET Reqs
<1>1. /\ messages \in SUBSET (Reqs \X {"user", "assistant"}) /\ charged \in [Reqs -> 0..1]
      /\ gone \in SUBSET Reqs /\ unfinished \in SUBSET Reqs /\ Turn(r)
  BY DEF IInv, TypeOK
<1>2. CASE \/ \E stream \in BOOLEAN : Arrive(r, stream)
           \/ \E c \in Convs : GetOrCreateConversation(r, c)
           \/ \E s \in Cluster!Server : Ask(r, s)
           \/ \E text \in BOOLEAN : StreamEnds(r, text)
           \/ Answered(r) \/ Refused(r) \/ Report(r)
  BY <1>1, <1>2 DEF Arrive, GetOrCreateConversation, Ask, StreamEnds, Answered, Refused, Report, Goto, tables
<1>3. CASE Unreachable(r) \/ MessageRefused(r) \/ StatementFails(r) \/ ClientLeaves(r)
  BY <1>1, <1>3 DEF Unreachable, MessageRefused, StatementFails, ClientLeaves, Rejects, Fail, tables
<1>4. CASE SaveQuestion(r) \/ SaveAnswer(r)
  BY <1>1, <1>4 DEF SaveQuestion, SaveAnswer, Goto
<1>5. CASE Charge(r)
  <2>1. charged' = [charged EXCEPT ![r] = @ + 1] /\ UNCHANGED <<messages, gone, process>>
    BY <1>5 DEF Charge, tables
  <2>2. charged[r] = 0
    BY <1>1, <1>5 DEF Charge, Stores, At, Turn
  <2>3. unfinished' \in SUBSET Reqs
    BY <1>1, <1>5 DEF Charge, Goto
  <2> QED
    BY <1>1, <2>1, <2>2, <2>3
<1> QED
  BY <1>2, <1>3, <1>4, <1>5 DEF Serve

\* What any step has to keep, apart from the servers.
Others == TypeOK /\ \A r \in Reqs : Turn(r) /\ Kept(r) /\ Drain(r)

(* A request's step keeps all of it. *)
LEMMA ServeInv ==
    ASSUME IInv, ClusterInv', NEW r \in Reqs, Serve(r)
    PROVE  Others'
<1>1. StepSound(r)
  BY ServeSound
<1>2. \A q \in Reqs : Turn(q)' /\ Kept(q)' /\ Drain(q)'
  BY <1>1, OthersInv DEF StepSound
<1>3. TypeOK'
  BY <1>1, ServeTypes DEF StepSound, TypeOK, IInv, ClusterInv, RingInv
<1> QED
  BY <1>2, <1>3 DEF Others

(* A deleted conversation takes its messages with it, and no others. *)
LEMMA DeleteInv ==
    ASSUME IInv, ClusterInv', NEW c \in Convs, DeleteConversation(c)
    PROVE  Others'
<1>1. /\ conv' = [conv EXCEPT ![c] = "deleted"]
      /\ messages' = {m \in messages : handler[m[1]].conv # c}
      /\ UNCHANGED <<handler, charged, gone, process, unfinished>>
  BY DEF DeleteConversation
<1>2. TypeOK'
  BY <1>1 DEF IInv, TypeOK, ClusterInv, RingInv
<1>3. ASSUME NEW r \in Reqs
      PROVE  Turn(r)' /\ Kept(r)' /\ Drain(r)'
  <2>1. Turn(r) /\ Kept(r) /\ Drain(r) /\ handler[r].conv \in Convs
    BY DEF IInv, TypeOK, Locals
  <2>2. Turn(r)' /\ Drain(r)'
    BY <1>1, <2>1 DEF Turn, Drain, InFlight
  <2>3. CASE handler[r].conv = c
    <3>1. ~Open(r)' /\ conv'[handler'[r].conv] # "none"
      BY <1>1, <2>1, <2>3 DEF Open, IInv, TypeOK
    <3>2. <<r, "assistant">> \notin messages'
      BY <1>1, <2>3
    <3> QED
      BY <2>2, <3>1, <3>2 DEF Kept
  <2>4. CASE handler[r].conv # c
    <3>1. conv'[handler'[r].conv] = conv[handler[r].conv]
      BY <1>1, <2>1, <2>4 DEF IInv, TypeOK
    <3>2. /\ <<r, "user">> \in messages' <=> <<r, "user">> \in messages
          /\ <<r, "assistant">> \in messages' <=> <<r, "assistant">> \in messages
      BY <1>1, <2>4
    <3> QED
      BY <1>1, <2>1, <2>2, <3>1, <3>2 DEF Kept, Open
  <2> QED
    BY <2>3, <2>4
<1> QED
  BY <1>2, <1>3 DEF Others

(* Nothing is saved or forgotten when the process ends, stops or starts; who is
   cut off by a clean exit has left before. *)
LEMMA LifecycleInv ==
    ASSUME IInv, ClusterInv', Lifecycle
    PROVE  Others'
<1>1. \A r \in Reqs : Turn(r) /\ Kept(r) /\ Drain(r)
  BY DEF IInv
<1>2. UNCHANGED <<conv, messages, charged, gone>>
  BY DEF Lifecycle, Shutdown, EndPool, CleanExit, ForcedExit, Killed, Exit, Boot, tables
<1>3. CASE Shutdown \/ Boot
  <2>1. UNCHANGED <<handler, unfinished>> /\ process' \in {"draining", "up"}
    BY <1>3 DEF Shutdown, Boot
  <2>2. TypeOK'
    BY <1>2, <2>1 DEF IInv, TypeOK, ClusterInv, RingInv
  <2> QED
    BY <1>1, <1>2, <2>1, <2>2 DEF Others, Turn, Kept, Drain, Open, InFlight
<1>4. CASE EndPool
  <2>1. UNCHANGED handler /\ process' = "closing" /\ unfinished' \in SUBSET Reqs
    BY <1>4 DEF EndPool
  <2>2. InFlight \subseteq gone
    BY <1>4 DEF EndPool, Drained, Connected, InFlight
  <2>3. TypeOK'
    BY <1>2, <2>1 DEF IInv, TypeOK, ClusterInv, RingInv
  <2> QED
    BY <1>1, <1>2, <2>1, <2>2, <2>3 DEF Others, Turn, Kept, Drain, Open, InFlight
<1>5. ASSUME NEW why \in {"exit 0", "exit 1"}, Exit(why), why = "exit 0" => process = "closing"
      PROVE  Others'
  <2>1. /\ process' = "off" /\ unfinished' = {}
        /\ handler' = [r \in Reqs |->
              IF r \in InFlight THEN [handler[r] EXCEPT !.pc = "lost", !.why = why] ELSE handler[r]]
    BY <1>5 DEF Exit
  <2>2. ASSUME NEW r \in Reqs
        PROVE  handler'[r] \in Locals /\ Turn(r)' /\ Kept(r)' /\ Drain(r)'
    <3>1. handler[r] \in Locals /\ Turn(r) /\ Kept(r) /\ Drain(r)
      BY DEF IInv, TypeOK
    <3>2. CASE r \in InFlight
      <4>1. handler'[r] = [handler[r] EXCEPT !.pc = "lost", !.why = why]
        BY <2>1, <3>2
      <4>2. handler'[r].pc = "lost" /\ handler'[r].why = why /\ handler'[r].conv = handler[r].conv
        BY <3>1, <4>1 DEF Locals
      <4>3. handler'[r] \in Locals
        BY <3>1, <4>1 DEF Locals, Pc, Ended
      <4>4. Turn(r)' /\ Kept(r)'
        BY <1>2, <3>1, <4>2 DEF Turn, Kept, Open
      <4>5. Drain(r)'
        BY <1>2, <1>5, <2>1, <3>1, <3>2, <4>2 DEF Drain
      <4> QED
        BY <4>3, <4>4, <4>5
    <3>3. CASE r \notin InFlight
      <4>1. handler'[r] = handler[r]
        BY <2>1, <3>3
      <4>2. Turn(r)' /\ Kept(r)'
        BY <1>2, <3>1, <4>1 DEF Turn, Kept, Open
      <4>3. Drain(r)'
        BY <1>2, <2>1, <3>1, <4>1 DEF Drain
      <4> QED
        BY <3>1, <4>1, <4>2, <4>3
    <3> QED
      BY <3>2, <3>3
  <2>3. handler' \in [Reqs -> Locals]
    BY <2>1, <2>2
  <2>4. TypeOK'
    BY <1>2, <2>1, <2>3 DEF IInv, TypeOK, ClusterInv, RingInv
  <2> QED
    BY <2>2, <2>4 DEF Others
<1> QED
  BY <1>3, <1>4, <1>5 DEF Lifecycle, CleanExit, ForcedExit, Killed

(* The invariant is inductive: it holds in every state. *)
THEOREM Inductive == Spec => []IInv
<1>1. IInv /\ [Next]_vars => IInv'
  <2> SUFFICES ASSUME IInv, [Next]_vars PROVE IInv'
    OBVIOUS
  <2>1. ClusterInv'
    BY ClusterNext DEF IInv
  <2>2. CASE \E r \in Reqs : Serve(r)
    BY <2>1, <2>2, ServeInv DEF IInv, Others
  <2>3. CASE \E c \in Convs : DeleteConversation(c)
    BY <2>1, <2>3, DeleteInv DEF IInv, Others
  <2>4. CASE Lifecycle
    BY <2>1, <2>4, LifecycleInv DEF IInv, Others
  <2>5. CASE \/ \E s \in Cluster!Server : CooldownEnds(s) \/ OthersAsk(s) \/ OthersFail(s)
             \/ UNCHANGED vars
    <3>1. UNCHANGED <<conv, messages, handler, charged, gone, process, unfinished>>
      BY <2>5 DEF CooldownEnds, OthersAsk, OthersFail, vars, tables
    <3>2. TypeOK'
      BY <2>1, <3>1 DEF IInv, TypeOK, ClusterInv, RingInv
    <3> QED
      BY <2>1, <3>1, <3>2 DEF IInv, Turn, Kept, Drain, Open, InFlight
  <2> QED
    BY <2>2, <2>3, <2>4, <2>5 DEF Next
<1> QED
  BY <1>1, InitInv, PTL DEF Spec

(* No variable leaves its type; in particular no request is charged twice. *)
THEOREM TypeCorrect == Spec => []TypeOK
<1>1. IInv => TypeOK
  BY DEF IInv
<1> QED
  BY <1>1, Inductive, PTL

(* A request is served only charged once and with its messages kept, no answer
   is kept uncharged, and who pays for nothing met one of the named failures
   (routes/chat.js:73-106, 160-167). *)
THEOREM Turns == Spec => []TurnsComplete
<1>1. IInv => TurnsComplete
  BY DEF IInv, TurnsComplete, Turn, Kept, At, Ended
<1> QED
  BY <1>1, Inductive, PTL

(* A shutdown that exits with 0 has cut off nobody who was still connected
   (server.js:122-142). *)
THEOREM CleanExits == Spec => []CleanExitFinishes
<1>1. IInv => CleanExitFinishes
  BY DEF IInv, CleanExitFinishes, Drain
<1> QED
  BY <1>1, Inductive, PTL

(* However many servers, failures and restarts: one that is not in cooldown has
   its turn within a round (config/llama-cluster.js:13-26). *)
THEOREM ServersShared == Spec => []NoServerStarved
<1>1. IInv => NoServerStarved
  BY DEF IInv, ClusterInv, RingInv
<1> QED
  BY <1>1, Inductive, PTL

-----------------------------------------------------------------------------
\* The cooldown

\* The request that explains the cooldown of a server.  It has ended, and a
\* conversation that was deleted stays so.
Blames(r, s) ==
    /\ At(r, "failed")
    /\ handler[r].server = s
    /\ \/ handler[r].why = "unreachable"
       \/ ~handler[r].stream /\ handler[r].why = "statement"
       \/ ~handler[r].stream /\ handler[r].why = "deleted" /\ conv[handler[r].conv] = "deleted"

BlameInv == \A s \in cooldown \ elsewhere : \E r \in Reqs : Blames(r, s)

(* A request that has failed takes no further step. *)
LEMMA FailedIsOver ==
    ASSUME NEW r \in Reqs, At(r, "failed")
    PROVE  ~Serve(r)
<1>1. /\ \A stream \in BOOLEAN : ~Arrive(r, stream)
      /\ \A c \in Convs : ~GetOrCreateConversation(r, c)
      /\ \A s \in Cluster!Server : ~Ask(r, s)
      /\ \A text \in BOOLEAN : ~StreamEnds(r, text)
  BY DEF At, Arrive, GetOrCreateConversation, Ask, StreamEnds, Stores
<1>2. ~SaveQuestion(r) /\ ~SaveAnswer(r) /\ ~Charge(r) /\ ~Report(r) /\ ~MessageRefused(r)
  BY DEF At, SaveQuestion, SaveAnswer, Charge, Report, MessageRefused, Stores
<1>3. ~Answered(r) /\ ~Refused(r) /\ ~Unreachable(r) /\ ~StatementFails(r)
  BY DEF At, Answered, Refused, Unreachable, StatementFails, Storing
<1>4. ~ClientLeaves(r)
  BY DEF At, ClientLeaves, Connected, InFlight, Ended
<1> QED
  BY <1>1, <1>2, <1>3, <1>4 DEF Serve

(* So it explains what it explained, whatever happens next. *)
LEMMA BlameStays ==
    ASSUME IInv, [Next]_vars, NEW r \in Reqs, NEW s, Blames(r, s)
    PROVE  Blames(r, s)'
<1>1. At(r, "failed") /\ handler[r].conv \in Convs /\ conv \in [Convs -> {"none", "open", "deleted"}]
  BY DEF Blames, IInv, TypeOK, Locals
<1>2. ASSUME handler'[r] = handler[r], conv[handler[r].conv] = "deleted" => conv'[handler[r].conv] = "deleted"
      PROVE  Blames(r, s)'
  BY <1>2 DEF Blames, At
<1>3. ASSUME NEW q \in Reqs, Serve(q) PROVE Blames(r, s)'
  <2>1. q # r
    BY <1>1, <1>3, FailedIsOver
  <2>2. OthersKept(q)
    BY <1>3, ServeSound DEF StepSound
  <2> QED
    BY <1>1, <1>2, <2>1, <2>2 DEF OthersKept
<1>4. ASSUME NEW c \in Convs, DeleteConversation(c) PROVE Blames(r, s)'
  BY <1>1, <1>2, <1>4 DEF DeleteConversation
<1>5. ASSUME NEW why, Exit(why) PROVE Blames(r, s)'
  <2>1. r \notin InFlight
    BY <1>1 DEF At, InFlight, Ended
  <2> QED
    BY <1>2, <1>5, <2>1 DEF Exit, tables
<1>6. CASE Lifecycle
  <2>1. CASE CleanExit \/ ForcedExit \/ Killed
    BY <1>5, <2>1 DEF CleanExit, ForcedExit, Killed
  <2>2. CASE Shutdown \/ EndPool \/ Boot
    BY <1>2, <2>2 DEF Shutdown, EndPool, Boot, tables
  <2> QED
    BY <1>6, <2>1, <2>2 DEF Lifecycle
<1>7. CASE \/ \E z \in Cluster!Server : CooldownEnds(z) \/ OthersAsk(z) \/ OthersFail(z)
         \/ UNCHANGED vars
  BY <1>2, <1>7 DEF CooldownEnds, OthersAsk, OthersFail, vars, tables
<1> QED
  BY <1>3, <1>4, <1>6, <1>7 DEF Next

(* A server that comes into cooldown does so by a request that is explained. *)
LEMMA BlameComes ==
    ASSUME IInv, NEW r \in Reqs, Serve(r)
    PROVE  /\ cooldown' \subseteq cooldown \/ \E s : cooldown' = cooldown \cup {s} /\ Blames(r, s)'
           /\ elsewhere' = elsewhere
<1>1. handler \in [Reqs -> Locals] /\ handler[r] \in Locals /\ Kept(r)
  BY DEF IInv, TypeOK
<1>2. conv \in [Convs -> {"none", "open", "deleted"}] /\ handler[r].conv \in Convs
  BY <1>1 DEF IInv, TypeOK, Locals
<1>3. ASSUME NEW why \in {"unreachable", "statement", "deleted"}, Fail(r, "failed", why), conv' = conv,
             Cluster!MarkFailed(Blamed(r)), why # "unreachable" => ~handler[r].stream,
             why = "deleted" => conv[handler[r].conv] = "deleted"
      PROVE  \E s : cooldown' = cooldown \cup {s} /\ Blames(r, s)'
  <2>1. handler'[r] = [handler[r] EXCEPT !.pc = "failed", !.why = why]
    BY <1>1, <1>3 DEF Fail
  <2>2. /\ handler'[r].pc = "failed" /\ handler'[r].why = why /\ handler'[r].conv = handler[r].conv
        /\ handler'[r].server = handler[r].server /\ handler'[r].stream = handler[r].stream
    BY <1>1, <2>1 DEF Locals
  <2>3. PICK s : s = handler[r].server
    OBVIOUS
  <2>4. cooldown' = cooldown \cup {s}
    BY <1>3, <2>3 DEF Cluster!MarkFailed, Blamed
  <2>5. Blames(r, s)'
    BY <1>3, <2>2, <2>3 DEF Blames, At
  <2> QED
    BY <2>4, <2>5
<1>4. CASE Unreachable(r)
  BY <1>3, <1>4 DEF Unreachable, tables
<1>5. CASE MessageRefused(r)
  <2>1. handler[r].pc \in {"question", "answer"} /\ ~Open(r)
    BY <1>5 DEF MessageRefused, Stores, At
  <2>2. conv[handler[r].conv] = "deleted"
    BY <1>1, <1>2, <2>1 DEF Kept, Open
  <2>3. CASE UNCHANGED cluster
    BY <2>3 DEF cluster
  <2> QED
    BY <1>3, <1>5, <2>2, <2>3 DEF MessageRefused, Rejects, tables
<1>6. CASE StatementFails(r)
  <2>1. CASE UNCHANGED cluster
    BY <2>1 DEF cluster
  <2> QED
    BY <1>3, <1>6, <2>1 DEF StatementFails, Rejects, tables
<1>7. CASE \E s \in Cluster!Server : Ask(r, s)
  BY <1>7 DEF Ask, Cluster!Pick
<1>8. CASE \/ \E stream \in BOOLEAN : Arrive(r, stream)
           \/ \E c \in Convs : GetOrCreateConversation(r, c)
           \/ \E text \in BOOLEAN : StreamEnds(r, text)
           \/ SaveQuestion(r) \/ Answered(r) \/ Refused(r) \/ Charge(r) \/ SaveAnswer(r)
           \/ Report(r) \/ ClientLeaves(r)
  BY <1>8 DEF cluster, Arrive, GetOrCreateConversation, StreamEnds, SaveQuestion, Answered, Refused,
              Charge, SaveAnswer, Report, ClientLeaves
<1>9. elsewhere' = elsewhere
  BY DEF Serve, Arrive, GetOrCreateConversation, StreamEnds, SaveQuestion, Answered, Refused, Charge, SaveAnswer,
         Report, ClientLeaves, Ask, Unreachable, MessageRefused, StatementFails, Rejects, cluster
<1> QED
  BY <1>4, <1>5, <1>6, <1>7, <1>8, <1>9 DEF Serve

(* Every other step leaves the cooldowns alone, or ends one, or all. *)
LEMMA BlameInductive ==
    ASSUME IInv, BlameInv, [Next]_vars
    PROVE  BlameInv'
<1>1. ASSUME cooldown' \ elsewhere' \subseteq cooldown \ elsewhere PROVE BlameInv'
  BY <1>1, BlameStays DEF BlameInv
<1>2. CASE \E r \in Reqs : Serve(r)
  <2>1. PICK r \in Reqs : Serve(r)
    BY <1>2
  <2>2. elsewhere' = elsewhere
    BY <2>1, BlameComes
  <2>3. CASE cooldown' \subseteq cooldown
    BY <1>1, <2>2, <2>3
  <2>4. CASE \E s : cooldown' = cooldown \cup {s} /\ Blames(r, s)'
    BY <2>2, <2>4, BlameStays DEF BlameInv
  <2> QED
    BY <2>1, <2>3, <2>4, BlameComes
<1>3. CASE ~\E r \in Reqs : Serve(r)
  <2>1. CASE \E c \in Convs : DeleteConversation(c)
    BY <1>1, <2>1 DEF DeleteConversation, cluster
  <2>2. CASE \E s \in Cluster!Server : CooldownEnds(s) \/ OthersAsk(s) \/ OthersFail(s)
    BY <1>1, <2>2 DEF CooldownEnds, OthersAsk, OthersFail, Cluster!CooldownEnds, Cluster!Pick, Cluster!MarkFailed
  <2>3. CASE Lifecycle
    BY <1>1, <2>3 DEF Lifecycle, Shutdown, EndPool, CleanExit, ForcedExit, Killed, Exit, Boot, cluster,
                      Cluster!Boot
  <2>4. CASE UNCHANGED vars
    BY <1>1, <2>4 DEF vars
  <2> QED
    BY <1>3, <2>1, <2>2, <2>3, <2>4 DEF Next
<1> QED
  BY <1>2, <1>3

(* A model server is in cooldown only because a call to it failed, this user's or
   another's, or because, after a plain call it had answered, a statement failed
   or the conversation was deleted (routes/chat.js:108, 173, 181). *)
THEOREM Cooldowns == Spec => []CooldownExplained
<1>1. Init => BlameInv
  BY DEF Init, Cluster!Init, BlameInv
<1>2. IInv /\ BlameInv /\ [Next]_vars => BlameInv'
  BY BlameInductive
<1>3. BlameInv => CooldownExplained
  BY DEF BlameInv, CooldownExplained, Blames, Open
<1> QED
  BY <1>1, <1>2, <1>3, Inductive, PTL DEF Spec
=============================================================================

------------------------------- MODULE Gateway -------------------------------
(***************************************************************************)
(* POST /v1/chat/completions (routes/gateway.js) from the validated body   *)
(* to the answer: the candidates of lib/gateway/router.js, the fallback    *)
(* loop over them, the stream to the first of them, and the health of the  *)
(* models (lib/gateway/health.js), which all requests of the process read  *)
(* and write.                                                              *)
(*                                                                         *)
(* What recordUsage charges is the subject of Metering; here it either     *)
(* succeeds or fails, before or after it has charged.  The clock counts in *)
(* units of which Cooldown make up the 30 seconds.                         *)
(***************************************************************************)
EXTENDS Integers, Sequences, FiniteSets

CONSTANTS
    Reqs,           \* slots for requests in flight
    Ranking,        \* MODELS, best quality_tier first
    Configured,     \* models whose provider is configured
    Visual,         \* models that take images
    NoModel,        \* the client names no model
    Bodies,         \* what clients send
    Cooldown,       \* COOLDOWN_MS
    MaxClock        \* bound

Models == {Ranking[i] : i \in 1..Len(Ranking)}

ASSUME GatewayAssumption ==
    /\ Ranking \in Seq(Models)
    /\ Configured \subseteq Models /\ Visual \subseteq Models
    /\ NoModel \notin Models
    /\ Bodies \subseteq [model : Models \cup {NoModel}, vision : BOOLEAN, stream : BOOLEAN, chain : Seq(Models)]
    /\ Cooldown \in Nat \ {0}
    /\ MaxClock \in Nat \ {0}

VARIABLES
    failedUntil,    \* of every model
    clock,
    req             \* the locals of every request in flight

vars == <<failedUntil, clock, req>>

EmptyBody == [model |-> NoModel, vision |-> FALSE, stream |-> FALSE, chain |-> <<>>]

\* queue holds the candidates not given up yet, the one called first. The rest
\* is history: sent is the body the client sent, first the candidates, cool
\* the models in cooldown when they were picked, charges and errors count what
\* recordUsage charged and how often it failed.
Locals == [pc : {"idle", "call", "record", "last", "open", "stream", "recordStream", "done", "hung"},
           queue : Seq(Models), outcome : {"none", "served", "failed", "broken"},
           sent : Bodies \cup {EmptyBody}, first : Seq(Models), cool : SUBSET Models,
           charges : Nat, errors : Nat]

TypeOK ==
    /\ failedUntil \in [Models -> 0..MaxClock + Cooldown]
    /\ clock \in 0..MaxClock
    /\ req \in [Reqs -> Locals]
    /\ \A r \in Reqs : req[r].pc \in {"call", "record", "open", "stream", "recordStream"} => req[r].queue # <<>>
    /\ \A r \in Reqs : Len(req[r].queue) <= Len(Ranking) /\ req[r].charges <= Len(Ranking) + 1

Idle == [pc |-> "idle", queue |-> <<>>, outcome |-> "none", sent |-> EmptyBody, first |-> <<>>,
         cool |-> {}, charges |-> 0, errors |-> 0]

At(r, pc) == req[r].pc = pc

\* The handler is through: what is left of the request is its account.
Left(r, pc, outcome, charged, failed) ==
    [Idle EXCEPT !.pc = pc, !.outcome = outcome,
                 !.charges = req[r].charges + charged, !.errors = req[r].errors + failed]

-----------------------------------------------------------------------------
\* Health

Healthy(m) == failedUntil[m] < clock
MarkFailure(m) == failedUntil' = [failedUntil EXCEPT ![m] = clock + Cooldown]
MarkSuccess(m) == failedUntil' = [failedUntil EXCEPT ![m] = 0]

-----------------------------------------------------------------------------
\* Candidates

\* The schema knows no fallback_chain and no routing: zod drops them, and the
\* strategy is always the default.
Parsed(body) == [body EXCEPT !.chain = <<>>]

\* What filter keeps of s: the elements in S, in their order.
InOrder(s, S) ==
    LET Kept[i \in 0..Len(s)] ==
            IF i = 0 THEN <<>> ELSE IF s[i] \in S THEN Append(Kept[i - 1], s[i]) ELSE Kept[i - 1]
    IN  Kept[Len(s)]

Pool(vision) == IF vision THEN Configured \cap Visual ELSE Configured

\* Mutant: models in cooldown are kept.
RankByStrategySick(pool) == InOrder(Ranking, pool)

\* Only healthy models, or all of them if none is healthy.
RankByStrategy(pool) ==
    LET healthy == {m \in pool : Healthy(m)}
    IN  InOrder(Ranking, IF healthy # {} THEN healthy ELSE pool)

\* Mutant: no fallback from a model asked for.
PickCandidatesAlone(body) ==
    IF body.model # NoModel THEN <<body.model>> ELSE RankByStrategy(Pool(body.vision))

\* A model asked for comes first, configured and healthy or not.
PickCandidates(body) ==
    LET ranked == RankByStrategy(Pool(body.vision) \ {body.model})
    IN  IF body.chain # <<>> THEN InOrder(body.chain, Configured)
        ELSE IF body.model # NoModel THEN <<body.model>> \o ranked
        ELSE ranked

-----------------------------------------------------------------------------
\* Actions

Init ==
    /\ failedUntil = [m \in Models |-> 0]
    /\ clock = 1
    /\ req = [r \in Reqs |-> Idle]

\* The request arrives, its candidates are picked and the first is called.
Submit(r, body) ==
    LET candidates == PickCandidates(Parsed(body))
    IN  /\ At(r, "idle")
        /\ req' = [req EXCEPT ![r] = [Idle EXCEPT
               !.pc = IF candidates = <<>> THEN "done" ELSE IF body.stream THEN "open" ELSE "call",
               !.queue = candidates, !.sent = body, !.first = candidates,
               !.cool = {m \in Models : ~Healthy(m)}]]
        /\ UNCHANGED <<failedUntil, clock>>

\* Mutant: the loop runs past the last candidate.
NextCandidateForever(r) == [req[r] EXCEPT !.queue = Tail(@)]

\* The loop goes on with the next candidate, or to the last recordUsage.
NextCandidate(r) ==
    [req[r] EXCEPT !.queue = Tail(@), !.pc = IF Tail(req[r].queue) = <<>> THEN "last" ELSE "call"]

\* The model answers: it counts as healthy, whatever was marked since the call.
CallOk(r) ==
    /\ At(r, "call")
    /\ MarkSuccess(Head(req[r].queue))
    /\ req' = [req EXCEPT ![r].pc = "record"]
    /\ UNCHANGED clock

\* Mutant: a failed candidate charges the prompt, too.
CallFailsCharged(r) ==
    /\ At(r, "call")
    /\ MarkFailure(Head(req[r].queue))
    /\ req' = [req EXCEPT ![r] = [NextCandidate(r) EXCEPT !.charges = @ + 1]]
    /\ UNCHANGED clock

CallFails(r) ==
    /\ At(r, "call")
    /\ MarkFailure(Head(req[r].queue))
    /\ req' = [req EXCEPT ![r] = NextCandidate(r)]
    /\ UNCHANGED clock

RecordOk(r) ==
    /\ At(r, "record")
    /\ req' = [req EXCEPT ![r] = Left(r, "done", "served", 1, 0)]
    /\ UNCHANGED <<failedUntil, clock>>

\* recordUsage is inside the try of the loop: its failure counts as the model's.
RecordFails(r, charged) ==
    /\ At(r, "record")
    /\ MarkFailure(Head(req[r].queue))
    /\ req' = [req EXCEPT ![r] = [NextCandidate(r) EXCEPT !.charges = @ + charged, !.errors = @ + 1]]
    /\ UNCHANGED clock

\* All candidates failed: the prompt is charged, then 502.
LastRecordOk(r) ==
    /\ At(r, "last")
    /\ req' = [req EXCEPT ![r] = Left(r, "done", "failed", 1, 0)]
    /\ UNCHANGED <<failedUntil, clock>>

\* Outside of any try: the handler rejects and nobody answers.
LastRecordFails(r, charged) ==
    /\ At(r, "last")
    /\ req' = [req EXCEPT ![r] = Left(r, "hung", "none", charged, 1)]
    /\ UNCHANGED <<failedUntil, clock>>

StreamOpens(r) ==
    /\ At(r, "open")
    /\ req' = [req EXCEPT ![r].pc = "stream"]
    /\ UNCHANGED <<failedUntil, clock>>

\* No stream, or it breaks: an error and the end, without another candidate.
StreamBreaks(r) ==
    /\ At(r, "open") \/ At(r, "stream")
    /\ MarkFailure(Head(req[r].queue))
    /\ req' = [req EXCEPT ![r] = Left(r, "done", "broken", 0, 0)]
    /\ UNCHANGED clock

\* The client closes: the call is aborted, no model is blamed.
ClientLeaves(r) ==
    /\ At(r, "open") \/ At(r, "stream")
    /\ req' = [req EXCEPT ![r] = Left(r, "done", "broken", 0, 0)]
    /\ UNCHANGED <<failedUntil, clock>>

StreamEnds(r) ==
    /\ At(r, "stream")
    /\ MarkSuccess(Head(req[r].queue))
    /\ req' = [req EXCEPT ![r].pc = "recordStream"]
    /\ UNCHANGED clock

StreamRecordOk(r) ==
    /\ At(r, "recordStream")
    /\ req' = [req EXCEPT ![r] = Left(r, "done", "served", 1, 0)]
    /\ UNCHANGED <<failedUntil, clock>>

\* An async listener of 'end': its rejection leaves the response open.
StreamRecordFails(r, charged) ==
    /\ At(r, "recordStream")
    /\ req' = [req EXCEPT ![r] = Left(r, "hung", "none", charged, 1)]
    /\ UNCHANGED <<failedUntil, clock>>

\* The slot takes another request.
Answered(r) ==
    /\ At(r, "done") \/ At(r, "hung")
    /\ req' = [req EXCEPT ![r] = Idle]
    /\ UNCHANGED <<failedUntil, clock>>

Tick ==
    /\ clock < MaxClock
    /\ clock' = clock + 1
    /\ UNCHANGED <<failedUntil, req>>

Serve(r) ==
    \/ \E body \in Bodies : Submit(r, body)
    \/ CallOk(r)
    \/ CallFails(r)
    \/ RecordOk(r)
    \/ \E charged \in {0, 1} :
           RecordFails(r, charged) \/ LastRecordFails(r, charged) \/ StreamRecordFails(r, charged)
    \/ LastRecordOk(r)
    \/ StreamOpens(r)
    \/ StreamBreaks(r)
    \/ ClientLeaves(r)
    \/ StreamEnds(r)
    \/ StreamRecordOk(r)
    \/ Answered(r)

Next == Tick \/ \E r \in Reqs : Serve(r)

Spec == Init /\ [][Next]_vars

-----------------------------------------------------------------------------
\* Properties

Usable(r) == Pool(req[r].sent.vision) \ {req[r].sent.model}
Given(r) == SubSeq(req[r].first, 1, Len(req[r].first) - Len(req[r].queue))

\* A request calls a model in cooldown (lib/gateway/router.js:27-28) only if
\* it asked for it, if no other model was healthy when it arrived, or if
\* another request marked the model after that.
CooldownRespected ==
    \A r \in Reqs : req[r].pc \in {"call", "open"} =>
        LET m == Head(req[r].queue)
        IN  \/ Healthy(m)
            \/ m = req[r].sent.model
            \/ Usable(r) \subseteq req[r].cool
            \/ m \notin req[r].cool

\* A 502 will say the truth (routes/gateway.js:78-109): every usable model was
\* called and given up in turn, unless it was in cooldown when the request arrived.
NoCandidateLeftOut ==
    \A r \in Reqs : At(r, "last") =>
        Pool(req[r].sent.vision) \ req[r].cool \subseteq {Given(r)[i] : i \in 1..Len(Given(r))}

\* A request is charged once, when it was served or when all its candidates
\* failed (routes/gateway.js:99, 108, 172), not at all when its stream broke;
\* every charge more, and every charge less, is one failure of recordUsage.
ChargedOnce ==
    \A r \in Reqs : At(r, "done") \/ At(r, "hung") =>
        LET owed == IF req[r].outcome \in {"served", "failed"} THEN 1 ELSE 0
        IN  req[r].charges \in owed..owed + req[r].errors

-----------------------------------------------------------------------------
\* What the documentation says without reservation, and the code does not keep

\* README.md:166: give the order in fallback_chain, and the gateway follows it.
ChainIsFollowed ==
    \A r \in Reqs : req[r].pc \in {"call", "open"} /\ req[r].sent.chain # <<>> =>
        req[r].first = InOrder(req[r].sent.chain, Configured)
=============================================================================

-------------------------------- MODULE Chat --------------------------------
(***************************************************************************)
(* POST /api/chat of routes/chat.js with the conversations it writes       *)
(* (routes/conversations.js deletes them), the model servers of            *)
(* config/llama-cluster.js, and the life of the process of server.js that  *)
(* serves it: SIGTERM, the closing of server and pool, forced exit, death,  *)
(* restart.                                                                *)
(*                                                                         *)
(* A step is one awaited statement or call with the JavaScript around it.  *)
(* Each number in Reqs is one request of the user's; of the others' only    *)
(* what they do to the model servers is modelled, which they share.  The   *)
(* allowance is in Metering; here a charge is counted.  why, charged, gone *)
(* and elsewhere say, for the properties, what became of a request.        *)
(***************************************************************************)
EXTENDS Integers, FiniteSets

CONSTANTS
    MaxReqs,    \* bound: requests ever made
    MaxConvs,   \* bound: conversations ever created
    Size        \* number of model servers

ASSUME ChatAssumption == MaxReqs \in Nat /\ MaxConvs \in Nat \ {0} /\ Size \in Nat \ {0}

Reqs == 1..MaxReqs      \* in the order they arrive
Convs == 1..MaxConvs    \* by id, a SERIAL

VARIABLES
    conv,           \* the conversations table
    messages,       \* the messages table: who wrote what for which request
    handler,        \* the locals of every request
    charged,        \* how often each request was charged
    gone,           \* requests whose client has closed the connection
    process,        \* the process: serving, after SIGTERM, server closed, ended
    unfinished,     \* statements pool.end() waits for
    index, cooldown, passed,    \* see LlamaCluster
    elsewhere       \* history: servers in cooldown since others' calls of them failed

Cluster == INSTANCE LlamaCluster

cluster == <<index, cooldown, passed, elsewhere>>
tables == <<conv, messages>>
vars == <<conv, messages, handler, charged, gone, process, unfinished, index, cooldown, passed, elsewhere>>

Ended == {"served", "failed", "unanswered", "lost"}
Storing == {"open", "question", "touch", "refused", "charge", "answer", "report"}
Pc == Storing \cup Ended \cup {"new", "asked", "streaming"}

\* ok: the server answered with a 2xx status; text: there is something to save;
\* why: what ended a request that was not served.
Locals == [pc : Pc, conv : Convs, stream : BOOLEAN, server : Cluster!Server, ok : BOOLEAN, text : BOOLEAN,
           why : {"", "unreachable", "statement", "deleted", "cancelled", "exit 0", "exit 1"}]

TypeOK ==
    /\ conv \in [Convs -> {"none", "open", "deleted"}]
    /\ messages \in SUBSET (Reqs \X {"user", "assistant"})
    /\ handler \in [Reqs -> Locals]
    /\ charged \in [Reqs -> 0..1]
    /\ gone \in SUBSET Reqs
    /\ process \in {"up", "draining", "closing", "off"}
    /\ unfinished \in SUBSET Reqs
    /\ Cluster!TypeOK
    /\ elsewhere \in SUBSET Cluster!Server

At(r, pc) == handler[r].pc = pc
InFlight == {r \in Reqs : handler[r].pc \notin Ended \cup {"new"}}
\* An unanswered request holds its connection until the client gives up.
Connected == {r \in InFlight \cup {q \in Reqs : At(q, "unanswered")} : r \notin gone}
Open(r) == conv[handler[r].conv] = "open"

\* Also after SIGTERM: a connection that is kept alive may bring another request.
Serving == process \in {"up", "draining"}

\* A statement can be sent until the pool is ended; one sent before finishes.
Stores(r, pc) == At(r, pc) /\ (Serving \/ r \in unfinished)

Goto(r, pc) == handler' = [handler EXCEPT ![r].pc = pc] /\ unfinished' = unfinished \ {r}
Fail(r, pc, why) ==
    handler' = [handler EXCEPT ![r].pc = pc, ![r].why = why] /\ unfinished' = unfinished \ {r}

-----------------------------------------------------------------------------

Init ==
    /\ conv = [c \in Convs |-> "none"]
    /\ messages = {}
    /\ handler = [r \in Reqs |-> [pc |-> "new", conv |-> 1, stream |-> FALSE,
                                  server |-> 0, ok |-> FALSE, text |-> FALSE, why |-> ""]]
    /\ charged = [r \in Reqs |-> 0]
    /\ gone = {}
    /\ process = "up"
    /\ unfinished = {}
    /\ Cluster!Init
    /\ elsewhere = {}

\* A request is let in by the middleware.
Arrive(r, stream) ==
    /\ Serving
    /\ At(r, "new")
    /\ \A q \in 1..(r - 1) : ~At(q, "new")
    /\ handler' = [handler EXCEPT ![r].pc = "open", ![r].stream = stream]
    /\ UNCHANGED <<tables, charged, gone, process, unfinished, cluster>>

\* getOrCreateConversation: the one the client names, or a new one.
GetOrCreateConversation(r, c) ==
    /\ Stores(r, "open")
    /\ \/ conv[c] = "open"
       \/ conv[c] = "none" /\ \A d \in 1..(c - 1) : conv[d] # "none"
    /\ conv' = [conv EXCEPT ![c] = "open"]
    /\ handler' = [handler EXCEPT ![r].pc = "question", ![r].conv = c]
    /\ unfinished' = unfinished \ {r}
    /\ UNCHANGED <<messages, charged, gone, process, cluster>>

\* saveMessage of the question: the INSERT.
SaveQuestion(r) ==
    /\ Stores(r, "question")
    /\ Open(r)
    /\ messages' = messages \cup {<<r, "user">>}
    /\ Goto(r, "touch")
    /\ UNCHANGED <<conv, charged, gone, process, cluster>>

\* The UPDATE of updated_at, of no row if the conversation is gone; then a
\* server is picked and called.
Ask(r, s) ==
    /\ Stores(r, "touch")
    /\ Cluster!Pick(s)
    /\ handler' = [handler EXCEPT ![r].pc = "asked", ![r].server = s]
    /\ unfinished' = unfinished \ {r}
    /\ UNCHANGED <<tables, charged, gone, process, elsewhere>>

\* The server answers with a 2xx status.
Answered(r) ==
    /\ At(r, "asked")
    /\ handler' = [handler EXCEPT ![r].pc = IF handler[r].stream THEN "streaming" ELSE "charge",
                                  ![r].ok = TRUE, ![r].text = ~handler[r].stream]
    /\ UNCHANGED <<tables, charged, gone, process, unfinished, cluster>>

\* It answers with another status: a stream ends uncharged, a plain request is
\* charged its prompt.
Refused(r) ==
    /\ At(r, "asked")
    /\ handler' = [handler EXCEPT ![r].pc = IF handler[r].stream THEN "failed" ELSE "refused"]
    /\ UNCHANGED <<tables, charged, gone, process, unfinished, cluster>>

\* Mutant: the catch marks the server whose turn it is.
BlamedNext(r) == index

Blamed(r) == handler[r].server

\* The call throws, the body is no JSON, or the stream breaks off.
Unreachable(r) ==
    /\ handler[r].pc \in {"asked", "streaming"}
    /\ Fail(r, "failed", "unreachable")
    /\ Cluster!MarkFailed(Blamed(r))
    /\ UNCHANGED <<tables, charged, gone, process, elsewhere>>

\* The stream's 'end', with or without text in it.
StreamEnds(r, text) ==
    /\ At(r, "streaming")
    /\ handler' = [handler EXCEPT ![r].pc = "charge", ![r].text = text]
    /\ UNCHANGED <<tables, charged, gone, process, unfinished, cluster>>

\* Mutants: the charge is repeated; the answer is not saved.
AfterChargeAgain(r) == "charge"
AfterChargeUnsaved(r) == "report"

AfterCharge(r) == IF handler[r].ok /\ handler[r].text THEN "answer" ELSE "report"

\* recordUsageAndMaybeAlert: tokens_used_today.  The row of request_logs and the
\* alert follow, in front of the next statement.
Charge(r) ==
    /\ Stores(r, "charge") \/ Stores(r, "refused")
    /\ charged' = [charged EXCEPT ![r] = @ + 1]
    /\ Goto(r, AfterCharge(r))
    /\ UNCHANGED <<tables, gone, process, cluster>>

\* saveMessage of the answer: the INSERT.
SaveAnswer(r) ==
    /\ Stores(r, "answer")
    /\ Open(r)
    /\ messages' = messages \cup {<<r, "assistant">>}
    /\ Goto(r, "report")
    /\ UNCHANGED <<conv, charged, gone, process, cluster>>

\* The last statement, then the response.
Report(r) ==
    /\ Stores(r, "report")
    /\ Goto(r, IF handler[r].ok THEN "served" ELSE "failed")
    /\ UNCHANGED <<tables, charged, gone, process, cluster>>

\* A statement rejects.  After a plain call that is caught, and taken for the
\* server's failure; before the call, and in the listener of 'end', nobody
\* catches it, and the request is never answered.
Rejects(r, why) ==
    \/ /\ handler[r].pc \in {"refused", "charge", "answer", "report"} /\ ~handler[r].stream
       /\ Fail(r, "failed", why)
       /\ Cluster!MarkFailed(Blamed(r))
       /\ UNCHANGED elsewhere
    \/ /\ handler[r].pc \in {"open", "question", "touch"} \/ handler[r].stream
       /\ Fail(r, "unanswered", why)
       /\ UNCHANGED cluster

\* The foreign key refuses a message of a deleted conversation.
MessageRefused(r) ==
    /\ Stores(r, "question") \/ Stores(r, "answer")
    /\ ~Open(r)
    /\ Rejects(r, "deleted")
    /\ UNCHANGED <<tables, charged, gone, process>>

\* The database fails, or the pool has been ended.
StatementFails(r) ==
    /\ handler[r].pc \in Storing
    /\ Rejects(r, "statement")
    /\ UNCHANGED <<tables, charged, gone, process>>

\* The client closes the connection; only a stream that is being asked for or
\* read is aborted.
ClientLeaves(r) ==
    /\ r \in Connected
    /\ gone' = gone \cup {r}
    /\ IF handler[r].stream /\ handler[r].pc \in {"asked", "streaming"}
       THEN Fail(r, "failed", "cancelled")
       ELSE UNCHANGED <<handler, unfinished>>
    /\ UNCHANGED <<tables, charged, process, cluster>>

\* DELETE /api/conversations/:id, which cascades to the messages.
DeleteConversation(c) ==
    /\ Serving
    /\ conv[c] = "open"
    /\ conv' = [conv EXCEPT ![c] = "deleted"]
    /\ messages' = {m \in messages : handler[m[1]].conv # c}
    /\ UNCHANGED <<handler, charged, gone, process, unfinished, cluster>>

CooldownEnds(s) ==
    /\ Cluster!CooldownEnds(s)
    /\ elsewhere' = elsewhere \ {s}
    /\ UNCHANGED <<tables, handler, charged, gone, process, unfinished>>

\* A chat request of another user picks a server.
OthersAsk(s) ==
    /\ Serving
    /\ Cluster!Pick(s)
    /\ UNCHANGED <<tables, handler, charged, gone, process, unfinished, elsewhere>>

\* And fails there.
OthersFail(s) ==
    /\ process # "off"
    /\ Cluster!MarkFailed(s)
    /\ elsewhere' = elsewhere \cup {s}
    /\ UNCHANGED <<tables, handler, charged, gone, process, unfinished>>

-----------------------------------------------------------------------------
\* The process

\* SIGTERM or SIGINT; a second one changes nothing.
Shutdown ==
    /\ process = "up"
    /\ process' = "draining"
    /\ UNCHANGED <<tables, handler, charged, gone, unfinished, cluster>>

\* Mutant: nobody waits for the connections.
DrainedAtOnce == TRUE

\* server.close calls back when the last connection is closed.
Drained == Connected = {}

\* The callback of server.close ends the pool.
EndPool ==
    /\ process = "draining"
    /\ Drained
    /\ process' = "closing"
    /\ unfinished' = {r \in Reqs : handler[r].pc \in Storing}
    /\ UNCHANGED <<tables, handler, charged, gone, cluster>>

\* Whatever still runs is cut off.
Exit(why) ==
    /\ process' = "off"
    /\ handler' = [r \in Reqs |->
           IF r \in InFlight THEN [handler[r] EXCEPT !.pc = "lost", !.why = why] ELSE handler[r]]
    /\ unfinished' = {}
    /\ UNCHANGED <<tables, charged, gone, cluster>>

\* pool.end() has resolved: exit(0).
CleanExit ==
    /\ process = "closing"
    /\ unfinished = {}
    /\ Exit("exit 0")

\* Ten seconds after the signal, or pool.end() rejects: exit(1).
ForcedExit == process \in {"draining", "closing"} /\ Exit("exit 1")

\* The process is killed.
Killed == process = "up" /\ Exit("exit 1")

Boot ==
    /\ process = "off"
    /\ process' = "up"
    /\ Cluster!Boot
    /\ elsewhere' = {}
    /\ UNCHANGED <<tables, handler, charged, gone, unfinished>>

-----------------------------------------------------------------------------

Serve(r) ==
    \/ \E stream \in BOOLEAN : Arrive(r, stream)
    \/ \E c \in Convs : GetOrCreateConversation(r, c)
    \/ SaveQuestion(r)
    \/ \E s \in Cluster!Server : Ask(r, s)
    \/ Answered(r)
    \/ Refused(r)
    \/ Unreachable(r)
    \/ \E text \in BOOLEAN : StreamEnds(r, text)
    \/ Charge(r)
    \/ SaveAnswer(r)
    \/ Report(r)
    \/ MessageRefused(r)
    \/ StatementFails(r)
    \/ ClientLeaves(r)

Lifecycle == Shutdown \/ EndPool \/ CleanExit \/ ForcedExit \/ Killed \/ Boot

Next ==
    \/ \E r \in Reqs : Serve(r)
    \/ \E c \in Convs : DeleteConversation(c)
    \/ \E s \in Cluster!Server : CooldownEnds(s) \/ OthersAsk(s) \/ OthersFail(s)
    \/ Lifecycle

Spec == Init /\ [][Next]_vars

-----------------------------------------------------------------------------
\* Properties

\* The order of charge and messages (routes/chat.js:73-106, 160-167): a request
\* is served only charged once and with question and answer in its conversation,
\* unless that was deleted or the stream had no text; no answer is kept that was
\* not charged; and who pays and is not served met a model server's refusal, a
\* failing statement, a deleted conversation or the end of the process.
TurnsComplete ==
    \A r \in Reqs :
        /\ At(r, "served") =>
              /\ charged[r] = 1
              /\ Open(r) => /\ <<r, "user">> \in messages
                            /\ handler[r].text => <<r, "assistant">> \in messages
        /\ <<r, "assistant">> \in messages => <<r, "user">> \in messages /\ charged[r] = 1
        /\ charged[r] = 1 /\ handler[r].pc \in Ended \ {"served"} =>
              ~handler[r].ok \/ handler[r].why \in {"statement", "deleted", "exit 0", "exit 1"}

\* markFailed (routes/chat.js:108, 173, 181): a server is in cooldown because a
\* call to it failed, or because a statement failed after a plain call it had
\* answered, be it that the conversation was deleted meanwhile; or because of
\* another user's call.
CooldownExplained ==
    \A s \in cooldown \ elsewhere : \E r \in Reqs :
        /\ At(r, "failed")
        /\ handler[r].server = s
        /\ \/ handler[r].why = "unreachable"
           \/ ~handler[r].stream /\ handler[r].why = "statement"
           \/ ~handler[r].stream /\ handler[r].why = "deleted" /\ ~Open(r)

\* server.js:122 and README.md:13: a shutdown that exits with 0 has cut off no
\* request whose client was still there.
CleanExitFinishes == \A r \in Reqs : handler[r].why = "exit 0" => r \in gone

\* config/llama-cluster.js as chat uses it, see LlamaCluster.
NoServerStarved == Cluster!NoServerStarved
=============================================================================

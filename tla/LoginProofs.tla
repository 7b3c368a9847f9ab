------------------------------ MODULE LoginProofs ------------------------------
(***************************************************************************)
(* Of the lock and the mailed links, for any number of requests, any       *)
(* threshold and any number of links: how many wrong passwords get in      *)
(* before the lock, what a lock stands for, and that a link works once.    *)
(***************************************************************************)
EXTENDS Login, FiniteSetTheorems, TLAPS

-----------------------------------------------------------------------------
\* Types

\* The type invariant, but for the bound on the uses of a link, which takes the
\* invariant of the links.
ShapeOK ==
    /\ fails \in 0..MaxFails
    /\ lock \in {"none", "set", "past"}
    /\ verified \in BOOLEAN
    /\ pending \in SUBSET Link
    /\ stored \in [newest : Link, held : Link]
    /\ handler \in [Reqs -> Locals]
    /\ late \in [Reqs -> BOOLEAN]
    /\ uses \in [Link -> Nat]
    /\ shared \in SUBSET Link
    /\ crossed \in SUBSET Link
    /\ strayed \in BOOLEAN
    /\ crashed \in 0..MaxCrashes

(* A request in flight. *)
LEMMA HandlerFacts ==
    ASSUME ShapeOK, NEW r \in Reqs
    PROVE  /\ handler[r] \in Locals
           /\ handler[r].pc \in {"idle", "count", "lock", "clear", "verify", "store", "write"}
           /\ handler[r].seen \in 0..MaxFails /\ handler[r].link \in Link
  BY DEF ShapeOK, Locals

LEMMA Numbers ==
    ASSUME ShapeOK
    PROVE  /\ fails \in Nat /\ crashed \in Nat
           /\ stored.newest \in Nat /\ stored.newest \in Link
           /\ MaxFails \in Nat /\ MaxCrashes \in Nat /\ MaxLinks \in Nat /\ Threshold \in Nat \ {0}
           /\ 0 \in Link
  BY LoginAssumption DEF ShapeOK, Link

(* What a request holds after it began or moved on. *)
LEMMA BecomeFacts ==
    ASSUME ShapeOK, NEW r \in Reqs, NEW pc \in {"count", "clear", "verify", "store", "write"},
           NEW seen \in 0..MaxFails, NEW link \in Link, Become(r, pc, seen, link)
    PROVE  /\ handler' \in [Reqs -> Locals]
           /\ handler'[r].pc = pc /\ handler'[r].seen = seen /\ handler'[r].link = link
           /\ \A q \in Reqs \ {r} : handler'[q] = handler[q]
<1> DEFINE l == [pc |-> pc, seen |-> seen, link |-> link]
<1>1. handler' = [handler EXCEPT ![r] = l] /\ handler \in [Reqs -> Locals]
  BY DEF Become, ShapeOK
<1>2. l \in Locals
  BY DEF Locals
<1>3. handler' \in [Reqs -> Locals] /\ handler'[r] = l /\ \A q \in Reqs \ {r} : handler'[q] = handler[q]
  BY <1>1, <1>2
<1>4. QED
  BY <1>3

LEMMA FinishFacts ==
    ASSUME ShapeOK, NEW r \in Reqs, Finish(r)
    PROVE  /\ handler' \in [Reqs -> Locals]
           /\ handler'[r].pc = "idle"
           /\ \A q \in Reqs \ {r} : handler'[q] = handler[q]
<1>1. Idle \in Locals /\ Idle.pc = "idle"
  BY LoginAssumption DEF Idle, Locals, Link
<1>2. handler' = [handler EXCEPT ![r] = Idle] /\ handler \in [Reqs -> Locals]
  BY DEF Finish, ShapeOK
<1>3. QED
  BY <1>1, <1>2

(* Who is late after a step of r. *)
LEMMA OvertakeFacts ==
    ASSUME ShapeOK, NEW r \in Reqs, NEW R \in SUBSET Reqs, Overtake(R, r)
    PROVE  /\ late' \in [Reqs -> BOOLEAN]
           /\ ~late'[r]
           /\ \A q \in Reqs \ {r} : late'[q] <=> late[q] \/ q \in R
  BY DEF Overtake, ShapeOK

-----------------------------------------------------------------------------
\* The steps

(* A request begins: it has read the row. *)
LEMMA WrongPasswordFacts ==
    ASSUME ShapeOK, NEW r \in Reqs, WrongPassword(r)
    PROVE  /\ handler' \in [Reqs -> Locals]
           /\ At(r, "idle") /\ handler'[r].pc = "count" /\ handler'[r].seen = fails
           /\ \A q \in Reqs \ {r} : handler'[q] = handler[q]
           /\ late' \in [Reqs -> BOOLEAN] /\ \A q \in Reqs \ {r} : late'[q] <=> late[q]
           /\ UNCHANGED <<counters, links>>
<1>1. At(r, "idle") /\ Become(r, "count", fails, 0) /\ Overtake({}, r) /\ UNCHANGED <<counters, links>>
  BY DEF WrongPassword
<1>2. fails \in 0..MaxFails /\ 0 \in Link
  BY Numbers DEF ShapeOK
<1>3. QED
  BY <1>1, <1>2, BecomeFacts, OvertakeFacts

LEMMA CountFailureFacts ==
    ASSUME ShapeOK, NEW r \in Reqs, CountFailure(r)
    PROVE  /\ handler' \in [Reqs -> Locals]
           /\ At(r, "count")
           /\ handler'[r].pc = IF LockDue(handler[r].seen) THEN "lock" ELSE "idle"
           /\ \A q \in Reqs \ {r} : handler'[q] = handler[q]
           /\ late' \in [Reqs -> BOOLEAN] /\ \A q \in Reqs \ {r} : late'[q] <=> late[q]
           /\ LockDue(handler[r].seen) => late' = late
           /\ fails < MaxFails /\ fails' = fails + 1
           /\ UNCHANGED <<lock, strayed, crashed, links>>
<1>1. /\ At(r, "count") /\ fails < MaxFails /\ fails' = fails + 1
      /\ UNCHANGED <<lock, strayed, crashed, links>>
  BY DEF CountFailure, Counted
<1>2. CASE LockDue(handler[r].seen)
  <2>1. handler' = [handler EXCEPT ![r].pc = "lock"] /\ late' = late
    BY <1>2 DEF CountFailure
  <2>2. /\ handler' \in [Reqs -> Locals] /\ handler'[r].pc = "lock"
        /\ \A q \in Reqs \ {r} : handler'[q] = handler[q]
    BY <2>1 DEF ShapeOK, Locals
  <2>3. QED
    BY <1>1, <1>2, <2>1, <2>2 DEF ShapeOK
<1>3. CASE ~LockDue(handler[r].seen)
  <2>1. Finish(r) /\ Overtake({}, r)
    BY <1>3 DEF CountFailure
  <2>2. QED
    BY <1>1, <1>3, <2>1, FinishFacts, OvertakeFacts
<1>4. QED
  BY <1>2, <1>3

LEMMA SetLockFacts ==
    ASSUME ShapeOK, NEW r \in Reqs, SetLock(r)
    PROVE  /\ handler' \in [Reqs -> Locals]
           /\ At(r, "lock") /\ handler'[r].pc = "idle"
           /\ \A q \in Reqs \ {r} : handler'[q] = handler[q]
           /\ late' \in [Reqs -> BOOLEAN]
           /\ \A q \in Reqs \ {r} : late'[q] <=> late[q] \/ At(q, "clear")
           /\ lock' = "set" /\ strayed' \in BOOLEAN
           /\ ~strayed' => ~late[r]
           /\ UNCHANGED <<fails, crashed, links>>
<1> DEFINE R == {q \in Reqs : At(q, "clear")}
<1>1. /\ At(r, "lock") /\ Finish(r) /\ Overtake(R, r)
      /\ lock' = "set" /\ strayed' = (late[r] \/ (strayed /\ lock # "none"))
      /\ UNCHANGED <<fails, crashed, links>>
  BY DEF SetLock
<1>2. R \in SUBSET Reqs
  OBVIOUS
<1>3. /\ late' \in [Reqs -> BOOLEAN]
      /\ \A q \in Reqs \ {r} : late'[q] <=> late[q] \/ q \in R
  BY <1>1, <1>2, OvertakeFacts
<1>4. strayed' \in BOOLEAN /\ (~strayed' => ~late[r])
  BY <1>1 DEF ShapeOK
<1>5. QED
  BY <1>1, <1>3, <1>4, FinishFacts

LEMMA RightPasswordFacts ==
    ASSUME ShapeOK, NEW r \in Reqs, RightPassword(r)
    PROVE  /\ handler' \in [Reqs -> Locals]
           /\ At(r, "idle") /\ handler'[r].pc = "clear" /\ lock # "set"
           /\ \A q \in Reqs \ {r} : handler'[q] = handler[q]
           /\ late' \in [Reqs -> BOOLEAN] /\ \A q \in Reqs \ {r} : late'[q] <=> late[q]
           /\ UNCHANGED <<counters, links>>
<1>1. At(r, "idle") /\ NotLocked /\ Become(r, "clear", 0, 0) /\ Overtake({}, r) /\ UNCHANGED <<counters, links>>
  BY DEF RightPassword
<1>2. 0 \in 0..MaxFails /\ 0 \in Link
  BY Numbers
<1>3. QED
  BY <1>1, <1>2, BecomeFacts, OvertakeFacts DEF NotLocked

LEMMA ClearFailuresFacts ==
    ASSUME ShapeOK, NEW r \in Reqs, ClearFailures(r)
    PROVE  /\ handler' \in [Reqs -> Locals]
           /\ At(r, "clear") /\ handler'[r].pc = "idle"
           /\ \A q \in Reqs \ {r} : handler'[q] = handler[q]
           /\ late' \in [Reqs -> BOOLEAN]
           /\ \A q \in Reqs \ {r} : late'[q] <=> late[q] \/ At(q, "count") \/ At(q, "lock")
           /\ fails' = 0 /\ lock' = "none" /\ strayed' = FALSE /\ crashed' = 0
           /\ UNCHANGED links
<1> DEFINE R == {q \in Reqs : handler[q].pc \in {"count", "lock"}}
<1>1. /\ At(r, "clear") /\ Finish(r) /\ Overtake(R, r)
      /\ fails' = 0 /\ lock' = "none" /\ strayed' = FALSE /\ crashed' = 0
      /\ UNCHANGED links
  BY DEF ClearFailures
<1>2. R \in SUBSET Reqs
  OBVIOUS
<1>3. /\ late' \in [Reqs -> BOOLEAN]
      /\ \A q \in Reqs \ {r} : late'[q] <=> late[q] \/ q \in R
  BY <1>1, <1>2, OvertakeFacts
<1>4. QED
  BY <1>1, <1>3, FinishFacts DEF At

LEMMA AbortFacts ==
    ASSUME ShapeOK, NEW r \in Reqs, Abort(r)
    PROVE  /\ handler' \in [Reqs -> Locals]
           /\ handler'[r].pc = "idle"
           /\ \A q \in Reqs \ {r} : handler'[q] = handler[q]
           /\ late' \in [Reqs -> BOOLEAN] /\ \A q \in Reqs \ {r} : late'[q] <=> late[q]
           /\ At(r, "lock") => crashed < MaxCrashes /\ crashed' = crashed + 1
           /\ ~At(r, "lock") => crashed' = crashed
           /\ UNCHANGED <<fails, lock, strayed, links>>
<1>1. Finish(r) /\ Overtake({}, r)
  BY DEF Abort
<1>2. QED
  BY <1>1, FinishFacts, OvertakeFacts DEF Abort

(* A link is looked up: the request holds it, and the row does too. *)
LEMMA LookupLinkFacts ==
    ASSUME ShapeOK, NEW r \in Reqs, NEW l \in Link, LookupLink(r, l)
    PROVE  /\ handler' \in [Reqs -> Locals]
           /\ At(r, "idle") /\ handler'[r].pc = (IF l = 0 THEN "verify" ELSE "write") /\ handler'[r].link = l
           /\ \A q \in Reqs \ {r} : handler'[q] = handler[q]
           /\ late' \in [Reqs -> BOOLEAN] /\ \A q \in Reqs \ {r} : late'[q] <=> late[q]
           /\ l \in pending
           /\ shared' \in SUBSET Link /\ shared \subseteq shared'
           /\ Holders(l) # {} => l \in shared'
           /\ UNCHANGED <<counters, verified, pending, stored, uses, crossed>>
<1> DEFINE pc == IF l = 0 THEN "verify" ELSE "write"
<1>1. /\ At(r, "idle") /\ Valid(l) /\ Become(r, pc, 0, l) /\ Overtake({}, r)
      /\ shared' = IF Holders(l) = {} THEN shared ELSE shared \cup {l}
      /\ UNCHANGED <<counters, verified, pending, stored, uses, crossed>>
  BY DEF LookupLink
<1>2. 0 \in 0..MaxFails /\ pc \in {"count", "clear", "verify", "store", "write"}
  BY Numbers
<1>3. shared' \in SUBSET Link /\ shared \subseteq shared' /\ (Holders(l) # {} => l \in shared')
  BY <1>1 DEF ShapeOK
<1> HIDE DEF pc
<1>4. /\ handler' \in [Reqs -> Locals] /\ handler'[r].pc = pc /\ handler'[r].link = l
      /\ \A q \in Reqs \ {r} : handler'[q] = handler[q]
  BY <1>1, <1>2, BecomeFacts
<1>5. QED
  BY <1>1, <1>3, <1>4, OvertakeFacts DEF Valid, pc

(* A link is used: by the request r, which no longer holds it. *)
Used(r, l) ==
    /\ handler' \in [Reqs -> Locals] /\ handler'[r].pc = "idle"
    /\ \A q \in Reqs \ {r} : handler'[q] = handler[q]
    /\ late' \in [Reqs -> BOOLEAN] /\ \A q \in Reqs \ {r} : late'[q] <=> late[q]
    /\ uses' \in [Link -> Nat] /\ uses'[l] = uses[l] + 1
    /\ \A k \in Link \ {l} : uses'[k] = uses[k]
    /\ UNCHANGED <<counters, shared, crossed>>

LEMMA VerifyFacts ==
    ASSUME ShapeOK, NEW r \in Reqs, Verify(r)
    PROVE  /\ At(r, "verify") /\ Used(r, 0)
           /\ verified' = TRUE /\ pending' = pending \ {0} /\ stored' = stored
<1>1. /\ At(r, "verify") /\ verified' = TRUE /\ pending' = pending \ {0}
      /\ uses' = [uses EXCEPT ![0] = @ + 1] /\ Finish(r) /\ Overtake({}, r)
      /\ UNCHANGED <<counters, stored, shared, crossed>>
  BY DEF Verify
<1>2. uses' \in [Link -> Nat] /\ uses'[0] = uses[0] + 1 /\ \A k \in Link \ {0} : uses'[k] = uses[k]
  BY <1>1, Numbers DEF ShapeOK
<1>3. QED
  BY <1>1, <1>2, FinishFacts, OvertakeFacts DEF Used

LEMMA ForgotFacts ==
    ASSUME ShapeOK, NEW r \in Reqs, Forgot(r)
    PROVE  /\ handler' \in [Reqs -> Locals]
           /\ At(r, "idle") /\ handler'[r].pc = "store"
           /\ \A q \in Reqs \ {r} : handler'[q] = handler[q]
           /\ late' \in [Reqs -> BOOLEAN] /\ \A q \in Reqs \ {r} : late'[q] <=> late[q]
           /\ UNCHANGED <<counters, links>>
<1>1. At(r, "idle") /\ Become(r, "store", 0, 0) /\ Overtake({}, r) /\ UNCHANGED <<counters, links>>
  BY DEF Forgot
<1>2. 0 \in 0..MaxFails /\ 0 \in Link
  BY Numbers
<1>3. QED
  BY <1>1, <1>2, BecomeFacts, OvertakeFacts

LEMMA StoreLinkFacts ==
    ASSUME ShapeOK, NEW r \in Reqs, StoreLink(r)
    PROVE  /\ handler' \in [Reqs -> Locals]
           /\ At(r, "store") /\ handler'[r].pc = "idle"
           /\ \A q \in Reqs \ {r} : handler'[q] = handler[q]
           /\ late' \in [Reqs -> BOOLEAN] /\ \A q \in Reqs \ {r} : late'[q] <=> late[q]
           /\ stored.newest + 1 \in Link
           /\ stored' = [newest |-> stored.newest + 1, held |-> stored.newest + 1]
           /\ pending' = (pending \cap {0}) \cup {stored.newest + 1}
           /\ crossed' \in SUBSET Link /\ crossed \subseteq crossed'
           /\ (\E q \in Reqs : At(q, "write")) => stored.newest + 1 \in crossed'
           /\ UNCHANGED <<counters, verified, uses, shared>>
<1> DEFINE l == stored.newest + 1
<1>1. /\ At(r, "store") /\ l \in Link /\ stored' = [newest |-> l, held |-> l]
      /\ pending' = (pending \cap {0}) \cup {l}
      /\ crossed' = IF \E q \in Reqs : At(q, "write") THEN crossed \cup {l} ELSE crossed
      /\ Finish(r) /\ Overtake({}, r) /\ UNCHANGED <<counters, verified, uses, shared>>
  BY DEF StoreLink
<1> HIDE DEF l
<1>2. /\ crossed' \in SUBSET Link /\ crossed \subseteq crossed'
      /\ (\E q \in Reqs : At(q, "write")) => l \in crossed'
  BY <1>1 DEF ShapeOK
<1>3. QED
  BY <1>1, <1>2, FinishFacts, OvertakeFacts DEF l

LEMMA ResetPasswordFacts ==
    ASSUME ShapeOK, NEW r \in Reqs, ResetPassword(r)
    PROVE  /\ At(r, "write") /\ Used(r, handler[r].link)
           /\ pending' = pending \cap {0}
           /\ stored' = [newest |-> stored.newest, held |-> 0] /\ verified' = verified
<1> DEFINE l == handler[r].link
<1>1. /\ At(r, "write") /\ pending' = pending \cap {0} /\ stored' = [stored EXCEPT !.held = 0]
      /\ uses' = [uses EXCEPT ![l] = @ + 1] /\ Finish(r) /\ Overtake({}, r)
      /\ UNCHANGED <<counters, verified, shared, crossed>>
  BY DEF ResetPassword, AfterReset
<1>2. l \in Link
  BY HandlerFacts
<1> HIDE DEF l
<1>3. uses' \in [Link -> Nat] /\ uses'[l] = uses[l] + 1 /\ \A k \in Link \ {l} : uses'[k] = uses[k]
  BY <1>1, <1>2 DEF ShapeOK
<1>4. stored' = [newest |-> stored.newest, held |-> 0]
  BY <1>1 DEF ShapeOK
<1>5. late' \in [Reqs -> BOOLEAN] /\ \A q \in Reqs \ {r} : late'[q] <=> late[q]
  BY <1>1, OvertakeFacts
<1>6. Used(r, l)
  BY <1>1, <1>3, <1>5, FinishFacts DEF Used
<1>7. QED
  BY <1>1, <1>4, <1>6 DEF l

(* Types, but for the uses of a link. *)
LEMMA InitShape ==
    ASSUME Init
    PROVE  ShapeOK
<1>1. Idle \in Locals /\ 0 \in Link /\ 0 \in 0..MaxFails /\ 0 \in 0..MaxCrashes
  BY LoginAssumption DEF Idle, Locals, Link
<1>2. QED
  BY <1>1 DEF Init, ShapeOK

LEMMA StepShape ==
    ASSUME ShapeOK, [Next]_vars
    PROVE  ShapeOK'
<1> USE DEF ShapeOK
<1>1. ASSUME NEW r \in Reqs, WrongPassword(r) PROVE ShapeOK'
  BY <1>1, WrongPasswordFacts DEF counters, links
<1>2. ASSUME NEW r \in Reqs, CountFailure(r) PROVE ShapeOK'
  <2>1. fails' \in 0..MaxFails
    BY <1>2, CountFailureFacts, Numbers
  <2>2. QED
    BY <1>2, <2>1, CountFailureFacts DEF links
<1>3. ASSUME NEW r \in Reqs, SetLock(r) PROVE ShapeOK'
  BY <1>3, SetLockFacts DEF links
<1>4. ASSUME NEW r \in Reqs, RightPassword(r) PROVE ShapeOK'
  BY <1>4, RightPasswordFacts DEF counters, links
<1>5. ASSUME NEW r \in Reqs, ClearFailures(r) PROVE ShapeOK'
  <2>1. fails' = 0 /\ crashed' = 0 /\ MaxFails \in Nat /\ MaxCrashes \in Nat
    BY <1>5, ClearFailuresFacts, Numbers
  <2>2. fails' \in 0..MaxFails /\ crashed' \in 0..MaxCrashes
    BY <2>1
  <2>3. QED
    BY <1>5, <2>2, ClearFailuresFacts DEF links
<1>6. ASSUME NEW r \in Reqs, Verify(r) PROVE ShapeOK'
  BY <1>6, VerifyFacts DEF Used, counters
<1>7. ASSUME NEW r \in Reqs, Forgot(r) PROVE ShapeOK'
  BY <1>7, ForgotFacts DEF counters, links
<1>8. ASSUME NEW r \in Reqs, StoreLink(r) PROVE ShapeOK'
  <2>1. pending' \in SUBSET Link /\ stored' \in [newest : Link, held : Link]
    BY <1>8, StoreLinkFacts
  <2>2. QED
    BY <1>8, <2>1, StoreLinkFacts DEF counters
<1>9. ASSUME NEW r \in Reqs, ResetPassword(r) PROVE ShapeOK'
  <2>1. pending' \in SUBSET Link /\ stored' \in [newest : Link, held : Link]
    BY <1>9, ResetPasswordFacts, Numbers
  <2>2. QED
    BY <1>9, <2>1, ResetPasswordFacts DEF Used, counters
<1>10. ASSUME NEW r \in Reqs, Abort(r) PROVE ShapeOK'
  <2>1. crashed' \in 0..MaxCrashes
    BY <1>10, AbortFacts, Numbers
  <2>2. QED
    BY <1>10, <2>1, AbortFacts DEF links
<1>11. ASSUME NEW r \in Reqs, NEW l \in Link, LookupLink(r, l) PROVE ShapeOK'
  BY <1>11, LookupLinkFacts DEF counters
<1>12. ASSUME LockEnds PROVE ShapeOK'
  BY <1>12 DEF LockEnds, links
<1>13. ASSUME NEW l \in Link, LinkExpires(l) PROVE ShapeOK'
  BY <1>13 DEF LinkExpires, counters
<1>14. CASE UNCHANGED vars
  BY <1>14 DEF vars
<1>15. QED
  BY <1>1, <1>2, <1>3, <1>4, <1>5, <1>6, <1>7, <1>8, <1>9, <1>10, <1>11, <1>12, <1>13, <1>14 DEF Next

-----------------------------------------------------------------------------
\* What a lock stands for

\* What a request that no login overtook knows: the count it read is still
\* reached, and the lock it is about to set is due.  A login about to lift a
\* lock in force was overtaken by it.
Informed(q) ==
    /\ At(q, "count") /\ ~late[q] => fails >= handler[q].seen
    /\ At(q, "lock") /\ ~late[q] => fails >= Threshold
    /\ At(q, "clear") /\ lock = "set" => late[q]

SoundInv ==
    /\ ShapeOK
    /\ \A q \in Reqs : Informed(q)
    /\ lock # "none" /\ ~strayed => fails >= Threshold

LEMMA InitSound ==
    ASSUME Init
    PROVE  SoundInv
<1>1. ShapeOK
  BY InitShape
<1>2. \A q \in Reqs : handler[q].pc = "idle"
  BY DEF Init, Idle
<1>3. QED
  BY <1>1, <1>2 DEF Init, SoundInv, Informed, At

(* A request the step leaves where it was, while the count does not go down  *)
(* and no lock is set.                                                       *)
LEMMA StillInformed ==
    ASSUME ShapeOK, ShapeOK', NEW q \in Reqs, Informed(q), handler'[q] = handler[q],
           late[q] => late'[q], fails' >= fails, lock' = "set" => lock = "set"
    PROVE  Informed(q)'
<1>1. /\ fails \in Nat /\ fails' \in Nat /\ Threshold \in Nat /\ handler[q].seen \in Nat
  BY Numbers, HandlerFacts DEF ShapeOK
<1>2. QED
  BY <1>1 DEF Informed, At

LEMMA StepSound ==
    ASSUME SoundInv, [Next]_vars
    PROVE  SoundInv'
<1>1. ShapeOK /\ ShapeOK' /\ \A q \in Reqs : Informed(q)
  BY StepShape DEF SoundInv
<1>2. /\ fails \in Nat /\ Threshold \in Nat \ {0} /\ MaxFails \in Nat
      /\ \A q \in Reqs : handler[q].seen \in Nat
  BY <1>1, Numbers, HandlerFacts
<1>3. lock # "none" /\ ~strayed => fails >= Threshold
  BY DEF SoundInv
<1>4. ASSUME NEW r \in Reqs, WrongPassword(r) PROVE SoundInv'
  <2>1. lock' = lock /\ fails' = fails /\ strayed' = strayed
    BY <1>1, <1>4, WrongPasswordFacts DEF counters
  <2>2. ASSUME NEW q \in Reqs PROVE Informed(q)'
    <3>1. CASE q = r
      <4>1. handler'[q].pc = "count" /\ handler'[q].seen = fails
        BY <1>1, <1>4, <3>1, WrongPasswordFacts
      <4>2. QED
        BY <1>2, <2>1, <4>1 DEF Informed, At
    <3>2. CASE q # r
      <4>1. handler'[q] = handler[q] /\ (late[q] => late'[q])
        BY <1>1, <1>4, <3>2, WrongPasswordFacts
      <4>2. QED
        BY <1>1, <1>2, <2>1, <4>1, StillInformed
    <3>3. QED
      BY <3>1, <3>2
  <2>3. QED
    BY <1>1, <1>3, <2>1, <2>2 DEF SoundInv
<1>5. ASSUME NEW r \in Reqs, CountFailure(r) PROVE SoundInv'
  <2>1. lock' = lock /\ fails' = fails + 1 /\ strayed' = strayed
    BY <1>1, <1>5, CountFailureFacts
  <2>2. ASSUME NEW q \in Reqs PROVE Informed(q)'
    <3>1. CASE q = r
      <4>1. CASE LockDue(handler[r].seen)
        <5>1. At(r, "count") /\ late' = late /\ handler'[q].pc = "lock" /\ handler[r].seen + 1 >= Threshold
          BY <1>1, <1>5, <3>1, <4>1, CountFailureFacts DEF LockDue
        <5>2. ~late[r] => fails >= handler[r].seen
          BY <1>1, <5>1 DEF Informed
        <5>3. ~late'[q] => fails' >= Threshold
          BY <1>2, <2>1, <3>1, <5>1, <5>2
        <5>4. QED
          BY <5>1, <5>3 DEF Informed, At
      <4>2. CASE ~LockDue(handler[r].seen)
        <5>1. handler'[q].pc = "idle"
          BY <1>1, <1>5, <3>1, <4>2, CountFailureFacts
        <5>2. QED
          BY <5>1 DEF Informed, At
      <4>3. QED
        BY <4>1, <4>2
    <3>2. CASE q # r
      <4>1. handler'[q] = handler[q] /\ (late[q] => late'[q])
        BY <1>1, <1>5, <3>2, CountFailureFacts
      <4>2. fails' >= fails
        BY <1>2, <2>1
      <4>3. QED
        BY <1>1, <2>1, <4>1, <4>2, StillInformed
    <3>3. QED
      BY <3>1, <3>2
  <2>3. lock' # "none" /\ ~strayed' => fails' >= Threshold
    BY <1>2, <1>3, <2>1
  <2>4. QED
    BY <1>1, <2>2, <2>3 DEF SoundInv
<1>6. ASSUME NEW r \in Reqs, SetLock(r) PROVE SoundInv'
  <2>1. lock' = "set" /\ fails' = fails /\ (~strayed' => ~late[r]) /\ At(r, "lock")
    BY <1>1, <1>6, SetLockFacts
  <2>2. ~strayed' => fails' >= Threshold
    BY <1>1, <2>1 DEF Informed
  <2>3. ASSUME NEW q \in Reqs PROVE Informed(q)'
    <3>1. CASE q = r
      <4>1. handler'[q].pc = "idle"
        BY <1>1, <1>6, <3>1, SetLockFacts
      <4>2. QED
        BY <4>1 DEF Informed, At
    <3>2. CASE q # r
      <4>1. handler'[q] = handler[q] /\ (late'[q] <=> late[q] \/ At(q, "clear"))
        BY <1>1, <1>6, <3>2, SetLockFacts
      <4>2. Informed(q)
        BY <1>1
      <4>3. QED
        BY <2>1, <4>1, <4>2 DEF Informed, At
    <3>3. QED
      BY <3>1, <3>2
  <2>4. QED
    BY <1>1, <2>2, <2>3 DEF SoundInv
<1>7. ASSUME NEW r \in Reqs, RightPassword(r) PROVE SoundInv'
  <2>1. lock' = lock /\ lock # "set" /\ fails' = fails /\ strayed' = strayed
    BY <1>1, <1>7, RightPasswordFacts DEF counters
  <2>2. ASSUME NEW q \in Reqs PROVE Informed(q)'
    <3>1. CASE q = r
      <4>1. handler'[q].pc = "clear"
        BY <1>1, <1>7, <3>1, RightPasswordFacts
      <4>2. QED
        BY <2>1, <4>1 DEF Informed, At
    <3>2. CASE q # r
      <4>1. handler'[q] = handler[q] /\ (late[q] => late'[q])
        BY <1>1, <1>7, <3>2, RightPasswordFacts
      <4>2. QED
        BY <1>1, <1>2, <2>1, <4>1, StillInformed
    <3>3. QED
      BY <3>1, <3>2
  <2>3. QED
    BY <1>1, <1>3, <2>1, <2>2 DEF SoundInv
<1>8. ASSUME NEW r \in Reqs, ClearFailures(r) PROVE SoundInv'
  <2>1. lock' = "none" /\ handler'[r].pc = "idle"
    BY <1>1, <1>8, ClearFailuresFacts
  <2>2. ASSUME NEW q \in Reqs PROVE Informed(q)'
    <3>1. CASE q = r
      BY <2>1, <3>1 DEF Informed, At
    <3>2. CASE q # r
      <4>1. handler'[q] = handler[q] /\ (late'[q] <=> late[q] \/ At(q, "count") \/ At(q, "lock"))
        BY <1>1, <1>8, <3>2, ClearFailuresFacts
      <4>2. QED
        BY <2>1, <4>1 DEF Informed, At
    <3>3. QED
      BY <3>1, <3>2
  <2>3. QED
    BY <1>1, <2>1, <2>2 DEF SoundInv
<1>9. ASSUME NEW r \in Reqs, handler'[r].pc \in {"idle", "verify", "write", "store"},
             \A q \in Reqs \ {r} : handler'[q] = handler[q] /\ (late'[q] <=> late[q]),
             UNCHANGED <<fails, lock, strayed>>
      PROVE  SoundInv'
  <2>1. ASSUME NEW q \in Reqs PROVE Informed(q)'
    <3>1. CASE q = r
      BY <1>9, <3>1 DEF Informed, At
    <3>2. CASE q # r
      <4>1. handler'[q] = handler[q] /\ (late[q] => late'[q]) /\ fails' = fails /\ lock' = lock
        BY <1>9, <3>2
      <4>2. QED
        BY <1>1, <1>2, <4>1, StillInformed
    <3>3. QED
      BY <3>1, <3>2
  <2>2. QED
    BY <1>1, <1>3, <1>9, <2>1 DEF SoundInv
<1>10. ASSUME NEW r \in Reqs, Verify(r) PROVE SoundInv'
  BY <1>1, <1>9, <1>10, VerifyFacts DEF Used, counters
<1>11. ASSUME NEW r \in Reqs, Forgot(r) PROVE SoundInv'
  BY <1>1, <1>9, <1>11, ForgotFacts DEF counters
<1>12. ASSUME NEW r \in Reqs, StoreLink(r) PROVE SoundInv'
  BY <1>1, <1>9, <1>12, StoreLinkFacts DEF counters
<1>13. ASSUME NEW r \in Reqs, ResetPassword(r) PROVE SoundInv'
  BY <1>1, <1>9, <1>13, ResetPasswordFacts DEF Used, counters
<1>14. ASSUME NEW r \in Reqs, Abort(r) PROVE SoundInv'
  BY <1>1, <1>9, <1>14, AbortFacts
<1>15. ASSUME NEW r \in Reqs, NEW l \in Link, LookupLink(r, l) PROVE SoundInv'
  <2>1. /\ handler'[r].pc \in {"verify", "write"}
        /\ \A q \in Reqs \ {r} : handler'[q] = handler[q] /\ (late'[q] <=> late[q])
        /\ UNCHANGED counters
    BY <1>1, <1>15, LookupLinkFacts
  <2>2. QED
    BY <1>9, <2>1 DEF counters
<1>16. ASSUME LockEnds PROVE SoundInv'
  <2>1. /\ lock = "set" /\ lock' = "past" /\ fails' = fails /\ strayed' = strayed
        /\ handler' = handler /\ late' = late
    BY <1>16 DEF LockEnds
  <2>2. ASSUME NEW q \in Reqs PROVE Informed(q)'
    BY <1>1, <1>2, <2>1, StillInformed
  <2>3. QED
    BY <1>1, <1>3, <2>1, <2>2 DEF SoundInv
<1>17. ASSUME UNCHANGED <<fails, lock, strayed, handler, late>> PROVE SoundInv'
  <2>1. ASSUME NEW q \in Reqs PROVE Informed(q)'
    BY <1>1, <1>2, <1>17, StillInformed
  <2>2. QED
    BY <1>1, <1>3, <1>17, <2>1 DEF SoundInv
<1>18. ASSUME NEW l \in Link, LinkExpires(l) PROVE SoundInv'
  BY <1>17, <1>18 DEF LinkExpires, counters
<1>19. CASE UNCHANGED vars
  BY <1>17, <1>19 DEF vars
<1>20. QED
  BY <1>4, <1>5, <1>6, <1>7, <1>8, <1>10, <1>11, <1>12, <1>13, <1>14, <1>15, <1>16, <1>18, <1>19 DEF Next

(* LockIsSound (routes/auth.js:100-112), for every number of requests and    *)
(* every threshold: a lock stands for Threshold wrong attempts unless a      *)
(* login overtook the attempt that set it, and a login that lifts a lock in  *)
(* force read the row before it was set.                                     *)
THEOREM LockHasGrounds == Spec => []LockIsSound
<1>1. SoundInv => LockIsSound
  BY DEF SoundInv, Informed, LockIsSound
<1>2. QED
  BY <1>1, InitSound, StepSound, PTL DEF Spec

-----------------------------------------------------------------------------
\* How many wrong passwords get in before the lock

\* The attempts in flight that will be counted and not lock, by the count they
\* read.
NotDue == {q \in Reqs : At(q, "count") /\ ~LockDue(handler[q].seen)}

\* LockEngages, counting the attempts still to be counted that will not lock.
EngageInv ==
    /\ ShapeOK
    /\ lock = "none" => fails + Cardinality(NotDue) <= Threshold - 2 + N + Cardinality(Locking) + crashed

(* Sets of requests. *)
LEMMA RequestSets ==
    ASSUME NEW S \in SUBSET Reqs
    PROVE  IsFiniteSet(S) /\ Cardinality(S) \in Nat /\ N \in Nat /\ Cardinality(S) <= N
  BY LoginAssumption, FS_Subset, FS_CardinalityType DEF N

LEMMA InOneMore ==
    ASSUME NEW S \in SUBSET Reqs, NEW r \in Reqs, r \notin S
    PROVE  Cardinality(S \cup {r}) = Cardinality(S) + 1
  BY RequestSets, FS_AddElement

LEMMA OutOneLess ==
    ASSUME NEW S \in SUBSET Reqs, NEW r \in S
    PROVE  Cardinality(S \ {r}) = Cardinality(S) - 1
  BY RequestSets, FS_RemoveElement

LEMMA SomeRequest == N >= 1
<1>1. PICK r \in Reqs : TRUE
  BY LoginAssumption
<1>2. IsFiniteSet({}) /\ Cardinality({}) = 0
  BY FS_EmptySet
<1>3. Cardinality({} \cup {r}) = 1
  BY <1>1, <1>2, InOneMore
<1>4. QED
  BY <1>1, <1>3, RequestSets

(* What the invariant is about, as numbers. *)
LEMMA AttemptNumbers ==
    ASSUME ShapeOK
    PROVE  /\ Cardinality(NotDue) \in Nat /\ Cardinality(Locking) \in Nat /\ Cardinality(NotDue) <= N
           /\ fails \in Nat /\ crashed \in Nat /\ N \in Nat /\ N >= 1 /\ Threshold \in Nat \ {0}
<1>1. NotDue \in SUBSET Reqs /\ Locking \in SUBSET Reqs
  BY DEF NotDue, Locking
<1>2. QED
  BY <1>1, RequestSets, SomeRequest, Numbers

LEMMA InitEngage ==
    ASSUME Init
    PROVE  EngageInv
<1>1. ShapeOK
  BY InitShape
<1>2. NotDue = {} /\ Cardinality({}) = 0
  <2>1. \A q \in Reqs : handler[q].pc = "idle"
    BY DEF Init, Idle
  <2>2. NotDue = {}
    BY <2>1 DEF NotDue, At
  <2>3. QED
    BY <2>2, FS_EmptySet
<1>3. fails = 0
  BY DEF Init
<1>4. Cardinality(NotDue) = 0
  BY <1>2
<1>5. fails + Cardinality(NotDue) <= Threshold - 2 + N + Cardinality(Locking) + crashed
  BY <1>1, <1>3, <1>4, AttemptNumbers
<1>6. QED
  BY <1>1, <1>5 DEF EngageInv

(* A step of a request that is not in the middle of an attempt, before or    *)
(* after it.                                                                 *)
LEMMA NoAttempt ==
    ASSUME NEW r \in Reqs,
           handler[r].pc \notin {"count", "lock"}, handler'[r].pc \notin {"count", "lock"},
           \A q \in Reqs \ {r} : handler'[q] = handler[q]
    PROVE  NotDue' = NotDue /\ Locking' = Locking
<1>1. ASSUME NEW q \in Reqs
      PROVE  /\ At(q, "count")' <=> At(q, "count")
             /\ At(q, "lock")' <=> At(q, "lock")
             /\ At(q, "count") => handler'[q].seen = handler[q].seen
  BY DEF At
<1>2. QED
  BY <1>1 DEF NotDue, Locking, LockDue

LEMMA StepEngage ==
    ASSUME EngageInv, [Next]_vars
    PROVE  EngageInv'
<1>1. ShapeOK /\ ShapeOK'
  BY StepShape DEF EngageInv
<1>2. /\ Cardinality(NotDue) \in Nat /\ Cardinality(Locking) \in Nat
      /\ fails \in Nat /\ crashed \in Nat /\ N \in Nat /\ N >= 1 /\ Threshold \in Nat \ {0}
  BY <1>1, AttemptNumbers
<1>3. /\ Cardinality(NotDue') \in Nat /\ Cardinality(Locking') \in Nat /\ Cardinality(NotDue') <= N
      /\ fails' \in Nat /\ crashed' \in Nat
  <2>1. NotDue' \in SUBSET Reqs /\ Locking' \in SUBSET Reqs
    BY DEF NotDue, Locking
  <2>2. QED
    BY <1>1, <2>1, RequestSets DEF ShapeOK
<1>4. NotDue \in SUBSET Reqs /\ Locking \in SUBSET Reqs
  BY DEF NotDue, Locking
<1>5. lock = "none" => fails + Cardinality(NotDue) <= Threshold - 2 + N + Cardinality(Locking) + crashed
  BY DEF EngageInv
<1>6. ASSUME UNCHANGED <<fails, lock, crashed>>, NotDue' = NotDue, Locking' = Locking
      PROVE  EngageInv'
  BY <1>1, <1>5, <1>6 DEF EngageInv
<1>7. ASSUME NEW r \in Reqs, WrongPassword(r) PROVE EngageInv'
  <2>1. /\ At(r, "idle") /\ handler'[r].pc = "count" /\ handler'[r].seen = fails
        /\ \A q \in Reqs \ {r} : handler'[q] = handler[q]
        /\ UNCHANGED <<fails, lock, crashed>>
    BY <1>1, <1>7, WrongPasswordFacts DEF counters
  <2>2. Locking' = Locking
    BY <2>1 DEF Locking, At
  <2>3. CASE LockDue(fails)
    <3>1. NotDue' = NotDue
      BY <2>1, <2>3 DEF NotDue, At, LockDue
    <3>2. QED
      BY <1>6, <2>1, <2>2, <3>1
  <2>4. CASE ~LockDue(fails)
    <3>1. fails <= Threshold - 2
      BY <1>2, <2>4 DEF LockDue
    <3>2. fails' + Cardinality(NotDue') <= Threshold - 2 + N + Cardinality(Locking') + crashed'
      BY <1>2, <1>3, <2>1, <2>2, <3>1
    <3>3. QED
      BY <1>1, <3>2 DEF EngageInv, N
  <2>5. QED
    BY <2>3, <2>4
<1>8. ASSUME NEW r \in Reqs, CountFailure(r) PROVE EngageInv'
  <2>1. /\ At(r, "count") /\ handler'[r].pc = (IF LockDue(handler[r].seen) THEN "lock" ELSE "idle")
        /\ \A q \in Reqs \ {r} : handler'[q] = handler[q]
        /\ fails' = fails + 1 /\ lock' = lock /\ crashed' = crashed
    BY <1>1, <1>8, CountFailureFacts
  <2>2. CASE LockDue(handler[r].seen)
    <3>1. NotDue' = NotDue
      BY <2>1, <2>2 DEF NotDue, At, LockDue
    <3>2. Locking' = Locking \cup {r} /\ r \notin Locking
      BY <2>1, <2>2 DEF Locking, At
    <3>3. Cardinality(Locking') = Cardinality(Locking) + 1
      BY <1>4, <3>2, InOneMore
    <3>4. lock' = "none"
            => fails' + Cardinality(NotDue') <= Threshold - 2 + N + Cardinality(Locking') + crashed'
      BY <1>2, <1>5, <2>1, <3>1, <3>3
    <3>5. QED
      BY <1>1, <3>4 DEF EngageInv, N
  <2>3. CASE ~LockDue(handler[r].seen)
    <3>1. Locking' = Locking
      BY <2>1, <2>3 DEF Locking, At
    <3>2. NotDue' = NotDue \ {r} /\ r \in NotDue
      BY <2>1, <2>3 DEF NotDue, At, LockDue
    <3>3. Cardinality(NotDue') = Cardinality(NotDue) - 1
      BY <1>4, <3>2, OutOneLess
    <3>4. lock' = "none"
            => fails' + Cardinality(NotDue') <= Threshold - 2 + N + Cardinality(Locking') + crashed'
      BY <1>2, <1>5, <2>1, <3>1, <3>3
    <3>5. QED
      BY <1>1, <3>4 DEF EngageInv, N
  <2>4. QED
    BY <2>2, <2>3
<1>9. ASSUME NEW r \in Reqs, SetLock(r) PROVE EngageInv'
  <2>1. lock' = "set"
    BY <1>1, <1>9, SetLockFacts
  <2>2. QED
    BY <1>1, <2>1 DEF EngageInv
<1>10. ASSUME NEW r \in Reqs, ClearFailures(r) PROVE EngageInv'
  <2>1. At(r, "clear") /\ handler'[r].pc = "idle" /\ fails' = 0 /\ crashed' = 0
    BY <1>1, <1>10, ClearFailuresFacts
  <2>2. NotDue' \in SUBSET (Reqs \ {r})
    BY <2>1 DEF NotDue, At
  <2>3. Reqs \ {r} \in SUBSET Reqs /\ IsFiniteSet(Reqs \ {r}) /\ Cardinality(Reqs \ {r}) = N - 1
    BY RequestSets, OutOneLess DEF N
  <2>4. Cardinality(NotDue') <= N - 1
    BY <2>2, <2>3, FS_Subset
  <2>5. fails' + Cardinality(NotDue') <= Threshold - 2 + N + Cardinality(Locking') + crashed'
    BY <1>2, <1>3, <2>1, <2>4
  <2>6. QED
    BY <1>1, <2>5 DEF EngageInv, N
<1>11. ASSUME NEW r \in Reqs, RightPassword(r) PROVE EngageInv'
  <2>1. /\ At(r, "idle") /\ handler'[r].pc = "clear"
        /\ \A q \in Reqs \ {r} : handler'[q] = handler[q]
        /\ UNCHANGED <<fails, lock, crashed>>
    BY <1>1, <1>11, RightPasswordFacts DEF counters
  <2>2. QED
    BY <1>6, <2>1, NoAttempt DEF At
<1>12. ASSUME NEW r \in Reqs, Verify(r) PROVE EngageInv'
  <2>1. /\ At(r, "verify") /\ handler'[r].pc = "idle"
        /\ \A q \in Reqs \ {r} : handler'[q] = handler[q]
        /\ UNCHANGED <<fails, lock, crashed>>
    BY <1>1, <1>12, VerifyFacts DEF Used, counters
  <2>2. QED
    BY <1>6, <2>1, NoAttempt DEF At
<1>13. ASSUME NEW r \in Reqs, Forgot(r) PROVE EngageInv'
  <2>1. /\ At(r, "idle") /\ handler'[r].pc = "store"
        /\ \A q \in Reqs \ {r} : handler'[q] = handler[q]
        /\ UNCHANGED <<fails, lock, crashed>>
    BY <1>1, <1>13, ForgotFacts DEF counters
  <2>2. QED
    BY <1>6, <2>1, NoAttempt DEF At
<1>14. ASSUME NEW r \in Reqs, StoreLink(r) PROVE EngageInv'
  <2>1. /\ At(r, "store") /\ handler'[r].pc = "idle"
        /\ \A q \in Reqs \ {r} : handler'[q] = handler[q]
        /\ UNCHANGED <<fails, lock, crashed>>
    BY <1>1, <1>14, StoreLinkFacts DEF counters
  <2>2. QED
    BY <1>6, <2>1, NoAttempt DEF At
<1>15. ASSUME NEW r \in Reqs, ResetPassword(r) PROVE EngageInv'
  <2>1. /\ At(r, "write") /\ handler'[r].pc = "idle"
        /\ \A q \in Reqs \ {r} : handler'[q] = handler[q]
        /\ UNCHANGED <<fails, lock, crashed>>
    BY <1>1, <1>15, ResetPasswordFacts DEF Used, counters
  <2>2. QED
    BY <1>6, <2>1, NoAttempt DEF At
<1>16. ASSUME NEW r \in Reqs, NEW l \in Link, LookupLink(r, l) PROVE EngageInv'
  <2>1. /\ At(r, "idle") /\ handler'[r].pc \in {"verify", "write"}
        /\ \A q \in Reqs \ {r} : handler'[q] = handler[q]
        /\ UNCHANGED <<fails, lock, crashed>>
    BY <1>1, <1>16, LookupLinkFacts DEF counters
  <2>2. QED
    BY <1>6, <2>1, NoAttempt DEF At
<1>17. ASSUME NEW r \in Reqs, Abort(r) PROVE EngageInv'
  <2>1. /\ handler'[r].pc = "idle" /\ \A q \in Reqs \ {r} : handler'[q] = handler[q]
        /\ UNCHANGED <<fails, lock>>
        /\ At(r, "lock") => crashed' = crashed + 1
        /\ ~At(r, "lock") => crashed' = crashed
    BY <1>1, <1>17, AbortFacts
  <2>2. CASE At(r, "lock")
    <3>1. NotDue' = NotDue
      BY <2>1, <2>2 DEF NotDue, At, LockDue
    <3>2. Locking' = Locking \ {r} /\ r \in Locking
      BY <2>1, <2>2 DEF Locking, At
    <3>3. Cardinality(Locking') = Cardinality(Locking) - 1
      BY <1>4, <3>2, OutOneLess
    <3>4. lock' = "none"
            => fails' + Cardinality(NotDue') <= Threshold - 2 + N + Cardinality(Locking') + crashed'
      BY <1>2, <1>5, <2>1, <2>2, <3>1, <3>3
    <3>5. QED
      BY <1>1, <3>4 DEF EngageInv, N
  <2>3. CASE At(r, "count")
    <3>1. Locking' = Locking /\ NotDue' \in SUBSET NotDue
      BY <2>1, <2>3 DEF NotDue, Locking, At, LockDue
    <3>2. Cardinality(NotDue') <= Cardinality(NotDue)
      BY <1>4, <3>1, RequestSets, FS_Subset
    <3>3. crashed' = crashed
      BY <2>1, <2>3 DEF At
    <3>4. lock' = "none"
            => fails' + Cardinality(NotDue') <= Threshold - 2 + N + Cardinality(Locking') + crashed'
      BY <1>2, <1>3, <1>5, <2>1, <3>1, <3>2, <3>3
    <3>5. QED
      BY <1>1, <3>4 DEF EngageInv, N
  <2>4. CASE ~At(r, "lock") /\ ~At(r, "count")
    BY <1>6, <2>1, <2>4, NoAttempt DEF At
  <2>5. QED
    BY <2>2, <2>3, <2>4
<1>18. ASSUME LockEnds PROVE EngageInv'
  <2>1. lock' = "past"
    BY <1>18 DEF LockEnds
  <2>2. QED
    BY <1>1, <2>1 DEF EngageInv
<1>19. ASSUME UNCHANGED <<fails, lock, crashed, handler>> PROVE EngageInv'
  BY <1>6, <1>19 DEF NotDue, Locking, At, LockDue
<1>20. ASSUME NEW l \in Link, LinkExpires(l) PROVE EngageInv'
  BY <1>19, <1>20 DEF LinkExpires, counters
<1>21. CASE UNCHANGED vars
  BY <1>19, <1>21 DEF vars
<1>22. QED
  BY <1>7, <1>8, <1>9, <1>10, <1>11, <1>12, <1>13, <1>14, <1>15, <1>16, <1>17, <1>18, <1>20, <1>21 DEF Next

(* LockEngages (routes/auth.js:99-101): while no lock was set since the last *)
(* login, the wrong attempts counted exceed the threshold by no more than    *)
(* those in flight together, those about to lock and those cut off, for      *)
(* every threshold and every number of requests.                             *)
THEOREM LockComesInTime == Spec => []LockEngages
<1>1. EngageInv => LockEngages
  <2>1. SUFFICES ASSUME EngageInv, lock = "none"
                 PROVE  fails <= Threshold - 2 + N + Cardinality(Locking) + crashed
    BY DEF LockEngages
  <2>2. fails + Cardinality(NotDue) <= Threshold - 2 + N + Cardinality(Locking) + crashed /\ ShapeOK
    BY <2>1 DEF EngageInv
  <2>3. QED
    BY <2>2, AttemptNumbers
<1>2. QED
  BY <1>1, InitEngage, StepEngage, PTL DEF Spec

-----------------------------------------------------------------------------
\* The mailed links

\* A request holds the verification link, or a reset link that is the newest
\* or that the newest crossed.
HeldLink(q) ==
    /\ At(q, "verify") => handler[q].link = 0
    /\ At(q, "write") => /\ handler[q].link \in 1..stored.newest
                         /\ handler[q].link # stored.newest => stored.newest \in crossed

\* A link: the row holds it only unused; two requests hold it, or one holds it
\* that was used, only if two held it at once; and a use spends a request's
\* hold, so it is used at most once by each request that held it.
LinkUse(l) ==
    /\ l \in pending => uses[l] = 0 /\ l \in {0, stored.newest}
    /\ l > stored.newest => uses[l] = 0
    /\ \A q, p \in Holders(l) : q # p => l \in shared
    /\ uses[l] >= 1 /\ Holders(l) # {} => l \in shared
    /\ uses[l] >= 2 => l \in shared
    /\ uses[l] + Cardinality(Holders(l)) <= N

\* The newest reset link is in the row until it is used, but for a reset with
\* an older one.
NewestKept ==
    stored.newest > 0 /\ uses[stored.newest] = 0 /\ stored.newest \notin crossed => stored.held = stored.newest

LinkInv ==
    /\ ShapeOK
    /\ \A q \in Reqs : HeldLink(q)
    /\ \A l \in Link : LinkUse(l)
    /\ NewestKept

(* Links as numbers. *)
LEMMA LinkNumbers ==
    ASSUME ShapeOK, NEW l \in Link
    PROVE  /\ l \in Nat /\ uses[l] \in Nat /\ stored.newest \in Nat /\ N \in Nat /\ N >= 1
           /\ Holders(l) \in SUBSET Reqs /\ Cardinality(Holders(l)) \in Nat /\ Cardinality(Holders(l)) <= N
<1>1. Holders(l) \in SUBSET Reqs
  BY DEF Holders
<1>2. l \in Nat /\ uses[l] \in Nat
  BY Numbers DEF Link, ShapeOK
<1>3. QED
  BY <1>1, <1>2, Numbers, RequestSets, SomeRequest

LEMMA InitLink ==
    ASSUME Init
    PROVE  LinkInv
<1>1. ShapeOK
  BY InitShape
<1>2. \A q \in Reqs : handler[q].pc = "idle"
  BY DEF Init, Idle
<1>3. /\ \A l \in Link : uses[l] = 0
      /\ pending = {0} /\ stored.newest = 0 /\ stored.held = 0
  BY DEF Init
<1>4. ASSUME NEW l \in Link PROVE LinkUse(l)
  <2>1. Holders(l) = {} /\ Cardinality({}) = 0
    BY <1>2, FS_EmptySet DEF Holders
  <2>2. QED
    BY <1>1, <1>3, <2>1, LinkNumbers DEF LinkUse
<1>5. QED
  BY <1>1, <1>2, <1>3, <1>4 DEF LinkInv, HeldLink, NewestKept, At

(* A request lets go of what it holds and uses nothing, and so do steps of   *)
(* requests that hold no link.                                               *)
LEMMA NoLinkUsed ==
    ASSUME LinkInv, ShapeOK', NEW r \in Reqs, handler'[r].pc \notin {"verify", "write"},
           \A q \in Reqs \ {r} : handler'[q] = handler[q],
           pending' \subseteq pending, UNCHANGED <<stored, uses, shared, crossed>>
    PROVE  LinkInv'
<1>1. ASSUME NEW q \in Reqs PROVE HeldLink(q)'
  <2>1. HeldLink(q)
    BY DEF LinkInv
  <2>2. QED
    BY <2>1 DEF HeldLink, At
<1>2. ASSUME NEW l \in Link PROVE LinkUse(l)'
  <2>1. LinkUse(l) /\ ShapeOK
    BY DEF LinkInv
  <2>2. Holders(l)' \subseteq Holders(l)
    BY DEF Holders
  <2>3. Cardinality(Holders(l)') <= Cardinality(Holders(l)) /\ Cardinality(Holders(l)') \in Nat
    BY <2>1, <2>2, LinkNumbers, RequestSets, FS_Subset
  <2>4. uses[l] + Cardinality(Holders(l)') <= N
    BY <2>1, <2>3, LinkNumbers DEF LinkUse
  <2>5. /\ l \in pending' => uses'[l] = 0 /\ l \in {0, stored'.newest}
        /\ l > stored'.newest => uses'[l] = 0
        /\ uses'[l] >= 2 => l \in shared'
    BY <2>1 DEF LinkUse
  <2>6. /\ \A q, p \in Holders(l)' : q # p => l \in shared'
        /\ uses'[l] >= 1 /\ Holders(l)' # {} => l \in shared'
    BY <2>1, <2>2 DEF LinkUse
  <2>7. QED
    BY <2>4, <2>5, <2>6 DEF LinkUse, N
<1>3. NewestKept'
  BY DEF LinkInv, NewestKept
<1>4. QED
  BY <1>1, <1>2, <1>3 DEF LinkInv

(* A link is used by a request that held it; the row holds it no longer.     *)
LEMMA LinkUsed ==
    ASSUME LinkInv, ShapeOK', NEW r \in Reqs, NEW l \in Link, r \in Holders(l), Used(r, l),
           pending' \subseteq pending \ {l}, stored'.newest = stored.newest, NewestKept'
    PROVE  LinkInv'
<1>1. ShapeOK /\ \A k \in Link : LinkUse(k)
  BY DEF LinkInv
<1>2. /\ handler'[r].pc = "idle" /\ \A q \in Reqs \ {r} : handler'[q] = handler[q]
      /\ uses'[l] = uses[l] + 1 /\ \A k \in Link \ {l} : uses'[k] = uses[k]
      /\ shared' = shared /\ crossed' = crossed
  BY DEF Used
<1>3. ASSUME NEW q \in Reqs PROVE HeldLink(q)'
  <2>1. HeldLink(q)
    BY DEF LinkInv
  <2>2. QED
    BY <1>2, <2>1 DEF HeldLink, At
<1>4. ASSUME NEW k \in Link PROVE LinkUse(k)'
  <2>1. LinkUse(k)
    BY <1>1
  <2>2. CASE k # l
    <3>1. Holders(k)' = Holders(k)
      BY <1>2, <2>2 DEF Holders
    <3>2. uses'[k] = uses[k] /\ (k \in pending' => k \in pending)
      BY <1>2, <2>2
    <3>3. QED
      BY <1>2, <2>1, <3>1, <3>2 DEF LinkUse, N
  <2>3. CASE k = l
    <3>1. Holders(l)' = Holders(l) \ {r}
      BY <1>2 DEF Holders
    <3>2. Cardinality(Holders(l)') = Cardinality(Holders(l)) - 1
      BY <1>1, <3>1, LinkNumbers, OutOneLess
    <3>3. uses'[l] + Cardinality(Holders(l)') <= N
      BY <1>1, <1>2, <2>1, <2>3, <3>2, LinkNumbers DEF LinkUse
    <3>4. l \notin pending' /\ ~(l > stored'.newest)
      <4>1. HeldLink(r) /\ (At(r, "verify") \/ At(r, "write")) /\ handler[r].link = l
        BY DEF LinkInv, Holders, At
      <4>2. l \in Nat /\ stored.newest \in Nat
        BY <1>1, LinkNumbers
      <4>3. CASE At(r, "verify")
        BY <4>1, <4>2, <4>3 DEF HeldLink
      <4>4. CASE At(r, "write")
        BY <4>1, <4>2, <4>4 DEF HeldLink
      <4>5. QED
        BY <4>1, <4>3, <4>4
    <3>5. Holders(l)' # {} => l \in shared
      <4>1. SUFFICES ASSUME NEW q \in Holders(l) \ {r} PROVE l \in shared
        BY <3>1
      <4>2. QED
        BY <2>1, <2>3, <4>1 DEF LinkUse
    <3>6. uses'[l] >= 2 => l \in shared
      <4>1. uses[l] \in Nat
        BY <1>1, LinkNumbers
      <4>2. uses'[l] >= 2 => uses[l] >= 1
        BY <1>2, <4>1
      <4>3. QED
        BY <2>1, <2>3, <4>2 DEF LinkUse
    <3>7. \A q, p \in Holders(l)' : q # p => l \in shared
      BY <3>5
    <3>8. LinkUse(l)'
      BY <1>2, <3>3, <3>4, <3>5, <3>6, <3>7 DEF LinkUse, N
    <3>9. QED
      BY <2>3, <3>8
  <2>4. QED
    BY <2>2, <2>3
<1>5. QED
  BY <1>3, <1>4 DEF LinkInv

(* A link is looked up. *)
LEMMA LinkLookedUp ==
    ASSUME LinkInv, ShapeOK', NEW r \in Reqs, NEW l \in Link, LookupLink(r, l)
    PROVE  LinkInv'
<1>1. ShapeOK /\ \A k \in Link : LinkUse(k)
  BY DEF LinkInv
<1>2. /\ At(r, "idle") /\ handler'[r].pc = (IF l = 0 THEN "verify" ELSE "write") /\ handler'[r].link = l
      /\ \A q \in Reqs \ {r} : handler'[q] = handler[q]
      /\ l \in pending /\ shared \subseteq shared' /\ (Holders(l) # {} => l \in shared')
      /\ UNCHANGED <<pending, stored, uses, crossed>>
  BY <1>1, LookupLinkFacts
<1>3. uses[l] = 0 /\ l \in {0, stored.newest} /\ l \in Nat
  BY <1>1, <1>2, LinkNumbers DEF LinkUse
<1>4. ASSUME NEW q \in Reqs PROVE HeldLink(q)'
  <2>1. CASE q = r
    <3>1. l # 0 => l \in 1..stored.newest /\ l = stored.newest
      BY <1>3
    <3>2. QED
      BY <1>2, <2>1, <3>1 DEF HeldLink, At
  <2>2. CASE q # r
    <3>1. HeldLink(q) /\ handler'[q] = handler[q]
      BY <1>2, <2>2 DEF LinkInv
    <3>2. QED
      BY <1>2, <3>1 DEF HeldLink, At
  <2>3. QED
    BY <2>1, <2>2
<1>5. ASSUME NEW k \in Link PROVE LinkUse(k)'
  <2>1. LinkUse(k)
    BY <1>1
  <2>2. CASE k # l
    <3>1. Holders(k)' = Holders(k)
      BY <1>2, <2>2 DEF Holders, At
    <3>2. QED
      BY <1>2, <2>1, <3>1 DEF LinkUse, N
  <2>3. CASE k = l
    <3>1. Holders(l)' \subseteq Holders(l) \cup {r} /\ Holders(l)' \in SUBSET Reqs
      BY <1>2 DEF Holders
    <3>2. uses'[l] = 0 /\ N \in Nat /\ Cardinality(Holders(l)') \in Nat /\ Cardinality(Holders(l)') <= N
      BY <1>2, <1>3, <3>1, RequestSets
    <3>3. uses'[l] + Cardinality(Holders(l)') <= N
      BY <3>2
    <3>4. \A q, p \in Holders(l)' : q # p => l \in shared'
      BY <1>2, <3>1
    <3>5. l \in {0, stored'.newest}
      BY <1>2, <1>3
    <3>6. LinkUse(l)'
      BY <3>2, <3>3, <3>4, <3>5 DEF LinkUse, N
    <3>7. QED
      BY <2>3, <3>6
  <2>4. QED
    BY <2>2, <2>3
<1>6. NewestKept'
  BY <1>2 DEF LinkInv, NewestKept
<1>7. QED
  BY <1>4, <1>5, <1>6 DEF LinkInv

(* A reset link is stored, over the one before. *)
LEMMA LinkStored ==
    ASSUME LinkInv, ShapeOK', NEW r \in Reqs, StoreLink(r)
    PROVE  LinkInv'
<1> DEFINE n == stored.newest + 1
<1>1. ShapeOK /\ \A k \in Link : LinkUse(k)
  BY DEF LinkInv
<1>2. /\ At(r, "store") /\ handler'[r].pc = "idle"
      /\ \A q \in Reqs \ {r} : handler'[q] = handler[q]
      /\ n \in Link /\ stored' = [newest |-> n, held |-> n]
      /\ pending' = (pending \cap {0}) \cup {n}
      /\ crossed \subseteq crossed' /\ ((\E q \in Reqs : At(q, "write")) => n \in crossed')
      /\ uses' = uses /\ shared' = shared
  BY <1>1, StoreLinkFacts
<1>3. stored.newest \in Nat /\ n \in Nat /\ n > stored.newest /\ stored'.newest = n /\ stored'.held = n
  BY <1>1, <1>2, Numbers
<1> HIDE DEF n
<1>4. ASSUME NEW q \in Reqs PROVE HeldLink(q)'
  <2>1. CASE q = r
    BY <1>2, <2>1 DEF HeldLink, At
  <2>2. CASE q # r
    <3>1. HeldLink(q) /\ handler'[q] = handler[q]
      BY <1>2, <2>2 DEF LinkInv
    <3>2. At(q, "write") => handler[q].link \in 1..n /\ n \in crossed'
      BY <1>2, <1>3, <3>1 DEF HeldLink
    <3>3. QED
      BY <1>3, <3>1, <3>2 DEF HeldLink, At
  <2>3. QED
    BY <2>1, <2>2
<1>5. ASSUME NEW l \in Link PROVE LinkUse(l)'
  <2>1. LinkUse(l) /\ l \in Nat
    BY <1>1, LinkNumbers
  <2>2. Holders(l)' = Holders(l)
    BY <1>2 DEF Holders, At
  <2>3. l \in pending' => uses'[l] = 0 /\ l \in {0, stored'.newest}
    BY <1>2, <1>3, <2>1 DEF LinkUse
  <2>4. l > stored'.newest => uses'[l] = 0
    BY <1>2, <1>3, <2>1 DEF LinkUse
  <2>5. QED
    BY <1>2, <2>1, <2>2, <2>3, <2>4 DEF LinkUse, N
<1>6. NewestKept'
  BY <1>3 DEF NewestKept
<1>7. QED
  BY <1>4, <1>5, <1>6 DEF LinkInv

LEMMA StepLink ==
    ASSUME LinkInv, [Next]_vars
    PROVE  LinkInv'
<1>1. ShapeOK /\ ShapeOK' /\ NewestKept
  BY StepShape DEF LinkInv
<1>2. ASSUME NEW r \in Reqs, handler'[r].pc \notin {"verify", "write"},
             \A q \in Reqs \ {r} : handler'[q] = handler[q], UNCHANGED links
      PROVE  LinkInv'
  <2>1. pending' \subseteq pending /\ UNCHANGED <<stored, uses, shared, crossed>>
    BY <1>2 DEF links
  <2>2. QED
    BY <1>1, <1>2, <2>1, NoLinkUsed
<1>3. ASSUME NEW r \in Reqs, WrongPassword(r) PROVE LinkInv'
  BY <1>1, <1>2, <1>3, WrongPasswordFacts
<1>4. ASSUME NEW r \in Reqs, CountFailure(r) PROVE LinkInv'
  BY <1>1, <1>2, <1>4, CountFailureFacts
<1>5. ASSUME NEW r \in Reqs, SetLock(r) PROVE LinkInv'
  BY <1>1, <1>2, <1>5, SetLockFacts
<1>6. ASSUME NEW r \in Reqs, RightPassword(r) PROVE LinkInv'
  BY <1>1, <1>2, <1>6, RightPasswordFacts
<1>7. ASSUME NEW r \in Reqs, ClearFailures(r) PROVE LinkInv'
  BY <1>1, <1>2, <1>7, ClearFailuresFacts
<1>8. ASSUME NEW r \in Reqs, Forgot(r) PROVE LinkInv'
  BY <1>1, <1>2, <1>8, ForgotFacts
<1>9. ASSUME NEW r \in Reqs, Abort(r) PROVE LinkInv'
  BY <1>1, <1>2, <1>9, AbortFacts
<1>10. ASSUME NEW r \in Reqs, NEW l \in Link, LookupLink(r, l) PROVE LinkInv'
  BY <1>1, <1>10, LinkLookedUp
<1>11. ASSUME NEW r \in Reqs, StoreLink(r) PROVE LinkInv'
  BY <1>1, <1>11, LinkStored
<1>12. ASSUME NEW r \in Reqs, Verify(r) PROVE LinkInv'
  <2>1. At(r, "verify") /\ Used(r, 0) /\ pending' = pending \ {0} /\ stored' = stored
    BY <1>1, <1>12, VerifyFacts
  <2>2. r \in Holders(0) /\ 0 \in Link
    BY <1>1, <2>1, Numbers DEF LinkInv, HeldLink, Holders, At
  <2>3. NewestKept'
    <3>1. stored.newest \in Link /\ stored.newest \in Nat
      BY <1>1, Numbers
    <3>2. stored.newest > 0 => uses'[stored.newest] = uses[stored.newest]
      BY <2>1, <3>1 DEF Used
    <3>3. crossed' = crossed
      BY <2>1 DEF Used
    <3>4. QED
      BY <1>1, <2>1, <3>2, <3>3 DEF NewestKept
  <2>4. QED
    BY <1>1, <2>1, <2>2, <2>3, LinkUsed
<1>13. ASSUME NEW r \in Reqs, ResetPassword(r) PROVE LinkInv'
  <2> DEFINE l == handler[r].link
  <2>1. /\ At(r, "write") /\ Used(r, l) /\ pending' = pending \cap {0}
        /\ stored' = [newest |-> stored.newest, held |-> 0]
    BY <1>1, <1>13, ResetPasswordFacts
  <2>2. /\ r \in Holders(l) /\ l \in Link /\ l \in Nat /\ l # 0
        /\ l # stored.newest => stored.newest \in crossed
    <3>1. HeldLink(r)
      BY DEF LinkInv
    <3>2. l \in 1..stored.newest /\ (l # stored.newest => stored.newest \in crossed)
      BY <2>1, <3>1 DEF HeldLink
    <3>3. l \in Link /\ stored.newest \in Nat
      BY <1>1, HandlerFacts, Numbers
    <3>4. QED
      BY <2>1, <3>2, <3>3 DEF Holders, At
  <2> HIDE DEF l
  <2>3. NewestKept'
    <3>1. stored'.newest = stored.newest
      BY <2>1
    <3>2. CASE l = stored.newest
      <4>1. uses'[l] # 0
        BY <1>1, <2>1, <2>2, LinkNumbers DEF Used
      <4>2. QED
        BY <3>1, <3>2, <4>1 DEF NewestKept
    <3>3. CASE l # stored.newest
      BY <2>1, <2>2, <3>1, <3>3 DEF NewestKept, Used
    <3>4. QED
      BY <3>2, <3>3
  <2>4. pending' \subseteq pending \ {l} /\ stored'.newest = stored.newest
    BY <2>1, <2>2
  <2>5. QED
    BY <1>1, <2>1, <2>2, <2>3, <2>4, LinkUsed
<1>14. ASSUME handler' = handler, pending' \subseteq pending, UNCHANGED <<stored, uses, shared, crossed>>
       PROVE  LinkInv'
  <2>1. ASSUME NEW q \in Reqs PROVE HeldLink(q)'
    BY <1>14 DEF LinkInv, HeldLink, At
  <2>2. ASSUME NEW l \in Link PROVE LinkUse(l)'
    <3>1. LinkUse(l) /\ Holders(l)' = Holders(l)
      BY <1>14 DEF LinkInv, Holders
    <3>2. QED
      BY <1>14, <3>1 DEF LinkUse, N
  <2>3. QED
    BY <1>1, <1>14, <2>1, <2>2 DEF LinkInv, NewestKept
<1>15. ASSUME LockEnds PROVE LinkInv'
  BY <1>14, <1>15 DEF LockEnds, links
<1>16. ASSUME NEW l \in Link, LinkExpires(l) PROVE LinkInv'
  BY <1>14, <1>16 DEF LinkExpires
<1>17. CASE UNCHANGED vars
  BY <1>14, <1>17 DEF vars
<1>18. QED
  BY <1>3, <1>4, <1>5, <1>6, <1>7, <1>8, <1>9, <1>10, <1>11, <1>12, <1>13, <1>15, <1>16, <1>17 DEF Next

(* LinksSound (routes/auth.js:178-219): a link works once unless two         *)
(* requests held it together, and the newest reset link stays until it is    *)
(* used unless a reset with an older one was in flight when it was stored.   *)
THEOREM LinkWorksOnce == Spec => []LinksSound
<1>1. LinkInv => LinksSound
  BY Numbers DEF LinkInv, LinkUse, NewestKept, LinksSound
<1>2. QED
  BY <1>1, InitLink, StepLink, PTL DEF Spec

(* TypeOK: a link is used at most once by each request slot. *)
THEOREM TypeCorrect == Spec => []TypeOK
<1>1. ASSUME LinkInv PROVE TypeOK
  <2>1. ShapeOK
    BY <1>1 DEF LinkInv
  <2>2. ASSUME NEW l \in Link PROVE uses[l] \in 0..N
    <3>1. LinkUse(l)
      BY <1>1 DEF LinkInv
    <3>2. QED
      BY <2>1, <3>1, LinkNumbers DEF LinkUse
  <2>3. uses \in [Link -> 0..Cardinality(Reqs)]
    BY <2>1, <2>2 DEF ShapeOK, N
  <2>4. QED
    BY <2>1, <2>3 DEF ShapeOK, TypeOK
<1>2. QED
  BY <1>1, InitLink, StepLink, PTL DEF Spec
================================================================================

------------------------------ MODULE Metering ------------------------------
(***************************************************************************)
(* The daily allowance of one account: requireApiKey and requireAuth of    *)
(* middleware/auth.js, which read the account's row, and recordUsage of    *)
(* routes/gateway.js (recordUsageAndMaybeAlert of routes/chat.js is the    *)
(* same code), which charges it.                                           *)
(*                                                                         *)
(* A request works on the copy of the row it read, and its steps are the   *)
(* SQL statements it awaits.  The UPDATE that starts a new day is not      *)
(* awaited: it lands at any later time, or never.  The clock counts        *)
(* seconds; whether a span of time is a whole number of seconds is left    *)
(* open.  Today is the UTC day, which the process goes by; the session of  *)
(* the database has a date of its own, CURRENT_DATE.                       *)
(*                                                                         *)
(* spent, slipped, carried and mails are history variables about the       *)
(* current day.                                                            *)
(***************************************************************************)
EXTENDS Integers, FiniteSets

CONSTANTS
    Reqs,           \* slots for requests in flight, each with its reset
    Limits,         \* values of daily_token_limit
    Costs,          \* tokens a request may be charged
    DayLength,      \* seconds
    TimeLimit,      \* daily_usage_seconds_limit of the free plan
    IdleGap,        \* FREE_SESSION_IDLE_GAP_SECONDS
    Attempts,       \* candidates of a gateway request, and the final charge
    Ahead,          \* is the process in a time zone east of UTC
    DbOffset,       \* seconds the database session's zone is ahead of UTC
    MaxClock,       \* bound: seconds explored
    MaxUsed         \* bound: tokens on the meter, and charged in a day

ASSUME ParametersAssumption ==
    /\ Limits \subseteq Nat /\ Limits # {}
    /\ Costs \subseteq Nat
    /\ DayLength \in Nat \ {0}
    /\ TimeLimit \in Nat \ {0}
    /\ IdleGap \in Nat \ {0}
    /\ Attempts \in Nat \ {0}
    /\ Ahead \in BOOLEAN
    /\ DbOffset \in -DayLength..DayLength
    /\ MaxClock \in Nat
    /\ MaxUsed \in Nat

VARIABLES
    user,       \* the metering columns of the users row
    handler,    \* the locals of every request in flight
    clock,
    spent,      \* history: tokens charged today to requests that came today
    slipped,    \* history: today a reset missed, landed on charges, or landed a day late
    carried,    \* history: a time on today's row was computed on another day
    mails       \* history: usage alerts sent today while the database had the same date

vars == <<user, handler, clock, spent, slipped, carried, mails>>

Plans == {"free", "paid"}
Never == -1         \* last_activity_at IS NULL
NoDay == 0          \* alert_sent_date IS NULL; no reset under way

\* The number of a day; the first is 2, so that it has a day before it.
Day(t) == (t + DayLength) \div DayLength + 1
Today == Day(clock)
Midnight == (Today - 2) * DayLength

\* CURRENT_DATE is the date of the session's time zone.
CurrentDate == Day(clock + DbOffset)

UserRow == [used : Nat, secs : 0..TimeLimit, resetOn : Nat \ {0}, last : Nat \cup {Never},
            alertOn : Nat, limit : Limits, plan : Plans]

\* used, limit and alertOn are the copy of the row; total and at are what
\* trackFreeUsageTime computed, exact if total is whole; day is the day the request came; charges
\* counts what it was charged; reset is the day the UPDATE under way writes.
Locals == [pc : {"idle", "track", "hung", "admitted", "log", "alert"},
           used : Nat, limit : Limits, alertOn : Nat, total : 0..TimeLimit, at : Nat, exact : BOOLEAN,
           day : Nat, charges : 0..Attempts, cost : Nat, reset : Nat]

TypeOK ==
    /\ user \in UserRow
    /\ handler \in [Reqs -> Locals]
    /\ clock \in 0..MaxClock
    /\ spent \in Nat
    /\ slipped \in BOOLEAN
    /\ carried \in BOOLEAN
    /\ mails \in Nat

AnyLimit == CHOOSE l \in Limits : TRUE
Idle == [pc |-> "idle", used |-> 0, limit |-> AnyLimit, alertOn |-> NoDay, total |-> 0, at |-> 0,
         exact |-> TRUE, day |-> NoDay, charges |-> 0, cost |-> 0, reset |-> NoDay]

At(r, pc) == handler[r].pc = pc

\* The slot is free again; a reset it sent may still be under way.
Answered(r) == [Idle EXCEPT !.reset = handler[r].reset]

-----------------------------------------------------------------------------
\* What a request makes of the row

\* Mutant: yesterday is taken for today.
DayReadLate(d) == d - 1

\* pg reads a DATE as local midnight, toISOString gives its UTC day.
DayRead(d) == IF Ahead THEN d - 1 ELSE d

Stale == DayRead(user.resetOn) # Today
UsedRead == IF Stale THEN 0 ELSE user.used
SecsRead == IF Stale THEN 0 ELSE user.secs
ResetSent == IF Stale THEN Today ELSE NoDay

\* Mutant: idle time counts.
AddedIdle == IF user.last # Never THEN clock - user.last ELSE 0

\* Time since the last request counts unless it was long enough to be idle.
Added ==
    LET gap == clock - user.last
    IN  IF user.last # Never /\ 0 < gap /\ gap < IdleGap THEN gap ELSE 0

NewTotal == IF SecsRead + Added < TimeLimit THEN SecsRead + Added ELSE TimeLimit

\* The gap is in milliseconds: a total it went into is whole by accident.
MayBeFraction == Added > 0 /\ NewTotal < TimeLimit

\* Mutant: the limit itself is still allowed.
QuotaLeftAtLimit == UsedRead <= user.limit

QuotaLeft == UsedRead < user.limit
TimeLeft == user.plan = "paid" \/ SecsRead < TimeLimit

\* Locals after the row was read.
Copy(pc, total, at, exact) ==
    [pc |-> pc, used |-> UsedRead, limit |-> user.limit, alertOn |-> user.alertOn, total |-> total,
     at |-> at, exact |-> exact, day |-> Today, charges |-> 0, cost |-> 0,
     reset |-> ResetSent]

\* A slot takes a new request when the last one is over and its reset landed.
Free(r) == At(r, "idle") /\ handler[r].reset = NoDay

-----------------------------------------------------------------------------
\* Actions

Init ==
    /\ clock = 0
    /\ user \in [used : {0}, secs : {0}, resetOn : {CurrentDate}, last : {Never}, alertOn : {NoDay},
                 limit : Limits, plan : Plans]
    /\ handler = [r \in Reqs |-> Idle]
    /\ spent = 0
    /\ slipped = FALSE
    /\ carried = FALSE
    /\ mails = 0

\* requireAuth, or requireApiKey that answers 429: at most a reset is sent.
Look(r) ==
    /\ Free(r)
    /\ Stale
    /\ handler' = [handler EXCEPT ![r] = [Idle EXCEPT !.reset = ResetSent]]
    /\ UNCHANGED <<user, clock, spent, slipped, carried, mails>>

\* requireApiKey lets a paid request through.
AdmitPaid(r) ==
    /\ Free(r)
    /\ QuotaLeft
    /\ user.plan = "paid"
    /\ handler' = [handler EXCEPT ![r] = Copy("admitted", 0, 0, TRUE)]
    /\ UNCHANGED <<user, clock, spent, slipped, carried, mails>>

\* trackFreeUsageTime up to its UPDATE.
AdmitFree(r) ==
    /\ Free(r)
    /\ QuotaLeft
    /\ user.plan = "free"
    /\ TimeLeft
    /\ \/ handler' = [handler EXCEPT ![r] = Copy("track", NewTotal, clock, TRUE)]
       \/ /\ MayBeFraction
          /\ handler' = [handler EXCEPT ![r] = Copy("track", 0, 0, FALSE)]
    /\ UNCHANGED <<user, clock, spent, slipped, carried, mails>>

\* The UPDATE writes what was computed, whatever the row says by now.
TrackTime(r) ==
    /\ At(r, "track")
    /\ handler[r].exact
    /\ user' = [user EXCEPT !.secs = handler[r].total, !.last = handler[r].at]
    /\ handler' = [handler EXCEPT ![r].pc = "admitted", ![r].total = 0, ![r].at = 0]
    /\ carried' = (carried \/ handler[r].day # Today)
    /\ UNCHANGED <<clock, spent, slipped, mails>>

\* An INTEGER column refuses a fraction: the UPDATE fails, the
\* middleware rejects, nobody answers the request.
TrackRefused(r) ==
    /\ At(r, "track")
    /\ ~handler[r].exact
    /\ handler' = [handler EXCEPT ![r] = [Answered(r) EXCEPT !.pc = "hung"]]
    /\ UNCHANGED <<user, clock, spent, slipped, carried, mails>>

\* Mutant: the charge writes the copy plus the cost.
ChargeFromCopy(r, cost) ==
    /\ At(r, "admitted")
    /\ handler[r].used + cost <= MaxUsed /\ spent + cost <= MaxUsed
    /\ user' = [user EXCEPT !.used = handler[r].used + cost]
    /\ handler' = [handler EXCEPT ![r].pc = "log", ![r].cost = cost, ![r].charges = @ + 1]
    /\ spent' = IF handler[r].day = Today THEN spent + cost ELSE spent
    /\ UNCHANGED <<clock, slipped, carried, mails>>

\* recordUsage: tokens_used_today = tokens_used_today + cost.
Charge(r, cost) ==
    /\ At(r, "admitted")
    /\ user.used + cost <= MaxUsed /\ spent + cost <= MaxUsed
    /\ user' = [user EXCEPT !.used = @ + cost]
    /\ handler' = [handler EXCEPT ![r].pc = "log", ![r].cost = cost, ![r].charges = @ + 1]
    /\ spent' = IF handler[r].day = Today THEN spent + cost ELSE spent
    /\ UNCHANGED <<clock, slipped, carried, mails>>

\* Mutant: the date of the last alert is not looked at.
AlertDueAlways(r) == 5 * (handler[r].used + handler[r].cost) >= 4 * handler[r].limit

\* 80 percent of the limit and no alert yet today, by the copy.
AlertDue(r) ==
    /\ 5 * (handler[r].used + handler[r].cost) >= 4 * handler[r].limit
    /\ handler[r].alertOn = NoDay \/ DayRead(handler[r].alertOn) # Today

\* The row of request_logs is inserted.
Log(r) ==
    /\ At(r, "log")
    /\ handler' = [handler EXCEPT ![r] =
           IF AlertDue(r) THEN [handler[r] EXCEPT !.pc = "alert"] ELSE Answered(r)]
    /\ UNCHANGED <<user, clock, spent, slipped, carried, mails>>

\* alert_sent_date = CURRENT_DATE, whatever the UTC day is, then the mail.
Alert(r) ==
    /\ At(r, "alert")
    /\ user' = [user EXCEPT !.alertOn = CurrentDate]
    /\ mails' = IF CurrentDate = Today THEN mails + 1 ELSE mails
    /\ handler' = [handler EXCEPT ![r] = Answered(r)]
    /\ UNCHANGED <<clock, spent, slipped, carried>>

\* Mutant: the loop never runs out of candidates.
ChargeAgainForever(r) ==
    /\ handler[r].pc \in {"log", "alert"}
    /\ handler' = [handler EXCEPT ![r].pc = "admitted", ![r].cost = 0]
    /\ UNCHANGED <<user, clock, spent, slipped, carried, mails>>

\* The gateway calls recordUsage inside the try of its fallback loop: when a
\* statement after the charge fails, the next candidate is called and charged.
ChargeAgain(r) ==
    /\ handler[r].pc \in {"log", "alert"}
    /\ handler[r].charges < Attempts
    /\ handler' = [handler EXCEPT ![r].pc = "admitted", ![r].cost = 0]
    /\ UNCHANGED <<user, clock, spent, slipped, carried, mails>>

\* The UPDATE sent by resetDailyQuotaIfNeeded lands.
ResetLands(r) ==
    /\ handler[r].reset # NoDay
    /\ user' = [user EXCEPT !.used = 0, !.secs = 0, !.resetOn = handler[r].reset]
    /\ handler' = [handler EXCEPT ![r].reset = NoDay]
    /\ slipped' = (slipped \/ spent > 0 \/ handler[r].reset # Today)
    /\ UNCHANGED <<clock, spent, carried, mails>>

\* It fails, and .catch(() => {}) forgets it.
ResetFails(r) ==
    /\ handler[r].reset # NoDay
    /\ handler' = [handler EXCEPT ![r].reset = NoDay]
    /\ slipped' = TRUE
    /\ UNCHANGED <<user, clock, spent, carried, mails>>

\* The rate limit, the validation or the moderation refuses, the provider or a
\* statement fails, the client leaves: no further step of the request.
Abort(r) ==
    /\ ~At(r, "idle")
    /\ handler' = [handler EXCEPT ![r] = Answered(r)]
    /\ UNCHANGED <<user, clock, spent, slipped, carried, mails>>

\* Billing webhooks and the admin routes.
SetPlan(plan, limit) ==
    /\ user' = [user EXCEPT !.plan = plan, !.limit = limit]
    /\ UNCHANGED <<handler, clock, spent, slipped, carried, mails>>

\* A row registered where it was tomorrow takes its time into the new day.
Tick ==
    /\ clock < MaxClock
    /\ clock' = clock + 1
    /\ IF Today' = Today
       THEN UNCHANGED <<spent, slipped, carried, mails>>
       ELSE /\ spent' = 0
            /\ slipped' = FALSE
            /\ carried' = (user.resetOn >= Today' /\ user.secs > 0)
            /\ mails' = 0
    /\ UNCHANGED <<user, handler>>

Serve(r) ==
    \/ Look(r)
    \/ AdmitPaid(r)
    \/ AdmitFree(r)
    \/ TrackTime(r)
    \/ TrackRefused(r)
    \/ \E cost \in Costs : Charge(r, cost)
    \/ Log(r)
    \/ Alert(r)
    \/ ChargeAgain(r)
    \/ ResetLands(r)

Next ==
    \/ \E r \in Reqs : Serve(r) \/ ResetFails(r) \/ Abort(r)
    \/ \E plan \in Plans, limit \in Limits : SetPlan(plan, limit)
    \/ Tick

Spec == Init /\ [][Next]_vars

-----------------------------------------------------------------------------
\* Properties

N == Cardinality(Reqs)
Largest(S) == CHOOSE x \in S : \A y \in S : y <= x

\* The limit is checked before and charged after the provider's answer
\* (middleware/auth.js:108, routes/gateway.js:24): what a day's requests are
\* charged passes the limit by what can be in flight at most, unless a reset
\* was lost, wiped charges of the day, or was yesterday's.
DailyCapHolds ==
    slipped \/ spent <= Largest(Limits) - 1 + N * Attempts * Largest(Costs)

\* While no reset misfires, the meter of today shows every token charged to a
\* request of today (middleware/auth.js:22, routes/gateway.js:24).
MeterShowsSpending == user.resetOn = Today /\ ~slipped => user.used >= spent

\* usage_seconds_today never runs ahead of the clock (middleware/auth.js:43-54):
\* a day is not charged more time than has passed since midnight and one gap
\* before it, however requests interleave, unless a request straddled midnight.
TimeNeverOvercounted ==
    user.resetOn = Today /\ ~carried /\ user.secs > 0 =>
        user.secs < user.last - Midnight + IdleGap

\* alert_sent_date (routes/gateway.js:33-38) keeps the mails of a day to one for
\* every request that was in flight when the first was sent, over the hours in
\* which CURRENT_DATE of the database is the UTC day it is compared with.  In the
\* hours between the two midnights nothing keeps them down.
AlertsBounded == mails <= N

\* Once today's reset has landed and no other is under way, none is sent until
\* midnight (middleware/auth.js:16-28), and no token charged is forgotten.
Settled == user.resetOn = Today /\ \A r \in Reqs : handler[r].reset = NoDay

SettledStays ==
    [][Settled /\ Today' = Today => Settled' /\ user'.used >= user.used]_vars

-----------------------------------------------------------------------------
\* What the documentation says without reservation, and the code does not keep

\* 003_free_usage_time.sql:2-3: time accumulates while requests are close
\* together; the request that adds it is served.
EveryRequestAnswered == \A r \in Reqs : ~At(r, "hung")
=============================================================================

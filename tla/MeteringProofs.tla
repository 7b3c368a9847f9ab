--------------------------- MODULE MeteringProofs ---------------------------
(***************************************************************************)
(* What holds of the daily allowance for every number of requests, every   *)
(* limit and every length of the day.  The strengthening says of the       *)
(* requests in flight what the properties say of the row: what             *)
(* trackFreeUsageTime computed is as true as what it has written.  Two     *)
(* parts at the end count what requests in flight may do: mails, charges.  *)
(***************************************************************************)
EXTENDS Metering, FiniteSetTheorems, TLAPS

USE DEF Never, NoDay

-----------------------------------------------------------------------------
\* Days

LEMMA Division ==
  ASSUME NEW a \in Nat, NEW b \in Nat \ {0}
  PROVE  /\ a \div b \in Nat
         /\ (a \div b) * b <= a
         /\ a < (a \div b) * b + b
  OBVIOUS

\* The instants the model speaks of: no zone is more than a day off.
LEMMA DayType == \A t \in Int : t + DayLength >= 0 => Day(t) \in Nat \ {0}
<1>1. SUFFICES ASSUME NEW t \in Int, t + DayLength >= 0 PROVE Day(t) \in Nat \ {0}
  OBVIOUS
<1>2. t + DayLength \in Nat
  BY <1>1, ParametersAssumption
<1> QED
  BY <1>2, Division, ParametersAssumption DEF Day

LEMMA DayGrows ==
  ASSUME NEW t \in Int, t + DayLength >= 0
  PROVE  Day(t) <= Day(t + 1)
<1>1. PICK a \in Nat : a = t + DayLength
  BY ParametersAssumption
<1>2. PICK b \in Nat : b = t + 1 + DayLength
  BY ParametersAssumption
<1> DEFINE p == a \div DayLength
           q == b \div DayLength
<1>3. p \in Nat /\ q \in Nat /\ p * DayLength <= a /\ b < q * DayLength + DayLength /\ b = a + 1
  BY <1>1, <1>2, Division, ParametersAssumption
<1>4. p <= q
  <2>1. SUFFICES ASSUME q + 1 <= p PROVE FALSE
    BY <1>3
  <2> HIDE DEF p, q
  <2>2. (q + 1) * DayLength <= p * DayLength
    BY <2>1, <1>3, ParametersAssumption
  <2>3. (q + 1) * DayLength = q * DayLength + DayLength
    BY <1>3, ParametersAssumption
  <2> QED
    BY <1>3, <2>2, <2>3, ParametersAssumption
<1>5. Day(t) = p + 1 /\ Day(t + 1) = q + 1
  BY <1>1, <1>2 DEF Day
<1> QED
  BY <1>3, <1>4, <1>5

\* The UTC day and the database's, now and a second later.
LEMMA Dates ==
  ASSUME clock \in Nat
  PROVE  /\ Today \in Nat \ {0} /\ CurrentDate \in Nat \ {0}
         /\ Today <= Day(clock + 1) /\ Day(clock + 1) \in Nat
         /\ CurrentDate <= Day(clock + 1 + DbOffset)
<1>1. clock + DayLength >= 0 /\ clock + 1 + DayLength >= 0 /\ clock \in Int /\ clock + 1 \in Int
  BY ParametersAssumption
<1>2. PICK t \in Int : t = clock + DbOffset
  BY ParametersAssumption
<1>3. t + DayLength >= 0 /\ clock + 1 + DbOffset = t + 1
  BY <1>2, ParametersAssumption
<1>4. Today \in Nat \ {0} /\ Today <= Day(clock + 1) /\ Day(clock + 1) \in Nat \ {0}
  BY <1>1, DayType, DayGrows DEF Today
<1>5. CurrentDate \in Nat \ {0} /\ CurrentDate <= Day(t + 1)
  BY <1>2, <1>3, DayType, DayGrows DEF CurrentDate
<1> QED
  BY <1>3, <1>4, <1>5

LEMMA MidnightPast ==
  ASSUME clock \in Nat
  PROVE  Midnight \in Nat /\ Midnight <= clock
<1>1. PICK a \in Nat : a = clock + DayLength
  BY ParametersAssumption
<1>2. PICK q \in Nat : q = a \div DayLength
  BY Division, ParametersAssumption
<1>3. q * DayLength <= a /\ a < q * DayLength + DayLength
  BY <1>2, Division, ParametersAssumption
<1>4. q # 0
  BY <1>1, <1>3, ParametersAssumption
<1>5. PICK k \in Nat : q = k + 1
  BY <1>4
<1>6. (k + 1) * DayLength = k * DayLength + DayLength /\ k * DayLength \in Nat
  BY ParametersAssumption
<1>7. Midnight = k * DayLength
  <2>1. Today - 2 = k
    BY <1>1, <1>2, <1>5 DEF Today, Day
  <2> QED
    BY <2>1 DEF Midnight
<1> QED
  BY <1>1, <1>3, <1>5, <1>6, <1>7, ParametersAssumption
-----------------------------------------------------------------------------
\* The invariant

\* The row was written in the past, though a registration may have dated it tomorrow.
DatesPast == user.last <= clock

\* TimeNeverOvercounted, of such a row too.
RowTime ==
    user.resetOn >= Today /\ ~carried /\ user.secs > 0 =>
        user.secs < user.last - Midnight + IdleGap

\* What a request in flight holds: while the provider works for it a charge
\* is left, its dates are past, and the time it is about to write is as
\* TimeNeverOvercounted wants it.
Sound(h) ==
    /\ h.pc \in {"track", "admitted"} => h.charges < Attempts
    /\ h.reset <= Today /\ h.day <= Today /\ h.at <= clock
    /\ ~carried /\ h.pc = "track" /\ h.exact /\ h.day = Today /\ h.total > 0 =>
           h.total < h.at - Midnight + IdleGap

RequestsSound == \A r \in Reqs : Sound(handler[r])

IInv ==
    /\ TypeOK
    /\ DatesPast
    /\ RequestsSound
    /\ MeterShowsSpending
    /\ RowTime

-----------------------------------------------------------------------------
\* What a request reads, and what it starts with

LEMMA ReadTypes ==
  ASSUME TypeOK
  PROVE  /\ Today \in Nat \ {0}
         /\ UsedRead \in Nat
         /\ SecsRead \in 0..TimeLimit
         /\ ResetSent \in Nat
         /\ ResetSent <= Today
         /\ Added \in Nat
         /\ Added < IdleGap
         /\ NewTotal \in 0..TimeLimit
         /\ NewTotal <= SecsRead + Added
<1>1. clock \in Nat /\ user \in UserRow
  BY ParametersAssumption DEF TypeOK
<1>2. user.used \in Nat /\ user.secs \in 0..TimeLimit /\ user.last \in Nat \cup {Never}
  BY <1>1 DEF UserRow
<1>3. Today \in Nat \ {0}
  BY <1>1, Dates
<1>4. UsedRead \in Nat /\ SecsRead \in 0..TimeLimit /\ ResetSent \in Nat /\ ResetSent <= Today
  BY <1>2, <1>3, ParametersAssumption DEF UsedRead, SecsRead, ResetSent
<1>5. Added \in Nat /\ Added < IdleGap
  BY <1>1, <1>2, ParametersAssumption DEF Added
<1> QED
  BY <1>3, <1>4, <1>5, ParametersAssumption DEF NewTotal

LEMMA IdleType == Idle \in Locals
<1>1. AnyLimit \in Limits
  BY ParametersAssumption DEF AnyLimit
<1> QED
  BY <1>1, ParametersAssumption DEF Idle, Locals

LEMMA AnsweredType ==
  ASSUME TypeOK, NEW r \in Reqs
  PROVE  /\ Answered(r) \in Locals
         /\ Answered(r).pc = "idle" /\ Answered(r).at = 0 /\ Answered(r).day = NoDay
         /\ Answered(r).reset = handler[r].reset
<1>1. handler[r] \in Locals
  BY DEF TypeOK
<1>2. Idle \in Locals /\ handler[r].reset \in Nat
  BY <1>1, IdleType DEF Locals
<1> QED
  BY <1>2 DEF Answered, Locals, Idle

LEMMA CopyType ==
  ASSUME TypeOK
  PROVE  /\ Copy("admitted", 0, 0, TRUE) \in Locals
         /\ Copy("track", NewTotal, clock, TRUE) \in Locals
         /\ Copy("track", 0, 0, FALSE) \in Locals
<1>1. user.limit \in Limits /\ user.alertOn \in Nat
  BY DEF TypeOK, UserRow
<1>2. clock \in Nat
  BY ParametersAssumption DEF TypeOK
<1> QED
  BY <1>1, <1>2, ReadTypes, ParametersAssumption DEF Copy, Locals

-----------------------------------------------------------------------------
\* What one step of a request has to show

\* The step only replaces the locals of r, and the new ones are sound.
LEMMA RequestMoves ==
  ASSUME IInv, NEW r \in Reqs, NEW h \in Locals, Sound(h),
         handler' = [handler EXCEPT ![r] = h],
         UNCHANGED <<user, clock, spent, slipped, carried, mails>>
  PROVE  IInv'
<1> USE DEF IInv
<1>1. /\ handler \in [Reqs -> Locals]
      /\ handler' \in [Reqs -> Locals]
      /\ handler'[r] = h
      /\ \A q \in Reqs : q # r => handler'[q] = handler[q]
  BY DEF TypeOK
<1>2. Today' = Today /\ Midnight' = Midnight
  BY DEF Today, Midnight
<1>3. TypeOK'
  BY <1>1 DEF TypeOK
<1>4. DatesPast'
  BY <1>2 DEF DatesPast
<1>5. RequestsSound'
  BY <1>1, <1>2 DEF RequestsSound, Sound
<1>6. MeterShowsSpending'
  BY <1>2 DEF MeterShowsSpending
<1>7. RowTime'
  BY <1>2 DEF RowTime
<1> QED
  BY <1>3, <1>4, <1>5, <1>6, <1>7

-----------------------------------------------------------------------------
\* The invariant holds initially

LEMMA InitInv == Init => IInv
<1> SUFFICES ASSUME Init PROVE IInv
  OBVIOUS
<1>2. clock = 0 /\ clock \in 0..MaxClock /\ Today \in Nat \ {0} /\ CurrentDate \in Nat \ {0}
  BY Dates, ParametersAssumption DEF Init
<1>1. user \in UserRow /\ user.used = 0 /\ user.secs = 0 /\ user.last = Never
  BY <1>2, ParametersAssumption DEF Init, UserRow, Plans
<1>3. handler \in [Reqs -> Locals] /\ \A r \in Reqs : handler[r] = Idle
  BY IdleType DEF Init
<1>4. spent = 0 /\ ~slipped /\ ~carried /\ mails = 0 /\ slipped \in BOOLEAN /\ carried \in BOOLEAN
  BY DEF Init
<1>5. TypeOK
  BY <1>1, <1>2, <1>3, <1>4 DEF TypeOK
<1>6. DatesPast /\ RequestsSound
  BY <1>1, <1>2, <1>3 DEF DatesPast, RequestsSound, Sound, Idle
<1>7. MeterShowsSpending /\ RowTime
  BY <1>1, <1>2, <1>4 DEF MeterShowsSpending, RowTime
<1> QED
  BY <1>5, <1>6, <1>7 DEF IInv

-----------------------------------------------------------------------------
\* Every step preserves it

LEMMA LookStep ==
  ASSUME IInv, NEW r \in Reqs, Look(r)
  PROVE  IInv'
<1>1. PICK h \in Locals : h = [Idle EXCEPT !.reset = ResetSent]
  BY IdleType, ReadTypes DEF IInv, Locals
<1>2. clock \in Nat /\ Today \in Nat /\ ResetSent <= Today
  BY ReadTypes, ParametersAssumption DEF IInv, TypeOK
<1>3. Sound(h)
  BY <1>1, <1>2 DEF Sound, Idle
<1>4. handler' = [handler EXCEPT ![r] = h] /\ UNCHANGED <<user, clock, spent, slipped, carried, mails>>
  BY <1>1 DEF Look
<1> QED
  BY <1>3, <1>4, RequestMoves

\* A request is over.
LEMMA AnsweredStep ==
  ASSUME IInv, NEW r \in Reqs, handler' = [handler EXCEPT ![r] = Answered(r)],
         UNCHANGED <<user, clock, spent, slipped, carried, mails>>
  PROVE  IInv'
<1>1. PICK h \in Locals : h = Answered(r)
  BY AnsweredType DEF IInv
<1>2. clock \in Nat /\ Today \in Nat /\ handler[r].reset <= Today
  BY ReadTypes, ParametersAssumption DEF IInv, TypeOK, RequestsSound, Sound
<1>3. Sound(h)
  BY <1>1, <1>2, AnsweredType DEF IInv, Sound
<1>4. handler' = [handler EXCEPT ![r] = h]
  BY <1>1
<1> QED
  BY <1>3, <1>4, RequestMoves

LEMMA AdmitPaidStep ==
  ASSUME IInv, NEW r \in Reqs, AdmitPaid(r)
  PROVE  IInv'
<1>1. PICK h \in Locals : h = Copy("admitted", 0, 0, TRUE)
  BY CopyType, ParametersAssumption DEF IInv
<1>2. clock \in Nat /\ Today \in Nat /\ ResetSent <= Today
  BY ReadTypes, ParametersAssumption DEF IInv, TypeOK
<1>3. Sound(h)
  BY <1>1, <1>2, ParametersAssumption DEF Copy, Sound
<1>4. handler' = [handler EXCEPT ![r] = h] /\ UNCHANGED <<user, clock, spent, slipped, carried, mails>>
  BY <1>1 DEF AdmitPaid
<1> QED
  BY <1>3, <1>4, RequestMoves

\* The sum of what the row shows and the time since then is bounded by the
\* time since midnight and the gap before it.
LEMMA NewTotalBound ==
  ASSUME IInv, ~carried, NewTotal > 0
  PROVE  NewTotal < clock - Midnight + IdleGap
<1>1. /\ clock \in Nat /\ user.resetOn \in Nat /\ user.last \in Nat \cup {Never} /\ user.last <= clock
      /\ user.secs \in 0..TimeLimit
  BY ParametersAssumption DEF IInv, TypeOK, UserRow, DatesPast
<1>2. Midnight \in Nat /\ Midnight <= clock
  BY <1>1, MidnightPast
<1>3. /\ Added \in Nat /\ Added < IdleGap
      /\ NewTotal \in 0..TimeLimit /\ NewTotal <= SecsRead + Added
      /\ Today \in Nat
  BY ReadTypes DEF IInv
<1>4. CASE SecsRead = 0
  BY <1>2, <1>3, <1>4, <1>1, ParametersAssumption
<1>5. CASE SecsRead # 0
  <2>1. SecsRead = user.secs /\ user.resetOn >= Today
    BY <1>1, <1>3, <1>5 DEF SecsRead, Stale, DayRead
  <2>2. user.secs < user.last - Midnight + IdleGap
    BY <2>1, <1>1, <1>5 DEF IInv, RowTime
  <2>3. Added = 0 \/ Added = clock - user.last
    BY DEF Added
  <2> QED
    BY <2>1, <2>2, <2>3, <1>1, <1>2, <1>3, ParametersAssumption
<1> QED
  BY <1>4, <1>5

LEMMA AdmitFreeStep ==
  ASSUME IInv, NEW r \in Reqs, AdmitFree(r)
  PROVE  IInv'
<1>1. clock \in Nat /\ Today \in Nat /\ ResetSent <= Today /\ NewTotal \in 0..TimeLimit
  BY ReadTypes, ParametersAssumption DEF IInv, TypeOK
<1>2. UNCHANGED <<user, clock, spent, slipped, carried, mails>>
  BY DEF AdmitFree
<1>3. CASE handler' = [handler EXCEPT ![r] = Copy("track", NewTotal, clock, TRUE)]
  <2>1. PICK h \in Locals : h = Copy("track", NewTotal, clock, TRUE)
    BY <1>1, CopyType DEF IInv
  <2>2. ~carried /\ h.total > 0 => h.total < h.at - Midnight + IdleGap
    BY <2>1, NewTotalBound DEF Copy
  <2>3. Sound(h)
    BY <1>1, <2>1, <2>2, ParametersAssumption DEF Copy, Sound
  <2>4. handler' = [handler EXCEPT ![r] = h]
    BY <1>3, <2>1
  <2> QED
    BY <1>2, <2>3, <2>4, RequestMoves
<1>4. CASE handler' = [handler EXCEPT ![r] = Copy("track", 0, 0, FALSE)]
  <2>1. PICK h \in Locals : h = Copy("track", 0, 0, FALSE)
    BY CopyType, ParametersAssumption DEF IInv
  <2>2. Sound(h)
    BY <1>1, <2>1, ParametersAssumption DEF Copy, Sound
  <2>3. handler' = [handler EXCEPT ![r] = h]
    BY <1>4, <2>1
  <2> QED
    BY <1>2, <2>2, <2>3, RequestMoves
<1> QED
  BY <1>3, <1>4 DEF AdmitFree

\* The request that writes its time: the row becomes as sound as the request was.
LEMMA TrackTimeStep ==
  ASSUME IInv, NEW r \in Reqs, TrackTime(r)
  PROVE  IInv'
<1> USE DEF IInv
<1>1. /\ handler \in [Reqs -> Locals] /\ user \in UserRow
      /\ clock \in Nat /\ Today \in Nat /\ TimeLimit \in Nat
  BY ReadTypes, ParametersAssumption DEF TypeOK
<1>2. PICK h \in Locals : h = [handler[r] EXCEPT !.pc = "admitted", !.total = 0, !.at = 0]
  <2>1. handler[r] \in Locals /\ 0 \in 0..TimeLimit
    BY <1>1
  <2>2. [handler[r] EXCEPT !.pc = "admitted", !.total = 0, !.at = 0] \in Locals
    BY ONLY <2>1 DEF Locals
  <2> QED
    BY <2>2
<1>3. /\ handler' = [handler EXCEPT ![r] = h]
      /\ user' = [user EXCEPT !.secs = handler[r].total, !.last = handler[r].at]
      /\ carried' = (carried \/ handler[r].day # Today)
      /\ UNCHANGED <<clock, spent, slipped, mails>>
      /\ handler[r].pc = "track" /\ handler[r].exact
  BY <1>1, <1>2 DEF TrackTime, At, Locals
<1>4. /\ handler' \in [Reqs -> Locals] /\ handler'[r] = h
      /\ \A q \in Reqs : q # r => handler'[q] = handler[q]
  BY <1>1, <1>3
<1>5. Today' = Today /\ Midnight' = Midnight
  BY <1>3 DEF Today, Midnight
<1>6. /\ handler[r].total \in 0..TimeLimit /\ handler[r].at \in Nat /\ handler[r].at <= clock
      /\ handler[r].reset <= Today /\ handler[r].day <= Today
  BY <1>1 DEF Locals, RequestsSound, Sound
<1>7. /\ user'.secs = handler[r].total /\ user'.last = handler[r].at
      /\ user'.used = user.used /\ user'.resetOn = user.resetOn
      /\ user' \in UserRow
  BY <1>1, <1>3, <1>6 DEF UserRow
<1>8. TypeOK'
  BY <1>3, <1>4, <1>7 DEF TypeOK
<1>9. DatesPast'
  BY <1>3, <1>5, <1>6, <1>7 DEF DatesPast
<1>10. RequestsSound'
  <2>1. Sound(h)'
    BY <1>2, <1>3, <1>5, <1>6, <1>1, ParametersAssumption DEF RequestsSound, Sound
  <2>2. \A q \in Reqs : Sound(handler[q])'
    BY <1>3, <1>4, <1>5, <2>1 DEF RequestsSound, Sound
  <2> QED
    BY <2>2 DEF RequestsSound
<1>11. MeterShowsSpending'
  BY <1>3, <1>5, <1>7 DEF MeterShowsSpending
<1>12. RowTime'
  BY <1>3, <1>5, <1>6, <1>7 DEF RequestsSound, Sound, RowTime
<1> QED
  BY <1>8, <1>9, <1>10, <1>11, <1>12

LEMMA TrackRefusedStep ==
  ASSUME IInv, NEW r \in Reqs, TrackRefused(r)
  PROVE  IInv'
<1>1. PICK h \in Locals : h = [Answered(r) EXCEPT !.pc = "hung"]
  BY AnsweredType DEF IInv, Locals
<1>2. clock \in Nat /\ Today \in Nat /\ handler[r].reset <= Today
  BY ReadTypes, ParametersAssumption DEF IInv, TypeOK, RequestsSound, Sound
<1>3. h.pc = "hung" /\ h.at = 0 /\ h.day = 0 /\ h.reset = handler[r].reset
  BY <1>1, AnsweredType DEF IInv, Locals
<1>4. Sound(h)
  BY <1>2, <1>3 DEF Sound
<1>5. handler' = [handler EXCEPT ![r] = h] /\ UNCHANGED <<user, clock, spent, slipped, carried, mails>>
  BY <1>1 DEF TrackRefused
<1> QED
  BY <1>4, <1>5, RequestMoves

LEMMA ChargeAgainStep ==
  ASSUME IInv, NEW r \in Reqs, ChargeAgain(r)
  PROVE  IInv'
<1>1. handler \in [Reqs -> Locals] /\ Sound(handler[r])
  BY DEF IInv, TypeOK, RequestsSound
<1>2. PICK h \in Locals : h = [handler[r] EXCEPT !.pc = "admitted", !.cost = 0]
  BY <1>1 DEF Locals
<1>3. Sound(h)
  BY <1>1, <1>2 DEF Sound, ChargeAgain, Locals
<1>4. handler' = [handler EXCEPT ![r] = h] /\ UNCHANGED <<user, clock, spent, slipped, carried, mails>>
  BY <1>1, <1>2 DEF ChargeAgain, Locals
<1> QED
  BY <1>3, <1>4, RequestMoves

LEMMA LogStep ==
  ASSUME IInv, NEW r \in Reqs, Log(r)
  PROVE  IInv'
<1>1. handler \in [Reqs -> Locals] /\ Sound(handler[r])
  BY DEF IInv, TypeOK, RequestsSound
<1>2. UNCHANGED <<user, clock, spent, slipped, carried, mails>>
  BY DEF Log
<1>3. CASE handler' = [handler EXCEPT ![r] = [handler[r] EXCEPT !.pc = "alert"]]
  <2>1. PICK h \in Locals : h = [handler[r] EXCEPT !.pc = "alert"]
    BY <1>1 DEF Locals
  <2>2. Sound(h)
    BY <1>1, <2>1 DEF Sound, Locals
  <2>3. handler' = [handler EXCEPT ![r] = h]
    BY <1>3, <2>1
  <2> QED
    BY <1>2, <2>2, <2>3, RequestMoves
<1>4. CASE handler' = [handler EXCEPT ![r] = Answered(r)]
  BY <1>2, <1>4, AnsweredStep
<1> QED
  BY <1>3, <1>4 DEF Log

\* The charge moves the meter by what it adds to the day's spending, or more.
LEMMA ChargeStep ==
  ASSUME IInv, NEW r \in Reqs, NEW cost \in Costs, Charge(r, cost)
  PROVE  IInv'
<1> USE DEF IInv
<1>1. /\ handler \in [Reqs -> Locals] /\ handler[r] \in Locals /\ user \in UserRow
      /\ clock \in Nat /\ Today \in Nat /\ cost \in Nat /\ spent \in Nat /\ user.used \in Nat
  BY ReadTypes, ParametersAssumption DEF TypeOK, UserRow
<1>2. /\ user' = [user EXCEPT !.used = @ + cost]
      /\ handler' = [handler EXCEPT ![r].pc = "log", ![r].cost = cost, ![r].charges = @ + 1]
      /\ spent' \in {spent, spent + cost}
      /\ UNCHANGED <<clock, slipped, carried, mails>>
      /\ handler[r].pc = "admitted"
  BY DEF Charge, At
<1>3. handler[r].charges \in Nat /\ handler[r].charges + 1 \in 0..Attempts
  BY <1>1, <1>2, ParametersAssumption DEF Locals, RequestsSound, Sound
<1>4. /\ handler' \in [Reqs -> Locals]
      /\ handler'[r].pc = "log" /\ handler'[r].reset = handler[r].reset
      /\ handler'[r].day = handler[r].day /\ handler'[r].at = handler[r].at
      /\ \A q \in Reqs : q # r => handler'[q] = handler[q]
  <2>1. PICK h \in Locals : h = [handler[r] EXCEPT !.pc = "log", !.cost = cost, !.charges = @ + 1]
    BY <1>1, <1>3 DEF Locals
  <2>2. handler' = [handler EXCEPT ![r] = h]
    BY <1>1, <1>2, <2>1 DEF Locals
  <2> QED
    BY <1>1, <2>1, <2>2 DEF Locals
<1>5. Today' = Today /\ Midnight' = Midnight
  BY <1>2 DEF Today, Midnight
<1>6. /\ user'.used = user.used + cost /\ user'.secs = user.secs
      /\ user'.resetOn = user.resetOn /\ user'.last = user.last
      /\ user' \in UserRow
  BY <1>1, <1>2 DEF UserRow
<1>7. TypeOK'
  BY <1>1, <1>2, <1>4, <1>6 DEF TypeOK
<1>8. DatesPast'
  BY <1>2, <1>5, <1>6 DEF DatesPast
<1>9. RequestsSound'
  BY <1>2, <1>4, <1>5 DEF RequestsSound, Sound
<1>10. MeterShowsSpending'
  BY <1>1, <1>2, <1>5, <1>6 DEF MeterShowsSpending
<1>11. RowTime'
  BY <1>2, <1>5, <1>6 DEF RowTime
<1> QED
  BY <1>7, <1>8, <1>9, <1>10, <1>11

LEMMA AlertStep ==
  ASSUME IInv, NEW r \in Reqs, Alert(r)
  PROVE  IInv'
<1> USE DEF IInv
<1>1. user \in UserRow /\ Today \in Nat /\ clock \in Nat /\ CurrentDate \in Nat
  BY ReadTypes, Dates, ParametersAssumption DEF TypeOK
<1>2. PICK h \in Locals : h = Answered(r)
  BY AnsweredType
<1>3. Sound(h)
  BY <1>1, <1>2, AnsweredType DEF RequestsSound, Sound
<1>4. /\ user' = [user EXCEPT !.alertOn = CurrentDate]
      /\ handler' = [handler EXCEPT ![r] = h]
      /\ mails' \in {mails, mails + 1}
      /\ UNCHANGED <<clock, spent, slipped, carried>>
  BY <1>2 DEF Alert
<1>5. handler' \in [Reqs -> Locals] /\ handler'[r] = h /\ \A q \in Reqs : q # r => handler'[q] = handler[q]
  BY <1>4 DEF TypeOK
<1>6. Today' = Today /\ Midnight' = Midnight
  BY <1>4 DEF Today, Midnight
<1>7. /\ user' \in UserRow
      /\ user'.used = user.used /\ user'.secs = user.secs
      /\ user'.resetOn = user.resetOn /\ user'.last = user.last
  BY <1>1, <1>4 DEF UserRow
<1>8. TypeOK'
  BY <1>4, <1>5, <1>7 DEF TypeOK
<1>9. DatesPast'
  BY <1>4, <1>6, <1>7 DEF DatesPast
<1>10. RequestsSound'
  BY <1>3, <1>4, <1>5, <1>6 DEF RequestsSound, Sound
<1>11. MeterShowsSpending' /\ RowTime'
  BY <1>4, <1>6, <1>7 DEF MeterShowsSpending, RowTime
<1> QED
  BY <1>8, <1>9, <1>10, <1>11

\* The request loses its reset; the row is reset or stays as it is.
LEMMA ResetStep ==
  ASSUME IInv, NEW r \in Reqs, ResetLands(r) \/ ResetFails(r)
  PROVE  IInv'
<1> USE DEF IInv
<1>1. /\ handler \in [Reqs -> Locals] /\ handler[r] \in Locals /\ user \in UserRow
      /\ clock \in Nat /\ Today \in Nat /\ spent \in Nat /\ TimeLimit \in Nat
  BY ReadTypes, ParametersAssumption DEF TypeOK
<1>2. PICK h \in Locals : h = [handler[r] EXCEPT !.reset = NoDay]
  BY <1>1 DEF Locals
<1>3. /\ handler' = [handler EXCEPT ![r] = h]
      /\ UNCHANGED <<clock, spent, carried, mails>>
      /\ handler[r].reset # NoDay
  BY <1>1, <1>2 DEF ResetLands, ResetFails, Locals
<1>4. Sound(handler[r])
  BY DEF RequestsSound
<1>5. Sound(h)
  BY <1>1, <1>2, <1>4 DEF Sound, Locals
<1>6. handler' \in [Reqs -> Locals] /\ handler'[r] = h /\ \A q \in Reqs : q # r => handler'[q] = handler[q]
  BY <1>1, <1>3
<1>7. Today' = Today /\ Midnight' = Midnight
  BY <1>3 DEF Today, Midnight
<1>8. RequestsSound'
  BY <1>3, <1>5, <1>6, <1>7 DEF RequestsSound, Sound
<1>9. CASE ResetLands(r)
  <2>1. handler[r].reset \in Nat \ {0} /\ handler[r].reset <= Today
    BY <1>1, <1>3, <1>4 DEF Locals, Sound
  <2>2. /\ user' = [user EXCEPT !.used = 0, !.secs = 0, !.resetOn = handler[r].reset]
        /\ slipped' = (slipped \/ spent > 0 \/ handler[r].reset # Today)
    BY <1>9 DEF ResetLands
  <2>3. /\ user' \in UserRow
        /\ user'.used = 0 /\ user'.secs = 0
        /\ user'.resetOn = handler[r].reset /\ user'.last = user.last
    <3>1. 0 \in 0..TimeLimit
      BY <1>1
    <3>2. PICK d \in Nat \ {0} : d = handler[r].reset
      BY <2>1
    <3>3. user' = [user EXCEPT !.used = 0, !.secs = 0, !.resetOn = d]
      BY <2>2, <3>2
    <3> QED
      BY <1>1, <3>1, <3>2, <3>3 DEF UserRow
  <2>4. slipped' \in BOOLEAN
    BY <2>2
  <2>5. spent = 0 \/ spent > 0
    BY <1>1
  <2>6. ~slipped' => spent = 0
    BY <2>2, <2>5, Zenon
  <2>7. TypeOK'
    BY <1>3, <1>6, <2>3, <2>4 DEF TypeOK
  <2>8. DatesPast'
    BY <1>3, <1>7, <2>1, <2>3 DEF DatesPast
  <2>9. MeterShowsSpending'
    BY <1>1, <1>3, <2>6, <2>3 DEF MeterShowsSpending
  <2>10. RowTime'
    BY <2>3 DEF RowTime
  <2> QED
    BY <1>8, <2>7, <2>8, <2>9, <2>10
<1>10. CASE ResetFails(r)
  <2>1. slipped' = TRUE /\ user' = user
    BY <1>10 DEF ResetFails
  <2>2. TypeOK'
    BY <1>3, <1>6, <2>1 DEF TypeOK
  <2>3. DatesPast' /\ MeterShowsSpending' /\ RowTime'
    BY <1>3, <1>7, <2>1 DEF DatesPast, MeterShowsSpending, RowTime
  <2> QED
    BY <1>8, <2>2, <2>3
<1> QED
  BY <1>9, <1>10

LEMMA SetPlanStep ==
  ASSUME IInv, NEW plan \in Plans, NEW limit \in Limits, SetPlan(plan, limit)
  PROVE  IInv'
<1> USE DEF IInv
<1>1. user \in UserRow
  BY DEF TypeOK
<1>2. /\ user' = [user EXCEPT !.plan = plan, !.limit = limit]
      /\ UNCHANGED <<handler, clock, spent, slipped, carried, mails>>
  BY DEF SetPlan
<1>3. /\ user' \in UserRow
      /\ user'.used = user.used /\ user'.secs = user.secs
      /\ user'.resetOn = user.resetOn /\ user'.last = user.last
  BY <1>1, <1>2 DEF UserRow
<1>4. Today' = Today /\ Midnight' = Midnight
  BY <1>2 DEF Today, Midnight
<1>5. TypeOK'
  BY <1>2, <1>3 DEF TypeOK
<1>6. DatesPast' /\ RequestsSound' /\ MeterShowsSpending' /\ RowTime'
  BY <1>2, <1>3, <1>4
     DEF DatesPast, RequestsSound, Sound, MeterShowsSpending, RowTime
<1> QED
  BY <1>5, <1>6

\* A new day makes every date of the row and of the requests one of the past.
LEMMA TickStep ==
  ASSUME IInv, Tick
  PROVE  IInv'
<1> USE DEF IInv
<1>1. /\ handler \in [Reqs -> Locals] /\ user \in UserRow /\ clock \in 0..MaxClock
      /\ clock < MaxClock /\ clock \in Nat /\ MaxClock \in Nat
  BY ParametersAssumption DEF TypeOK, Tick
<1>2. clock' = clock + 1 /\ UNCHANGED <<user, handler>> /\ clock' \in 0..MaxClock
  BY <1>1 DEF Tick
<1>3. Today \in Nat /\ Today' \in Nat /\ Today <= Today'
  BY <1>1, <1>2, Dates DEF Today
<1>4. DatesPast'
  BY <1>1, <1>2, <1>3 DEF DatesPast, UserRow
<1>5. \A r \in Reqs : handler[r].reset \in Nat /\ handler[r].day \in Nat /\ handler[r].at \in Nat
  BY <1>1 DEF Locals
<1>6. CASE Today' = Today
  <2>1. UNCHANGED <<spent, slipped, carried, mails>>
    BY <1>6 DEF Tick
  <2>2. Midnight' = Midnight
    BY <1>6 DEF Midnight
  <2>3. TypeOK'
    BY <1>1, <1>2, <2>1 DEF TypeOK
  <2>4. MeterShowsSpending' /\ RowTime'
    BY <1>2, <1>6, <2>1, <2>2 DEF MeterShowsSpending, RowTime
  <2>5. RequestsSound'
    BY <1>1, <1>2, <1>5, <1>6, <2>1, <2>2 DEF RequestsSound, Sound
  <2> QED
    BY <1>4, <2>3, <2>4, <2>5
<1>7. CASE Today < Today'
  <2>1. /\ spent' = 0 /\ slipped' = FALSE /\ mails' = 0
        /\ carried' = (user.resetOn >= Today' /\ user.secs > 0)
    BY <1>3, <1>7 DEF Tick
  <2>2. TypeOK'
    BY <1>1, <1>2, <2>1 DEF TypeOK
  <2>3. user.used \in Nat
    BY <1>1 DEF UserRow
  <2>4. MeterShowsSpending'
    BY <1>2, <2>1, <2>3 DEF MeterShowsSpending
  <2>5. RequestsSound'
    BY <1>1, <1>2, <1>3, <1>5, <1>7 DEF RequestsSound, Sound
  <2>6. RowTime'
    <3>1. carried' <=> user'.resetOn >= Today' /\ user'.secs > 0
      BY <1>2, <2>1
    <3> QED
      BY <3>1 DEF RowTime
  <2> QED
    BY <1>4, <2>2, <2>4, <2>5, <2>6
<1> QED
  BY <1>3, <1>6, <1>7

-----------------------------------------------------------------------------
\* Theorems

LEMMA NextStep == IInv /\ [Next]_vars => IInv'
<1> SUFFICES ASSUME IInv, [Next]_vars PROVE IInv'
  OBVIOUS
<1>1. ASSUME NEW r \in Reqs, Serve(r) PROVE IInv'
  <2>1. CASE Look(r)
    BY <2>1, LookStep
  <2>2. CASE AdmitPaid(r)
    BY <2>2, AdmitPaidStep
  <2>3. CASE AdmitFree(r)
    BY <2>3, AdmitFreeStep
  <2>4. CASE TrackTime(r)
    BY <2>4, TrackTimeStep
  <2>5. CASE TrackRefused(r)
    BY <2>5, TrackRefusedStep
  <2>6. CASE \E cost \in Costs : Charge(r, cost)
    BY <2>6, ChargeStep
  <2>7. CASE Log(r)
    BY <2>7, LogStep
  <2>8. CASE Alert(r)
    BY <2>8, AlertStep
  <2>9. CASE ChargeAgain(r)
    BY <2>9, ChargeAgainStep
  <2>10. CASE ResetLands(r)
    BY <2>10, ResetStep
  <2> QED
    BY <1>1, <2>1, <2>2, <2>3, <2>4, <2>5, <2>6, <2>7, <2>8, <2>9, <2>10 DEF Serve
<1>2. ASSUME NEW r \in Reqs, ResetFails(r) PROVE IInv'
  BY <1>2, ResetStep
<1>3. ASSUME NEW r \in Reqs, Abort(r) PROVE IInv'
  BY <1>3, AnsweredStep DEF Abort
<1>4. ASSUME NEW plan \in Plans, NEW limit \in Limits, SetPlan(plan, limit) PROVE IInv'
  BY <1>4, SetPlanStep
<1>5. CASE Tick
  BY <1>5, TickStep
<1>6. CASE UNCHANGED vars
  <2>1. UNCHANGED <<user, handler, clock, spent, slipped, carried, mails>>
    BY <1>6 DEF vars
  <2>2. Today' = Today /\ Midnight' = Midnight
    BY <2>1 DEF Today, Midnight
  <2> QED
    BY <2>1, <2>2
       DEF IInv, TypeOK, DatesPast, RequestsSound, Sound, MeterShowsSpending, RowTime
<1> QED
  BY <1>1, <1>2, <1>3, <1>4, <1>5, <1>6 DEF Next

\* The row, the requests in flight and the history are sound in every state.
THEOREM Inductive == Spec => []IInv
  BY InitInv, NextStep, PTL DEF Spec

\* Every variable keeps its type (TypeOK): no charge goes past the candidates
\* of its request and no total past the free plan's limit.
THEOREM TypeCorrect == Spec => []TypeOK
<1>1. IInv => TypeOK
  BY DEF IInv
<1> QED
  BY <1>1, Inductive, PTL

\* However many requests are charged at once, today's meter shows every token
\* charged to a request of today, while no reset misfires (MeterShowsSpending).
THEOREM MeterTrue == Spec => []MeterShowsSpending
<1>1. IInv => MeterShowsSpending
  BY DEF IInv
<1> QED
  BY <1>1, Inductive, PTL

\* However requests interleave, the time charged to a day fits between the
\* last idle gap before midnight and now (RowTime).
THEOREM TimeTrue == Spec => []TimeNeverOvercounted
<1>1. IInv => TimeNeverOvercounted
  <2> SUFFICES ASSUME IInv PROVE TimeNeverOvercounted
    OBVIOUS
  <2>1. Today \in Nat
    BY ReadTypes DEF IInv
  <2> QED
    BY <2>1 DEF IInv, RowTime, TimeNeverOvercounted
<1> QED
  BY <1>1, Inductive, PTL

\* In a settled state nobody takes the row for yesterday's.
LEMMA SettledStep ==
  ASSUME ~Ahead, IInv, Next, Settled, Today' = Today
  PROVE  Settled' /\ user'.used >= user.used
<1> DEFINE Quiet == \A r \in Reqs : handler'[r].reset = NoDay
<1>1. /\ handler \in [Reqs -> Locals] /\ user \in UserRow /\ user.used \in Nat
      /\ user.resetOn = Today /\ \A r \in Reqs : handler[r].reset = NoDay
  BY DEF IInv, TypeOK, UserRow, Settled
<1>2. ~Stale /\ ResetSent = NoDay
  BY <1>1 DEF Stale, DayRead, ResetSent
<1>3. SUFFICES Quiet /\ user'.resetOn = user.resetOn /\ user'.used >= user.used
  BY <1>1 DEF Settled
<1>4. \A r \in Reqs : Answered(r).reset = NoDay
  BY <1>1, AnsweredType DEF IInv
<1>5. ASSUME NEW r \in Reqs, Serve(r) PROVE Quiet /\ user'.resetOn = user.resetOn /\ user'.used >= user.used
  <2>1. CASE AdmitPaid(r)
    BY <1>1, <1>2, <2>1 DEF AdmitPaid, Copy
  <2>2. CASE AdmitFree(r)
    BY <1>1, <1>2, <2>2 DEF AdmitFree, Copy
  <2>3. CASE TrackTime(r)
    BY <1>1, <2>3 DEF TrackTime, UserRow, Locals
  <2>4. CASE TrackRefused(r)
    <3>1. [Answered(r) EXCEPT !.pc = "hung"].reset = NoDay
      BY <1>4, AnsweredType DEF IInv, Locals
    <3> QED
      BY <1>1, <2>4, <3>1 DEF TrackRefused
  <2>5. CASE \E cost \in Costs : Charge(r, cost)
    BY <1>1, <2>5, ParametersAssumption DEF Charge, UserRow, Locals
  <2>6. CASE Log(r)
    BY <1>1, <1>4, <2>6 DEF Log, Locals
  <2>7. CASE Alert(r)
    BY <1>1, <1>4, <2>7 DEF Alert, UserRow
  <2>8. CASE ChargeAgain(r)
    BY <1>1, <2>8 DEF ChargeAgain, Locals
  <2> QED
    BY <1>1, <1>2, <1>5, <2>1, <2>2, <2>3, <2>4, <2>5, <2>6, <2>7, <2>8 DEF Serve, Look, ResetLands
<1>6. ASSUME NEW r \in Reqs, ResetFails(r) PROVE FALSE
  BY <1>1, <1>6 DEF ResetFails
<1>7. ASSUME NEW r \in Reqs, Abort(r) PROVE Quiet /\ user' = user
  BY <1>1, <1>4, <1>7 DEF Abort
<1>8. ASSUME NEW plan \in Plans, NEW limit \in Limits, SetPlan(plan, limit)
      PROVE  Quiet /\ user'.resetOn = user.resetOn /\ user'.used = user.used
  BY <1>1, <1>8 DEF SetPlan, UserRow
<1>9. CASE Tick
  BY <1>1, <1>9 DEF Tick
<1> QED
  BY <1>1, <1>5, <1>6, <1>7, <1>8, <1>9 DEF Next

\* In a process that does not run east of UTC, once today's reset has landed
\* nothing charged is forgotten until midnight (SettledStays).
THEOREM ResetOnce ==
  ASSUME ~Ahead
  PROVE  Spec => SettledStays
<1>1. IInv /\ [Next]_vars => [Settled /\ Today' = Today => Settled' /\ user'.used >= user.used]_vars
  BY SettledStep DEF vars
<1> QED
  BY <1>1, Inductive, PTL DEF Spec, SettledStays

-----------------------------------------------------------------------------
\* The steps of a request, by what they do to its account of the day

OthersAlone(r) ==
    /\ \A q \in Reqs \ {r} : handler'[q] = handler[q]
    /\ clock' = clock
    /\ user'.resetOn = user.resetOn

Busy(r) == handler[r].pc \notin {"idle", "hung"}

\* A request is over.
Over(r) ==
    /\ OthersAlone(r)
    /\ ~Busy(r)'
    /\ handler'[r].reset = handler[r].reset /\ handler'[r].alertOn = NoDay
    /\ spent' = spent /\ slipped' = slipped

\* A request was admitted.
Admitted(r) ==
    /\ OthersAlone(r)
    /\ Free(r) /\ QuotaLeft
    /\ handler'[r].pc # "alert" /\ handler'[r].day = Today /\ handler'[r].charges = 0
    /\ handler'[r].reset = ResetSent /\ handler'[r].alertOn = user.alertOn
    /\ spent' = spent /\ slipped' = slipped

\* A request goes on, charged or not.
GoesOn(r) ==
    /\ OthersAlone(r)
    /\ Busy(r)
    /\ handler'[r].day = handler[r].day /\ handler'[r].reset = handler[r].reset
    /\ handler'[r].alertOn = handler[r].alertOn
    /\ slipped' = slipped

Uncharged(r) == GoesOn(r) /\ handler'[r].charges = handler[r].charges /\ spent' = spent

Charged(r) ==
    /\ GoesOn(r)
    /\ handler[r].charges < Attempts /\ handler'[r].charges = handler[r].charges + 1
    /\ handler'[r].pc # "alert"
    /\ \E cost \in Costs : spent' = IF handler[r].day = Today THEN spent + cost ELSE spent

(* Look sends a reset from a free slot. *)
LEMMA LookFacts ==
    ASSUME TypeOK, NEW r \in Reqs, Look(r)
    PROVE  /\ OthersAlone(r) /\ ~Busy(r) /\ ~Busy(r)' /\ Stale /\ handler[r].reset = NoDay
           /\ handler'[r].reset = Today /\ handler'[r].alertOn = NoDay
           /\ UNCHANGED <<user, spent, slipped, mails>>
<1>1. handler \in [Reqs -> Locals] /\ Idle \in Locals
  BY IdleType DEF TypeOK
<1>2. handler'[r] = [Idle EXCEPT !.reset = ResetSent] /\ \A q \in Reqs \ {r} : handler'[q] = handler[q]
  BY <1>1 DEF Look
<1>3. handler'[r].reset = ResetSent /\ handler'[r].pc = "idle" /\ handler'[r].alertOn = NoDay
  BY <1>2 DEF Idle
<1> QED
  BY <1>2, <1>3 DEF Look, Free, At, OthersAlone, Busy, ResetSent

(* Whatever the middleware computes, it admits a request of today. *)
LEMMA AdmitFacts ==
    ASSUME TypeOK, NEW r \in Reqs, AdmitPaid(r) \/ AdmitFree(r)
    PROVE  Admitted(r) /\ UNCHANGED <<user, mails>>
<1>1. handler \in [Reqs -> Locals]
  BY DEF TypeOK
<1>2. UNCHANGED <<user, clock, spent, slipped, mails>> /\ Free(r) /\ QuotaLeft
  BY DEF AdmitPaid, AdmitFree
<1>3. ASSUME NEW pc \in {"admitted", "track"}, NEW total, NEW at, NEW exact,
             handler' = [handler EXCEPT ![r] = Copy(pc, total, at, exact)]
      PROVE  Admitted(r)
  <2>1. handler'[r] = Copy(pc, total, at, exact) /\ \A q \in Reqs \ {r} : handler'[q] = handler[q]
    BY <1>1, <1>3
  <2> QED
    BY <1>2, <2>1 DEF Copy, Admitted, OthersAlone
<1> QED
  BY <1>2, <1>3 DEF AdmitPaid, AdmitFree

(* Six ways to be over: the answer, with and without a mail, the refusals. *)
LEMMA OverFacts ==
    ASSUME TypeOK, NEW r \in Reqs,
           \/ TrackRefused(r) \/ Alert(r) \/ Abort(r)
           \/ (Log(r) /\ ~AlertDue(r))
    PROVE  Over(r)
<1>1. handler \in [Reqs -> Locals] /\ user \in UserRow
  BY DEF TypeOK
<1>2. clock' = clock /\ spent' = spent /\ slipped' = slipped /\ user'.resetOn = user.resetOn
  BY <1>1 DEF TrackRefused, Alert, Abort, Log, UserRow
<1>3. PICK h \in Locals : /\ handler' = [handler EXCEPT ![r] = h]
                          /\ h.pc \in {"idle", "hung"} /\ h.reset = handler[r].reset /\ h.alertOn = NoDay
  <2>1. PICK a \in Locals : a = Answered(r)
    BY AnsweredType
  <2>2. a.pc = "idle" /\ a.reset = handler[r].reset /\ a.alertOn = NoDay
    BY <2>1, AnsweredType DEF Answered, Idle
  <2>3. CASE TrackRefused(r)
    <3>1. PICK h \in Locals : h = [a EXCEPT !.pc = "hung"]
      BY DEF Locals
    <3>2. h.pc = "hung" /\ h.reset = handler[r].reset /\ h.alertOn = NoDay
      BY <2>2, <3>1 DEF Locals
    <3>3. handler' = [handler EXCEPT ![r] = h]
      BY <2>1, <2>3, <3>1 DEF TrackRefused
    <3> QED
      BY <3>2, <3>3
  <2>4. CASE Alert(r) \/ Abort(r) \/ (Log(r) /\ ~AlertDue(r))
    <3>1. handler' = [handler EXCEPT ![r] = a]
      BY <2>1, <2>4 DEF Alert, Abort, Log
    <3> QED
      BY <2>2, <3>1
  <2> QED
    BY <2>3, <2>4
<1>4. handler'[r] = h /\ \A q \in Reqs \ {r} : handler'[q] = handler[q]
  BY <1>1, <1>3
<1> QED
  BY <1>2, <1>3, <1>4 DEF Over, OthersAlone, Busy

(* A request that waits, tracks its time, logs or tries again goes on; an alert
   is only ahead of it when it is due. *)
LEMMA OnFacts ==
    ASSUME TypeOK, NEW r \in Reqs,
           \/ TrackTime(r) \/ ChargeAgain(r)
           \/ (Log(r) /\ AlertDue(r))
    PROVE  Uncharged(r) /\ mails' = mails /\ user'.alertOn = user.alertOn
           /\ (handler'[r].pc = "alert" => AlertDue(r))
<1>1. handler \in [Reqs -> Locals] /\ handler[r] \in Locals /\ user \in UserRow
  BY DEF TypeOK
<1>2. /\ UNCHANGED <<clock, spent, slipped, mails>> /\ Busy(r)
      /\ user'.resetOn = user.resetOn /\ user'.alertOn = user.alertOn
  BY <1>1 DEF TrackTime, ChargeAgain, Log, UserRow, Busy, At
<1>3. CASE TrackTime(r)
  <2>1. handler' = [handler EXCEPT ![r].pc = "admitted", ![r].total = 0, ![r].at = 0]
    BY <1>3 DEF TrackTime
  <2>2. /\ handler'[r].pc = "admitted" /\ handler'[r].day = handler[r].day
        /\ handler'[r].reset = handler[r].reset /\ handler'[r].alertOn = handler[r].alertOn
        /\ handler'[r].charges = handler[r].charges /\ \A q \in Reqs \ {r} : handler'[q] = handler[q]
    BY <1>1, <2>1 DEF Locals
  <2> QED
    BY <1>2, <2>2 DEF Uncharged, GoesOn, OthersAlone
<1>4. CASE ChargeAgain(r)
  <2>1. handler' = [handler EXCEPT ![r].pc = "admitted", ![r].cost = 0]
    BY <1>4 DEF ChargeAgain
  <2>2. /\ handler'[r].pc = "admitted" /\ handler'[r].day = handler[r].day
        /\ handler'[r].reset = handler[r].reset /\ handler'[r].alertOn = handler[r].alertOn
        /\ handler'[r].charges = handler[r].charges /\ \A q \in Reqs \ {r} : handler'[q] = handler[q]
    BY <1>1, <2>1 DEF Locals
  <2> QED
    BY <1>2, <2>2 DEF Uncharged, GoesOn, OthersAlone
<1>5. CASE Log(r) /\ AlertDue(r)
  <2>1. handler' = [handler EXCEPT ![r] = [handler[r] EXCEPT !.pc = "alert"]]
    BY <1>5 DEF Log
  <2>2. /\ handler'[r].pc = "alert" /\ handler'[r].day = handler[r].day
        /\ handler'[r].reset = handler[r].reset /\ handler'[r].alertOn = handler[r].alertOn
        /\ handler'[r].charges = handler[r].charges /\ \A q \in Reqs \ {r} : handler'[q] = handler[q]
    BY <1>1, <2>1 DEF Locals
  <2> QED
    BY <1>2, <1>5, <2>2 DEF Uncharged, GoesOn, OthersAlone
<1> QED
  BY <1>3, <1>4, <1>5

(* A charge counts on the day the request came; it takes one of its attempts. *)
LEMMA ChargeFacts ==
    ASSUME TypeOK, RequestsSound, NEW r \in Reqs, NEW cost \in Costs, Charge(r, cost)
    PROVE  Charged(r) /\ mails' = mails /\ user'.alertOn = user.alertOn
<1>1. handler \in [Reqs -> Locals] /\ handler[r] \in Locals /\ user \in UserRow
  BY DEF TypeOK
<1>2. /\ UNCHANGED <<clock, slipped, mails>> /\ handler[r].pc = "admitted"
      /\ spent' = (IF handler[r].day = Today THEN spent + cost ELSE spent)
      /\ user' = [user EXCEPT !.used = @ + cost]
      /\ handler' = [handler EXCEPT ![r].pc = "log", ![r].cost = cost, ![r].charges = @ + 1]
  BY DEF Charge, At
<1>3. user'.resetOn = user.resetOn /\ user'.alertOn = user.alertOn
  BY <1>1, <1>2 DEF UserRow
<1>4. /\ handler'[r].pc = "log" /\ handler'[r].day = handler[r].day
      /\ handler'[r].reset = handler[r].reset /\ handler'[r].alertOn = handler[r].alertOn
      /\ handler'[r].charges = handler[r].charges + 1
      /\ \A q \in Reqs \ {r} : handler'[q] = handler[q]
  BY <1>1, <1>2 DEF Locals
<1>5. handler[r].charges < Attempts
  BY <1>2 DEF RequestsSound, Sound
<1> QED
  BY <1>2, <1>3, <1>4, <1>5 DEF Charged, GoesOn, OthersAlone, Busy

(* A reset that is no longer under way leaves the rest of its request alone. *)
LEMMA ResetFacts ==
    ASSUME TypeOK, NEW r \in Reqs, ResetLands(r) \/ ResetFails(r)
    PROVE  /\ \A q \in Reqs \ {r} : handler'[q] = handler[q]
           /\ handler'[r].pc = handler[r].pc /\ handler'[r].day = handler[r].day
           /\ handler'[r].charges = handler[r].charges /\ handler'[r].alertOn = handler[r].alertOn
           /\ UNCHANGED <<clock, spent, mails>> /\ user'.alertOn = user.alertOn
           /\ ResetLands(r) => user'.resetOn = handler[r].reset
<1>1. handler \in [Reqs -> Locals] /\ handler[r] \in Locals /\ user \in UserRow
  BY DEF TypeOK
<1>2. handler' = [handler EXCEPT ![r].reset = NoDay] /\ UNCHANGED <<clock, spent, mails>>
  BY DEF ResetLands, ResetFails
<1>3. /\ \A q \in Reqs \ {r} : handler'[q] = handler[q]
      /\ handler'[r].pc = handler[r].pc /\ handler'[r].day = handler[r].day
      /\ handler'[r].charges = handler[r].charges /\ handler'[r].alertOn = handler[r].alertOn
  BY <1>1, <1>2 DEF Locals
<1>4. ResetLands(r) => user'.resetOn = handler[r].reset /\ user'.alertOn = user.alertOn
  BY <1>1 DEF ResetLands, UserRow
<1> QED
  BY <1>2, <1>3, <1>4 DEF ResetFails

-----------------------------------------------------------------------------
\* The alerts of a day

\* Do the process and the database go by the same date?
Agreed == CurrentDate = Today

\* Requests that have not seen that an alert was sent today, or are past looking.
Mailing == {r \in Reqs : Busy(r) /\ (handler[r].alertOn # Today \/ At(r, "alert"))}

\* While the dates agree each mail of the day took one of them, and after the
\* first no request joins them.  West of UTC the hours of agreement come last
\* in a day and start without mails; east of UTC they come first.
MailInv ==
    /\ CurrentDate < Today => mails = 0
    /\ mails <= N
    /\ Agreed => /\ mails > 0 => user.alertOn = Today
                 /\ mails + Cardinality(Mailing) <= N

(* A subset of the slots has at most N members. *)
LEMMA SlotsCounted ==
    ASSUME IsFiniteSet(Reqs), NEW S \in SUBSET Reqs
    PROVE  IsFiniteSet(S) /\ Cardinality(S) \in 0..N /\ N \in Nat
<1>1. IsFiniteSet(S) /\ Cardinality(S) <= N
  BY FS_Subset DEF N
<1> QED
  BY <1>1, FS_CardinalityType DEF N

(* A step that sends no mail keeps the bound if it lets no request join, or no
   mail was sent before. *)
LEMMA NoMail ==
    ASSUME IInv, MailInv, IsFiniteSet(Reqs), mails' = mails, user'.alertOn = user.alertOn, clock' = clock,
           Agreed /\ mails # 0 => Mailing' \subseteq Mailing
    PROVE  MailInv'
<1>1. mails \in Nat
  BY DEF IInv, TypeOK
<1>2. Mailing \in SUBSET Reqs /\ Mailing' \in SUBSET Reqs
  BY DEF Mailing
<1>3. /\ Cardinality(Mailing) \in Nat /\ Cardinality(Mailing') \in 0..N /\ N \in Nat
      /\ IsFiniteSet(Mailing)
  BY <1>2, SlotsCounted
<1>4. Today' = Today /\ CurrentDate' = CurrentDate /\ (Agreed' <=> Agreed)
  BY DEF Today, CurrentDate, Agreed
<1>5. ASSUME Agreed PROVE mails' + Cardinality(Mailing') <= N
  <2>1. CASE mails = 0
    BY <1>3, <2>1
  <2>2. CASE mails # 0
    <3>1. Cardinality(Mailing') <= Cardinality(Mailing)
      BY <1>3, <1>5, <2>2, FS_Subset
    <3> QED
      BY <1>1, <1>3, <1>5, <3>1 DEF MailInv
  <2> QED
    BY <2>1, <2>2
<1> QED
  BY <1>4, <1>5 DEF MailInv, N

(* The steps of a request. *)
LEMMA MailServe ==
    ASSUME ~Ahead, IInv, MailInv, IsFiniteSet(Reqs), NEW r \in Reqs, Serve(r) \/ ResetFails(r) \/ Abort(r)
    PROVE  MailInv'
<1>1. TypeOK /\ RequestsSound /\ Today \in Nat \ {0}
  BY ReadTypes DEF IInv
<1>2. ASSUME clock' = clock, mails' = mails, user'.alertOn = user.alertOn,
             \A q \in Reqs \ {r} : handler'[q] = handler[q],
             Busy(r)' => \/ handler'[r].alertOn = user.alertOn /\ ~At(r, "alert")'
                         \/ /\ Busy(r) /\ handler'[r].alertOn = handler[r].alertOn
                            /\ At(r, "alert")' => At(r, "alert") \/ handler[r].alertOn # Today
      PROVE  MailInv'
  <2>1. Today' = Today
    BY <1>2 DEF Today
  <2>2. ASSUME Agreed, mails # 0 PROVE Mailing' \subseteq Mailing
    <3>1. user.alertOn = Today
      <4>1. mails > 0
        BY <1>1, <2>2 DEF TypeOK
      <4> QED
        BY <2>2, <4>1 DEF MailInv
    <3>2. \A q \in Reqs \ {r} : q \in Mailing' => q \in Mailing
      BY <1>2, <2>1 DEF Mailing, Busy, At
    <3>3. r \in Mailing' => r \in Mailing
      BY <1>2, <2>1, <3>1 DEF Mailing
    <3> QED
      BY <3>2, <3>3 DEF Mailing
  <2> QED
    BY <1>2, <2>2, NoMail
<1>3. CASE Look(r)
  BY <1>1, <1>2, <1>3, LookFacts DEF OthersAlone
<1>4. CASE AdmitPaid(r) \/ AdmitFree(r)
  BY <1>1, <1>2, <1>4, AdmitFacts DEF OthersAlone, Admitted, At
<1>5. CASE TrackRefused(r) \/ Abort(r) \/ (Log(r) /\ ~AlertDue(r))
  <2>1. Over(r)
    BY <1>1, <1>5, OverFacts
  <2>2. user' = user /\ mails' = mails
    BY <1>5 DEF TrackRefused, Abort, Log
  <2> QED
    BY <1>2, <2>1, <2>2 DEF Over, OthersAlone
<1>6. CASE TrackTime(r) \/ ChargeAgain(r) \/ (Log(r) /\ AlertDue(r))
  <2>1. /\ Uncharged(r) /\ mails' = mails /\ user'.alertOn = user.alertOn
        /\ handler'[r].pc = "alert" => AlertDue(r)
    BY <1>1, <1>6, OnFacts
  <2>2. AlertDue(r) => handler[r].alertOn # Today
    BY <1>1 DEF AlertDue, DayRead
  <2> QED
    BY <1>2, <2>1, <2>2 DEF Uncharged, GoesOn, OthersAlone, At
<1>7. CASE \E cost \in Costs : Charge(r, cost)
  <2>1. Charged(r) /\ mails' = mails /\ user'.alertOn = user.alertOn
    BY <1>1, <1>7, ChargeFacts
  <2> QED
    BY <1>2, <2>1 DEF Charged, GoesOn, OthersAlone, At
<1>8. CASE ResetLands(r) \/ ResetFails(r)
  <2>1. /\ \A q \in Reqs \ {r} : handler'[q] = handler[q]
        /\ handler'[r].pc = handler[r].pc /\ handler'[r].alertOn = handler[r].alertOn
        /\ UNCHANGED <<clock, spent, mails>> /\ user'.alertOn = user.alertOn
    BY <1>1, <1>8, ResetFacts
  <2> QED
    BY <1>2, <2>1 DEF Busy, At
<1>9. CASE Alert(r)
  <2>1. Over(r)
    BY <1>1, <1>9, OverFacts
  <2>2. user'.alertOn = CurrentDate /\ mails' = (IF Agreed THEN mails + 1 ELSE mails) /\ At(r, "alert")
    BY <1>1, <1>9 DEF Alert, TypeOK, UserRow, Agreed
  <2>3. Today' = Today /\ CurrentDate' = CurrentDate /\ (Agreed' <=> Agreed)
    BY <2>1 DEF Over, OthersAlone, Today, CurrentDate, Agreed
  <2>4. CASE ~Agreed
    BY <2>2, <2>3, <2>4 DEF MailInv, N, Agreed
  <2>5. CASE Agreed
    <3>1. r \in Mailing
      BY <2>2 DEF Mailing, Busy, At
    <3>2. Mailing' \subseteq Mailing \ {r}
      BY <2>1, <2>3 DEF Mailing, Over, OthersAlone, Busy, At
    <3>3. Mailing \in SUBSET Reqs /\ Mailing' \in SUBSET Reqs
      BY DEF Mailing
    <3>4. IsFiniteSet(Mailing) /\ Cardinality(Mailing) \in Nat /\ N \in Nat
      BY <3>3, SlotsCounted
    <3>5. IsFiniteSet(Mailing \ {r}) /\ Cardinality(Mailing \ {r}) = Cardinality(Mailing) - 1
      BY <3>1, <3>4, FS_RemoveElement
    <3>6. Cardinality(Mailing') \in Nat /\ Cardinality(Mailing') <= Cardinality(Mailing) - 1
      BY <3>2, <3>5, FS_Subset, FS_CardinalityType
    <3>7. mails \in Nat /\ mails + Cardinality(Mailing) <= N
      BY <1>1, <2>5 DEF MailInv, TypeOK
    <3>8. mails' = mails + 1
      BY <2>2, <2>5
    <3>9. mails' + Cardinality(Mailing') <= N /\ mails' <= N
      BY <3>4, <3>6, <3>7, <3>8
    <3>10. user'.alertOn = Today /\ CurrentDate = Today
      BY <2>2, <2>5 DEF Agreed
    <3> QED
      BY <1>1, <2>3, <3>9, <3>10 DEF MailInv, N
  <2> QED
    BY <2>4, <2>5
<1> QED
  BY <1>3, <1>4, <1>5, <1>6, <1>7, <1>8, <1>9 DEF Serve

(* A second later.  The dates of a day come to agree once at most, and before
   the database has caught up no mail counts. *)
LEMMA MailTick ==
    ASSUME IInv, MailInv, IsFiniteSet(Reqs), Tick
    PROVE  MailInv'
<1>1. clock \in Nat /\ clock' = clock + 1 /\ UNCHANGED <<user, handler>> /\ mails \in Nat
  BY ParametersAssumption DEF Tick, IInv, TypeOK
<1>2. /\ Today \in Nat /\ Today' \in Nat /\ Today <= Today'
      /\ CurrentDate \in Nat /\ CurrentDate' \in Nat /\ CurrentDate <= CurrentDate'
  <2>1. clock' \in Nat
    BY <1>1
  <2>2. Today' \in Nat /\ CurrentDate' \in Nat
    <3>1. clock' \in Nat => Day(clock') \in Nat /\ Day(clock' + DbOffset) \in Nat
      <4>1. ASSUME NEW c \in Nat PROVE Day(c) \in Nat /\ Day(c + DbOffset) \in Nat
        <5>1. c + DayLength >= 0 /\ c \in Int /\ (c + DbOffset) + DayLength >= 0 /\ c + DbOffset \in Int
          BY ParametersAssumption
        <5> QED
          BY <5>1, DayType
      <4> QED
        BY <4>1
    <3> QED
      BY <2>1, <3>1 DEF Today, CurrentDate
  <2>3. Today' = Day(clock + 1) /\ CurrentDate' = Day(clock + 1 + DbOffset)
    BY <1>1 DEF Today, CurrentDate
  <2> QED
    BY <1>1, <2>2, <2>3, Dates
<1>3. Mailing' \in SUBSET Reqs
  BY DEF Mailing
<1>4. Cardinality(Mailing') \in 0..N /\ N \in Nat /\ N' = N
  BY <1>3, SlotsCounted DEF N
<1>5. CASE Today' # Today
  <2>1. mails' = 0
    BY <1>5 DEF Tick
  <2> QED
    BY <1>4, <2>1 DEF MailInv
<1>6. CASE Today' = Today
  <2>1. mails' = mails /\ mails <= N /\ (CurrentDate < Today => mails = 0)
    BY <1>6 DEF Tick, MailInv
  <2>2. CASE CurrentDate < Today
    BY <1>2, <1>4, <1>6, <2>1, <2>2 DEF MailInv
  <2>3. CASE Today <= CurrentDate
    <3>1. ~(CurrentDate' < Today')
      BY <1>2, <1>6, <2>3
    <3>2. ASSUME Agreed' PROVE Agreed
      BY <1>2, <1>6, <2>3, <3>2 DEF Agreed
    <3>3. Mailing' = Mailing
      BY <1>1, <1>6 DEF Mailing, Busy, At
    <3> QED
      BY <1>1, <1>4, <1>6, <2>1, <3>1, <3>2, <3>3 DEF MailInv
  <2> QED
    BY <1>2, <2>2, <2>3
<1> QED
  BY <1>5, <1>6

(* Every step, also of billing and of the clock. *)
LEMMA MailNext ==
    ASSUME ~Ahead, IInv, MailInv, IsFiniteSet(Reqs), [Next]_vars
    PROVE  MailInv'
<1>1. CASE \E r \in Reqs : Serve(r) \/ ResetFails(r) \/ Abort(r)
  BY <1>1, MailServe
<1>2. ASSUME UNCHANGED <<handler, clock, mails>>, user'.alertOn = user.alertOn PROVE MailInv'
  <2>1. Mailing' = Mailing
    BY <1>2 DEF Mailing, Busy, At, Today
  <2> QED
    BY <1>2, <2>1, NoMail
<1>3. CASE \E plan \in Plans, limit \in Limits : SetPlan(plan, limit)
  BY <1>2, <1>3 DEF SetPlan, IInv, TypeOK, UserRow
<1>4. CASE Tick
  BY <1>4, MailTick
<1>5. CASE UNCHANGED vars
  BY <1>2, <1>5 DEF vars
<1> QED
  BY <1>1, <1>3, <1>4, <1>5 DEF Next

(* Over the hours of a day in which the database has the same date, the alert
   mails are no more than the requests that can be in flight, in a process that
   does not run east of UTC, whatever the zone of the database's session
   (routes/gateway.js:33-38). *)
THEOREM Alerts ==
    ASSUME ~Ahead, IsFiniteSet(Reqs)
    PROVE  Spec => []AlertsBounded
<1>1. Init => MailInv
  <2> SUFFICES ASSUME Init PROVE MailInv
    OBVIOUS
  <2>1. mails = 0
    BY DEF Init
  <2>2. Mailing \in SUBSET Reqs
    BY DEF Mailing
  <2>3. Cardinality(Mailing) \in 0..N /\ N \in Nat
    BY <2>2, SlotsCounted
  <2> QED
    BY <2>1, <2>3 DEF MailInv
<1>2. IInv /\ MailInv /\ [Next]_vars => MailInv'
  BY MailNext
<1>3. MailInv => AlertsBounded
  BY DEF MailInv, AlertsBounded
<1> QED
  BY <1>1, <1>2, <1>3, Inductive, PTL DEF Spec


-----------------------------------------------------------------------------
\* The cap of a day

HasLargest(S) == \E x \in S : \A y \in S : y <= x

\* What the property speaks of: a finite process, limits that let something
\* through, and clocks that agree on the day.
Bounded ==
    /\ ~Ahead
    /\ IsFiniteSet(Reqs)
    /\ HasLargest(Limits) /\ Limits # {0}
    /\ HasLargest(Costs)

(* CHOOSE finds the largest element if there is one. *)
LEMMA LargestFacts ==
    ASSUME NEW S, HasLargest(S)
    PROVE  Largest(S) \in S /\ \A y \in S : y <= Largest(S)
  BY DEF HasLargest, Largest

BusyToday(r) == Busy(r) /\ handler[r].day = Today

\* The slot can take a request before today's reset has landed.
Fresh(r) == ~BusyToday(r) /\ handler[r].reset # Today

\* The i-th charge of a slot may still come: of the request in it, or, as long
\* as the row shows another day's reset, of one that takes it.
MayCharge(r, i) ==
    \/ BusyToday(r) /\ handler[r].charges < i
    \/ user.resetOn # Today /\ Fresh(r)

Units == Reqs \X (1..Attempts)
Left == {u \in Units : MayCharge(u[1], u[2])}
AllUnits == N * Attempts * Largest(Costs)
Weight(S) == Cardinality(S) * Largest(Costs)

\* Until today's reset has landed every slot serves one request at most, as the
\* reset it sent is still under way; afterwards the meter lets nobody in who
\* finds the limit spent.
CapInv ==
    ~slipped =>
        /\ user.resetOn = Today => spent + Weight(Left) <= Largest(Limits) - 1 + AllUnits
        /\ user.resetOn # Today => spent + Weight(Left) <= AllUnits
        /\ user.resetOn # Today => \A r \in Reqs : BusyToday(r) => handler[r].reset = Today

(* What charges can weigh, those of any set of units no more than all. *)
LEMMA WeightFacts ==
    ASSUME Bounded, NEW S \in SUBSET Units
    PROVE  /\ Largest(Costs) \in Nat /\ Largest(Limits) \in Nat \ {0} /\ AllUnits \in Nat
           /\ Weight(S) \in 0..AllUnits
           /\ \A T \in SUBSET S : Weight(T) <= Weight(S)
           /\ \A T \in SUBSET S : \A x \in S \ T : Weight(T) + Largest(Costs) <= Weight(S)
<1>1. Largest(Costs) \in Nat /\ \A y \in Costs : y <= Largest(Costs)
  BY LargestFacts, ParametersAssumption DEF Bounded
<1>2. Largest(Limits) \in Nat \ {0}
  <2>1. Largest(Limits) \in Limits /\ \A y \in Limits : y <= Largest(Limits)
    BY LargestFacts DEF Bounded
  <2>2. Limits # {0}
    BY DEF Bounded
  <2>3. \E l \in Limits : l # 0
    <3> SUFFICES ASSUME \A l \in Limits : l = 0 PROVE FALSE
      OBVIOUS
    <3>1. Limits = {0}
      BY <2>1
    <3> QED
      BY <2>2, <3>1
  <2>4. PICK l \in Limits : l # 0
    BY <2>3
  <2>5. l \in Nat /\ Largest(Limits) \in Nat /\ l <= Largest(Limits)
    BY <2>1, ParametersAssumption
  <2> QED
    BY <2>4, <2>5
<1>3. \A a, b, c \in Nat : a <= b => a * c <= b * c
  OBVIOUS
<1>4. IsFiniteSet(Units) /\ Cardinality(Units) = N * Attempts /\ N \in Nat /\ Attempts \in Nat
  <2>1. IsFiniteSet(1..Attempts) /\ Cardinality(1..Attempts) = Attempts
    BY FS_Interval, ParametersAssumption
  <2>2. IsFiniteSet(Units) /\ Cardinality(Units) = Cardinality(Reqs) * Cardinality(1..Attempts)
    BY <2>1, FS_Product DEF Bounded, Units
  <2> QED
    BY <2>1, <2>2, FS_CardinalityType, ParametersAssumption DEF Bounded, N
<1>5. \A T \in SUBSET Units : IsFiniteSet(T) /\ Cardinality(T) \in 0..(N * Attempts)
  BY <1>4, FS_Subset, FS_CardinalityType
<1>6. N * Attempts \in Nat
  BY <1>4, FS_CardinalityType
<1>7. AllUnits \in Nat /\ \A T \in SUBSET Units : Weight(T) \in 0..AllUnits
  <2>1. PICK k \in Nat : k = N * Attempts
    BY <1>6
  <2>2. AllUnits = k * Largest(Costs)
    BY <2>1 DEF AllUnits
  <2>3. \A T \in SUBSET Units : Cardinality(T) \in Nat /\ Cardinality(T) <= k
    BY <1>5, <2>1
  <2>4. \A a \in Nat : a * Largest(Costs) \in Nat
    BY <1>1
  <2> QED
    BY <1>1, <1>3, <2>2, <2>3, <2>4 DEF Weight
<1>8. \A T \in SUBSET S : Cardinality(T) \in Nat /\ Cardinality(S) \in Nat /\ Cardinality(T) <= Cardinality(S)
  BY <1>5, FS_Subset
<1>9. \A T \in SUBSET S : Weight(T) <= Weight(S)
  BY <1>1, <1>3, <1>8 DEF Weight
<1>10. ASSUME NEW T \in SUBSET S, NEW x \in S \ T
       PROVE  Weight(T) + Largest(Costs) <= Weight(S)
  <2>1. PICK a \in Nat : a = Cardinality(T)
    BY <1>8
  <2>2. PICK b \in Nat : b = Cardinality(S)
    BY <1>8
  <2>3. a + 1 <= b
    <3>1. IsFiniteSet(S \ {x}) /\ Cardinality(S \ {x}) = Cardinality(S) - 1
      BY <1>5, FS_RemoveElement
    <3>2. T \in SUBSET (S \ {x})
      OBVIOUS
    <3>3. Cardinality(T) <= Cardinality(S \ {x})
      BY <3>1, <3>2, FS_Subset
    <3> QED
      BY <2>1, <2>2, <3>1, <3>3
  <2>4. (a + 1) * Largest(Costs) <= b * Largest(Costs)
    BY <1>1, <1>3, <2>3
  <2>5. (a + 1) * Largest(Costs) = a * Largest(Costs) + Largest(Costs)
    BY <1>1
  <2> QED
    BY <2>1, <2>2, <2>4, <2>5 DEF Weight
<1> QED
  BY <1>1, <1>2, <1>7, <1>9, <1>10

(* The charges that may come are units before and after a step. *)
LEMMA LeftType == Left \in SUBSET Units /\ Left' \in SUBSET Units /\ Weight(Left)' = Weight(Left')
  BY DEF Left, Units, Weight

(* A step after which no charge may come that could not come before. *)
LEMMA CapKept ==
    ASSUME Bounded, IInv, CapInv,
           Today' = Today, user'.resetOn = user.resetOn, spent' = spent, slipped' = slipped,
           ~slipped => Left' \subseteq Left,
           ~slipped /\ user.resetOn # Today => \A r \in Reqs : BusyToday(r)' => handler'[r].reset = Today
    PROVE  CapInv'
<1> SUFFICES ASSUME ~slipped PROVE CapInv'
  BY DEF CapInv
<1>1. Weight(Left') <= Weight(Left) /\ Weight(Left) \in Nat /\ Weight(Left') \in Nat
  BY LeftType, WeightFacts
<1>2. Weight(Left)' = Weight(Left')
  BY LeftType
<1>3. AllUnits' = AllUnits /\ AllUnits \in Nat /\ Largest(Limits) \in Nat
  BY LeftType, WeightFacts DEF AllUnits, N
<1>4. spent \in Nat
  BY DEF IInv, TypeOK
<1> QED
  BY <1>1, <1>2, <1>3, <1>4 DEF CapInv

(* The steps of a request. *)
LEMMA CapServe ==
    ASSUME Bounded, IInv, CapInv, NEW r \in Reqs, Serve(r) \/ ResetFails(r) \/ Abort(r)
    PROVE  CapInv'
<1>1. TypeOK /\ RequestsSound /\ Today \in Nat \ {0} /\ spent \in Nat /\ ~Ahead
  BY ReadTypes DEF IInv, TypeOK, Bounded
<1>2. Stale <=> user.resetOn # Today
  BY <1>1 DEF Stale, DayRead
<1>3. /\ Weight(Left') \in 0..AllUnits /\ Weight(Left)' = Weight(Left') /\ AllUnits' = AllUnits
      /\ Largest(Limits) \in Nat \ {0} /\ AllUnits \in Nat
  BY LeftType, WeightFacts DEF AllUnits, N
<1>4. ASSUME OthersAlone(r), spent' = spent, slipped' = slipped,
             ~slipped => \A i \in 1..Attempts : MayCharge(r, i)' => MayCharge(r, i),
             ~slipped /\ user.resetOn # Today /\ BusyToday(r)' => handler'[r].reset = Today
      PROVE  CapInv'
  <2>1. Today' = Today /\ user'.resetOn = user.resetOn
    BY <1>4 DEF OthersAlone, Today
  <2>2. \A q \in Reqs \ {r}, i \in 1..Attempts : MayCharge(q, i)' <=> MayCharge(q, i)
    BY <1>4, <2>1 DEF MayCharge, BusyToday, Busy, Fresh, OthersAlone
  <2>3. ~slipped => Left' \subseteq Left
    BY <1>4, <2>2 DEF Left, Units
  <2>4. ~slipped /\ user.resetOn # Today => \A q \in Reqs : BusyToday(q)' => handler'[q].reset = Today
    BY <1>4, <2>1 DEF CapInv, BusyToday, Busy, OthersAlone
  <2> QED
    BY <1>4, <2>1, <2>3, <2>4, CapKept
<1>5. CASE Look(r)
  <2>1. /\ OthersAlone(r) /\ ~Busy(r) /\ ~Busy(r)' /\ Stale /\ handler[r].reset = NoDay
        /\ handler'[r].reset = Today /\ spent' = spent /\ slipped' = slipped
    BY <1>1, <1>5, LookFacts
  <2>2. Today' = Today
    BY <2>1 DEF OthersAlone, Today
  <2>3. ~BusyToday(r)' /\ ~Fresh(r)'
    BY <2>1, <2>2 DEF BusyToday, Fresh
  <2> QED
    BY <1>4, <2>1, <2>3 DEF MayCharge
<1>6. CASE AdmitPaid(r) \/ AdmitFree(r)
  <2>1. Admitted(r) /\ Today' = Today
    BY <1>1, <1>6, AdmitFacts DEF Admitted, OthersAlone, Today
  <2>2. /\ OthersAlone(r) /\ spent' = spent /\ slipped' = slipped /\ QuotaLeft
        /\ handler[r].pc = "idle" /\ handler[r].reset = NoDay /\ handler'[r].reset = ResetSent
    BY <2>1 DEF Admitted, Free, At
  <2>3. CASE user.resetOn # Today
    <3>1. handler'[r].reset = Today
      BY <1>2, <2>2, <2>3 DEF ResetSent
    <3>2. Fresh(r)
      BY <1>1, <2>2 DEF Fresh, BusyToday, Busy
    <3> QED
      BY <1>4, <2>2, <2>3, <3>1, <3>2 DEF MayCharge
  <2>4. CASE user.resetOn = Today
    <3>1. user.used < user.limit /\ user.used \in Nat /\ user.limit \in Limits
      BY <1>1, <1>2, <2>2, <2>4 DEF QuotaLeft, UsedRead, TypeOK, UserRow
    <3>2. user.limit <= Largest(Limits) /\ user.limit \in Nat
      BY <3>1, LargestFacts, ParametersAssumption DEF Bounded
    <3>3. ~slipped => spent <= user.used
      BY <2>4 DEF IInv, MeterShowsSpending
    <3>4. ~slipped' => spent' <= Largest(Limits) - 1
      BY <1>1, <1>3, <2>2, <3>1, <3>2, <3>3
    <3>5. user'.resetOn = Today'
      BY <2>1, <2>2, <2>4 DEF OthersAlone
    <3> QED
      BY <1>1, <1>3, <2>2, <3>4, <3>5 DEF CapInv
  <2> QED
    BY <2>3, <2>4
<1>7. ASSUME Over(r) PROVE CapInv'
  <2>1. /\ OthersAlone(r) /\ ~Busy(r)' /\ handler'[r].reset = handler[r].reset
        /\ spent' = spent /\ slipped' = slipped /\ Today' = Today /\ user'.resetOn = user.resetOn
    BY <1>7 DEF Over, OthersAlone, Today
  <2>2. ~slipped /\ user.resetOn # Today /\ Fresh(r)' => Fresh(r)
    BY <2>1 DEF Fresh, CapInv
  <2> QED
    BY <1>4, <2>1, <2>2 DEF MayCharge, BusyToday
<1>8. CASE TrackRefused(r) \/ Abort(r) \/ Alert(r) \/ (Log(r) /\ ~AlertDue(r))
  BY <1>1, <1>7, <1>8, OverFacts
<1>9. ASSUME GoesOn(r), spent' = spent, handler[r].charges \in Nat,
             handler'[r].charges \in {handler[r].charges, handler[r].charges + 1}
      PROVE  CapInv'
  <2>1. /\ OthersAlone(r) /\ Busy(r) /\ handler'[r].day = handler[r].day
        /\ handler'[r].reset = handler[r].reset /\ slipped' = slipped
        /\ Today' = Today /\ user'.resetOn = user.resetOn
    BY <1>9 DEF GoesOn, OthersAlone, Today
  <2>2. BusyToday(r)' => BusyToday(r)
    BY <2>1 DEF BusyToday
  <2>3. ~slipped /\ user.resetOn # Today /\ Fresh(r)' => Fresh(r)
    BY <2>1 DEF Fresh, CapInv
  <2>4. \A i \in 1..Attempts : handler'[r].charges < i => handler[r].charges < i
    BY <1>9
  <2> QED
    BY <1>4, <1>9, <2>1, <2>2, <2>3, <2>4 DEF MayCharge, CapInv
<1>10. handler[r].charges \in Nat
  BY <1>1, ParametersAssumption DEF TypeOK, Locals
<1>11. CASE TrackTime(r) \/ ChargeAgain(r) \/ (Log(r) /\ AlertDue(r))
  <2>1. Uncharged(r)
    BY <1>1, <1>11, OnFacts
  <2> QED
    BY <1>9, <1>10, <2>1 DEF Uncharged
<1>12. CASE \E cost \in Costs : Charge(r, cost)
  <2>1. Charged(r)
    BY <1>1, <1>12, ChargeFacts
  <2>2. CASE handler[r].day # Today
    BY <1>9, <1>10, <2>1, <2>2 DEF Charged
  <2>3. CASE handler[r].day = Today
    <3>1. /\ OthersAlone(r) /\ Busy(r) /\ handler'[r].day = Today /\ handler'[r].reset = handler[r].reset
          /\ slipped' = slipped /\ Today' = Today /\ user'.resetOn = user.resetOn
          /\ handler'[r].charges = handler[r].charges + 1 /\ handler[r].charges < Attempts
      BY <2>1, <2>3 DEF Charged, GoesOn, OthersAlone, Today
    <3>2. spent' <= spent + Largest(Costs) /\ spent' \in Nat /\ Largest(Costs) \in Nat
      <4>1. PICK cost \in Costs : spent' = spent + cost
        BY <2>1, <2>3 DEF Charged
      <4>2. cost \in Nat /\ cost <= Largest(Costs) /\ Largest(Costs) \in Nat
        BY LargestFacts, ParametersAssumption DEF Bounded
      <4> QED
        BY <1>1, <4>1, <4>2
    <3>3. SUFFICES ASSUME ~slipped PROVE CapInv'
      BY <3>1 DEF CapInv
    <3>4. PICK i \in 1..Attempts : i = handler[r].charges + 1
      BY <1>10, <3>1, ParametersAssumption
    <3>5. BusyToday(r) /\ (user.resetOn # Today => ~Fresh(r)')
      BY <2>3, <3>1, <3>3 DEF BusyToday, Fresh, CapInv
    <3>6. <<r, i>> \in Left
      BY <1>10, <3>4, <3>5 DEF Left, Units, MayCharge
    <3>7. <<r, i>> \notin Left'
      BY <3>1, <3>4, <3>5, <1>10 DEF Left, MayCharge
    <3>8. Left' \subseteq Left
      <4>1. \A q \in Reqs \ {r}, j \in 1..Attempts : MayCharge(q, j)' <=> MayCharge(q, j)
        BY <3>1 DEF MayCharge, BusyToday, Busy, Fresh, OthersAlone
      <4>2. \A j \in 1..Attempts : MayCharge(r, j)' => MayCharge(r, j)
        BY <1>10, <3>1, <3>5 DEF MayCharge
      <4> QED
        BY <4>1, <4>2 DEF Left, Units
    <3>9. Weight(Left') + Largest(Costs) <= Weight(Left) /\ Weight(Left) \in Nat
      BY <3>6, <3>7, <3>8, LeftType, WeightFacts
    <3>10. user'.resetOn # Today' => \A q \in Reqs : BusyToday(q)' => handler'[q].reset = Today'
      BY <3>1, <3>3, <3>5 DEF CapInv, BusyToday, Busy, OthersAlone
    <3>11. spent' + Weight(Left') <= spent + Weight(Left)
      BY <1>1, <1>3, <3>2, <3>9
    <3> QED
      BY <1>1, <1>3, <3>1, <3>2, <3>3, <3>9, <3>10, <3>11 DEF CapInv
  <2> QED
    BY <2>2, <2>3
<1>13. CASE ResetFails(r)
  BY <1>13 DEF ResetFails, CapInv
<1>14. CASE ResetLands(r)
  <2>1. SUFFICES ASSUME ~slipped' PROVE CapInv'
    BY DEF CapInv
  <2>2. handler[r].reset = Today /\ ~(spent > 0)
    BY <1>14, <2>1 DEF ResetLands
  <2>3. spent' = 0 /\ user'.resetOn = Today /\ Today' = Today
    BY <1>1, <1>14, <2>2, ResetFacts DEF Today
  <2> QED
    BY <1>3, <2>3 DEF CapInv
<1> QED
  BY <1>5, <1>6, <1>8, <1>11, <1>12, <1>13, <1>14 DEF Serve

(* A new day starts with every slot unspent. *)
LEMMA CapNext ==
    ASSUME Bounded, IInv, CapInv, [Next]_vars
    PROVE  CapInv'
<1>1. TypeOK /\ Today \in Nat \ {0} /\ \A r \in Reqs : handler[r].day <= Today
  BY ReadTypes DEF IInv, RequestsSound, Sound
<1>2. CASE \E r \in Reqs : Serve(r) \/ ResetFails(r) \/ Abort(r)
  BY <1>2, CapServe
<1>3. ASSUME UNCHANGED <<handler, spent, slipped>>, user'.resetOn = user.resetOn, Today' = Today PROVE CapInv'
  <2>1. Left' = Left
    BY <1>3 DEF Left, MayCharge, BusyToday, Busy, Fresh
  <2> QED
    BY <1>3, <2>1, CapKept DEF CapInv, BusyToday, Busy
<1>4. CASE \E plan \in Plans, limit \in Limits : SetPlan(plan, limit)
  BY <1>1, <1>3, <1>4 DEF SetPlan, TypeOK, UserRow, Today
<1>5. CASE Tick
  <2>1. UNCHANGED <<user, handler>> /\ clock \in Nat /\ clock' = clock + 1
    BY <1>1, <1>5, ParametersAssumption DEF Tick, TypeOK
  <2>2. Today' \in Nat /\ Today <= Today'
    BY <2>1, Dates DEF Today
  <2>3. CASE Today' = Today
    BY <1>3, <1>5, <2>1, <2>3 DEF Tick
  <2>4. CASE Today' # Today
    <3>1. spent' = 0
      BY <1>5, <2>4 DEF Tick
    <3>2. \A r \in Reqs : ~BusyToday(r)'
      <4>1. \A r \in Reqs : handler[r].day \in Nat
        BY <1>1 DEF TypeOK, Locals
      <4> QED
        BY <1>1, <2>1, <2>2, <2>4, <4>1 DEF BusyToday
    <3>3. /\ Weight(Left)' \in 0..AllUnits /\ AllUnits' = AllUnits /\ AllUnits \in Nat
          /\ Largest(Limits) \in Nat \ {0}
      BY LeftType, WeightFacts DEF AllUnits, N
    <3> QED
      BY <3>1, <3>2, <3>3 DEF CapInv
  <2> QED
    BY <2>3, <2>4
<1>6. CASE UNCHANGED vars
  BY <1>3, <1>6 DEF vars, Today
<1> QED
  BY <1>2, <1>4, <1>5, <1>6 DEF Next

(* What a day's requests are charged passes the largest limit by what the slots
   can still charge at once, as long as no reset misfires (middleware/auth.js:108,
   routes/gateway.js:24). *)
THEOREM DailyCap ==
    ASSUME Bounded
    PROVE  Spec => []DailyCapHolds
<1>1. Init => CapInv
  <2> SUFFICES ASSUME Init PROVE CapInv
    OBVIOUS
  <2>1. spent = 0 /\ \A r \in Reqs : handler[r] = Idle
    BY DEF Init
  <2>2. \A r \in Reqs : ~BusyToday(r)
    BY <2>1 DEF BusyToday, Busy, Idle
  <2>3. Weight(Left) \in 0..AllUnits /\ AllUnits \in Nat /\ Largest(Limits) \in Nat \ {0}
    BY LeftType, WeightFacts
  <2> QED
    BY <2>1, <2>2, <2>3 DEF CapInv
<1>2. IInv /\ CapInv /\ [Next]_vars => CapInv'
  BY CapNext
<1>3. IInv /\ CapInv => DailyCapHolds
  <2> SUFFICES ASSUME IInv, CapInv, ~slipped PROVE DailyCapHolds
    BY DEF DailyCapHolds
  <2>1. Weight(Left) \in 0..AllUnits /\ AllUnits \in Nat /\ Largest(Limits) \in Nat \ {0} /\ spent \in Nat
    BY LeftType, WeightFacts DEF IInv, TypeOK
  <2>2. spent <= Largest(Limits) - 1 + AllUnits
    BY <2>1 DEF CapInv
  <2> QED
    BY <2>2 DEF DailyCapHolds, AllUnits
<1> QED
  BY <1>1, <1>2, <1>3, Inductive, PTL DEF Spec
=============================================================================

------------------------------- MODULE Login --------------------------------
(***************************************************************************)
(* The lock after wrong passwords and the mailed links of one account:     *)
(* POST /login, /verify-email, /forgot-password and /reset-password of     *)
(* routes/auth.js and the columns of users they use.  The sessions these   *)
(* handlers open and end are in Sessions.                                  *)
(*                                                                         *)
(* A step is one awaited SQL statement with the JavaScript around it.      *)
(* Link 0 is the verification link mailed at registration, the others are  *)
(* reset links in the order they are stored.  late, uses, shared, crossed, *)
(* strayed and crashed are history variables.                              *)
(***************************************************************************)
EXTENDS Integers, FiniteSets

CONSTANTS
    Reqs,           \* slots for requests in flight
    Threshold,      \* wrong passwords that lock the account, 5 in the code
    MaxLinks,       \* bound: reset links ever stored
    MaxFails,       \* bound: the counter of wrong passwords
    MaxCrashes      \* bound: handlers cut between counting and locking

ASSUME LoginAssumption ==
    /\ IsFiniteSet(Reqs) /\ Reqs # {}
    /\ Threshold \in Nat \ {0}
    /\ MaxLinks \in Nat /\ MaxFails \in Nat /\ MaxCrashes \in Nat

VARIABLES
    fails,      \* failed_login_attempts
    lock,       \* locked_until: NULL, in the future, in the past
    verified,   \* email_verified
    pending,    \* the links the row holds that have not expired
    stored,     \* the reset links stored so far, and which of them the row holds
    handler,    \* the locals of every request in flight
    late,       \* history: what a request read was overtaken
    uses,       \* history: how often each link was used
    shared,     \* history: links two requests held at once
    crossed,    \* history: links stored while a reset with an older one ran
    strayed,    \* history: the lock was set by an attempt a login overtook
    crashed     \* history: attempts counted whose lock was cut off

row == <<fails, lock, verified, pending, stored>>
links == <<verified, pending, stored, uses, shared, crossed>>
counters == <<fails, lock, strayed, crashed>>
vars == <<fails, lock, verified, pending, stored, handler, late, uses, shared, crossed, strayed, crashed>>

Link == 0..MaxLinks
Locals == [pc : {"idle", "count", "lock", "clear", "verify", "store", "write"},
           seen : 0..MaxFails, link : Link]
Idle == [pc |-> "idle", seen |-> 0, link |-> 0]

TypeOK ==
    /\ fails \in 0..MaxFails
    /\ lock \in {"none", "set", "past"}
    /\ verified \in BOOLEAN
    /\ pending \in SUBSET Link
    /\ stored \in [newest : Link, held : Link]
    /\ handler \in [Reqs -> Locals]
    /\ late \in [Reqs -> BOOLEAN]
    /\ uses \in [Link -> 0..Cardinality(Reqs)]
    /\ shared \in SUBSET Link
    /\ crossed \in SUBSET Link
    /\ strayed \in BOOLEAN
    /\ crashed \in 0..MaxCrashes

At(r, pc) == handler[r].pc = pc
Become(r, pc, seen, link) == handler' = [handler EXCEPT ![r] = [pc |-> pc, seen |-> seen, link |-> link]]
Finish(r) == handler' = [handler EXCEPT ![r] = Idle]

\* r starts or ends; the requests of R have been overtaken.
Overtake(R, r) == late' = [q \in Reqs |-> q # r /\ (late[q] \/ q \in R)]

-----------------------------------------------------------------------------

\* The row as POST /register leaves it.
Init ==
    /\ fails = 0
    /\ lock = "none"
    /\ verified = FALSE
    /\ pending = {0}
    /\ stored = [newest |-> 0, held |-> 0]
    /\ handler = [r \in Reqs |-> Idle]
    /\ late = [r \in Reqs |-> FALSE]
    /\ uses = [l \in Link |-> 0]
    /\ shared = {}
    /\ crossed = {}
    /\ strayed = FALSE
    /\ crashed = 0

\* POST /login, the password does not match the row that was read.
WrongPassword(r) ==
    /\ At(r, "idle")
    /\ Become(r, "count", fails, 0)
    /\ Overtake({}, r)
    /\ UNCHANGED <<counters, links>>

\* Mutants: the limit is checked one late or one early.
LockDueLate(seen) == seen + 1 > Threshold
LockDueEarly(seen) == seen + 2 >= Threshold

\* By the copy of the row, read before the increment.
LockDue(seen) == seen + 1 >= Threshold

\* Mutant: attempts are counted down.
CountedDown == fails - 1

\* failed_login_attempts + 1, in SQL
Counted == fails + 1

\* The UPDATE, then the row of audit_logs.
CountFailure(r) ==
    /\ At(r, "count")
    /\ fails < MaxFails
    /\ fails' = Counted
    /\ IF LockDue(handler[r].seen)
       THEN handler' = [handler EXCEPT ![r].pc = "lock"] /\ UNCHANGED late
       ELSE Finish(r) /\ Overtake({}, r)
    /\ UNCHANGED <<lock, strayed, crashed, links>>

\* locked_until = now() + 15 minutes
SetLock(r) ==
    /\ At(r, "lock")
    /\ lock' = "set"
    /\ strayed' = (late[r] \/ (strayed /\ lock # "none"))
    /\ Finish(r)
    /\ Overtake({q \in Reqs : At(q, "clear")}, r)
    /\ UNCHANGED <<fails, crashed, links>>

\* Mutant: locked_until is not looked at.
NotLockedAnyway == TRUE

NotLocked == lock # "set"

\* POST /login, the password matches: refused while locked.
RightPassword(r) ==
    /\ At(r, "idle")
    /\ NotLocked
    /\ Become(r, "clear", 0, 0)
    /\ Overtake({}, r)
    /\ UNCHANGED <<counters, links>>

\* failed_login_attempts = 0, locked_until = NULL, whatever they are by now.
ClearFailures(r) ==
    /\ At(r, "clear")
    /\ fails' = 0
    /\ lock' = "none"
    /\ strayed' = FALSE
    /\ crashed' = 0
    /\ Finish(r)
    /\ Overtake({q \in Reqs : handler[q].pc \in {"count", "lock"}}, r)
    /\ UNCHANGED links

LockEnds ==
    /\ lock = "set"
    /\ lock' = "past"
    /\ UNCHANGED <<fails, strayed, crashed, handler, late, links>>

-----------------------------------------------------------------------------
\* Links

\* Requests that have found link l valid and not used it yet.
Holders(l) == {q \in Reqs : handler[q].pc \in {"verify", "write"} /\ handler[q].link = l}

\* Mutant: any reset link will do while one is stored.
ValidAny(l) == l <= stored.newest /\ (l > 0 => pending \ {0} # {}) /\ (l = 0 => 0 \in pending)

\* WHERE reset_token = $1 AND reset_token_expires > now(), and the same for
\* verification_token.
Valid(l) == l \in pending

\* POST /verify-email and /reset-password: the SELECT.
LookupLink(r, l) ==
    /\ At(r, "idle")
    /\ Valid(l)
    /\ Become(r, IF l = 0 THEN "verify" ELSE "write", 0, l)
    /\ Overtake({}, r)
    /\ shared' = IF Holders(l) = {} THEN shared ELSE shared \cup {l}
    /\ UNCHANGED <<counters, verified, pending, stored, uses, crossed>>

\* email_verified = TRUE, verification_token = NULL
Verify(r) ==
    /\ At(r, "verify")
    /\ verified' = TRUE
    /\ pending' = pending \ {0}
    /\ uses' = [uses EXCEPT ![0] = @ + 1]
    /\ Finish(r)
    /\ Overtake({}, r)
    /\ UNCHANGED <<counters, stored, shared, crossed>>

\* POST /forgot-password: the account is found, a token is drawn.
Forgot(r) ==
    /\ At(r, "idle")
    /\ stored.newest < MaxLinks
    /\ Become(r, "store", 0, 0)
    /\ Overtake({}, r)
    /\ UNCHANGED <<counters, links>>

\* reset_token = $1: the row holds one reset link, the last one stored.
StoreLink(r) ==
    LET l == stored.newest + 1
    IN  /\ At(r, "store")
        /\ l \in Link
        /\ stored' = [newest |-> l, held |-> l]
        /\ pending' = (pending \cap {0}) \cup {l}
        /\ crossed' = IF \E q \in Reqs : At(q, "write") THEN crossed \cup {l} ELSE crossed
        /\ Finish(r)
        /\ Overtake({}, r)
        /\ UNCHANGED <<counters, verified, uses, shared>>

\* Mutant: the link stays.
AfterResetKept == pending

\* reset_token = NULL, whichever link the row holds by now.
AfterReset == pending \cap {0}

\* POST /reset-password: the UPDATE.  The account stays locked.
ResetPassword(r) ==
    /\ At(r, "write")
    /\ pending' = AfterReset
    /\ stored' = [stored EXCEPT !.held = 0]
    /\ uses' = [uses EXCEPT ![handler[r].link] = @ + 1]
    /\ Finish(r)
    /\ Overtake({}, r)
    /\ UNCHANGED <<counters, verified, shared, crossed>>

\* 24 hours, or one, have passed.
LinkExpires(l) ==
    /\ l \in pending
    /\ pending' = pending \ {l}
    /\ UNCHANGED <<counters, verified, stored, uses, shared, crossed, handler, late>>

\* A statement rejects or the process dies.
Abort(r) ==
    /\ ~At(r, "idle")
    /\ IF At(r, "lock") THEN crashed < MaxCrashes /\ crashed' = crashed + 1 ELSE UNCHANGED crashed
    /\ Finish(r)
    /\ Overtake({}, r)
    /\ UNCHANGED <<fails, lock, strayed, links>>

Next ==
    \/ \E r \in Reqs :
          \/ WrongPassword(r) \/ CountFailure(r) \/ SetLock(r) \/ RightPassword(r) \/ ClearFailures(r)
          \/ Verify(r) \/ Forgot(r) \/ StoreLink(r) \/ ResetPassword(r) \/ Abort(r)
          \/ \E l \in Link : LookupLink(r, l)
    \/ LockEnds
    \/ \E l \in Link : LinkExpires(l)

Spec == Init /\ [][Next]_vars

-----------------------------------------------------------------------------
\* Properties

N == Cardinality(Reqs)
Locking == {r \in Reqs : At(r, "lock")}

\* README.md:96 locks after five wrong attempts; routes/auth.js:100 decides on
\* the count read before the increment.  While no lock was set since the last
\* login, the attempts counted exceed the threshold by those that were in
\* flight together, those about to lock and those cut off before they could.
LockEngages ==
    lock = "none" => fails <= Threshold - 2 + N + Cardinality(Locking) + crashed

\* A lock stands for at least Threshold wrong attempts since the last login,
\* unless the attempt that set it was overtaken by one (routes/auth.js:101), and
\* a login that is about to lift a lock in force read the row before the lock
\* was set (routes/auth.js:107-112).
LockIsSound ==
    /\ lock # "none" /\ ~strayed => fails >= Threshold
    /\ \A r \in Reqs : At(r, "clear") /\ lock = "set" => late[r]

\* Links (routes/auth.js:178-187, 200, 209-219): one works once, unless two
\* requests held it at the same time; and the newest reset link is in the row
\* until it is used, unless a reset with an older link was in flight when it was
\* stored.
LinksSound ==
    /\ \A l \in Link : uses[l] >= 2 => l \in shared
    /\ LET l == stored.newest
       IN  l > 0 /\ uses[l] = 0 /\ l \notin crossed => stored.held = l
=============================================================================

------------------------------ MODULE Accounts ------------------------------
(***************************************************************************)
(* The rows an account is made of and the handlers that create, export and *)
(* delete them: POST /register of routes/auth.js with its referral, the    *)
(* keys of routes/apikeys.js, GET /export and POST /delete of              *)
(* routes/account.js, with what they write to audit_logs (lib/audit.js).   *)
(* Sessions, allowance and plan of an account are in modules of their own; *)
(* of the log only the entries that say something is gone are kept.        *)
(*                                                                         *)
(* A step is one SQL statement with the JavaScript around it; the reads of *)
(* an export are sent together and answered in any order.  touched and cut *)
(* are history variables.                                                  *)
(***************************************************************************)
EXTENDS Integers, FiniteSets

CONSTANTS
    Reqs,           \* slots for requests in flight
    Emails,         \* e-mail addresses people register with
    NoEmail,        \* none of them
    MaxAccounts,    \* bound: accounts ever created
    MaxKeys,        \* bound: API keys ever created
    MaxConvs        \* bound: conversations ever created

ASSUME AccountsAssumption ==
    /\ IsFiniteSet(Reqs)
    /\ NoEmail \notin Emails
    /\ MaxAccounts \in Nat \ {0} /\ MaxKeys \in Nat \ {0} /\ MaxConvs \in Nat \ {0}

VARIABLES
    users,      \* users: state, e-mail, referred_by; bonuses in daily_token_limit
    keys,       \* api_keys
    convs,      \* conversations, and whether they have messages
    log,        \* audit_logs
    handler,    \* the locals of every request in flight
    touched,    \* history: conversations changed since the export began
    cut         \* history: accounts whose bonus or deletion was cut off, or
                \* whose bonus a plan has overwritten

tables == <<users, keys, convs, log>>
vars == <<users, keys, convs, log, handler, touched, cut>>

Id == 1..MaxAccounts
Key == 1..MaxKeys
Conv == 1..MaxConvs

User == [state : {"none", "here", "gone"}, email : Emails \cup {NoEmail},
         referrer : 0..MaxAccounts, bonus : Nat]
Owned == [state : {"none", "here", "revoked", "gone"}, owner : Id]
Spoken == [state : {"none", "here", "gone"}, owner : Id, said : BOOLEAN]

\* The conversations an export has read, {0} before it has.
Unread == {0}
Reading == (SUBSET Conv) \cup {Unread}

\* who: the account a request works for or is about to create; ref: the
\* referrer, key or other row it has in hand; convs, msgs: the conversations an
\* export has read, and those its messages are of, nothing before it has.
Locals == [pc : {"idle", "referrer", "insert", "bonus", "keyRevoked", "deleteLog", "delete", "export"},
           who : 0..MaxAccounts, ref : 0..(MaxAccounts + MaxKeys), email : Emails \cup {NoEmail},
           convs : Reading, msgs : Reading]

Entry == [action : {"revoked", "deleted"}, of : 1..(MaxAccounts + MaxKeys)]

TypeOK ==
    /\ users \in [Id -> User]
    /\ keys \in [Key -> Owned]
    /\ convs \in [Conv -> Spoken]
    /\ log \in SUBSET Entry
    /\ handler \in [Reqs -> Locals]
    /\ touched \in SUBSET Conv
    /\ cut \in SUBSET (Id \X {"bonus", "delete", "plan"})

Idle == [pc |-> "idle", who |-> 0, ref |-> 0, email |-> NoEmail, convs |-> Unread, msgs |-> Unread]
At(r, pc) == handler[r].pc = pc
Here(i) == i \in Id /\ users[i].state = "here"
Taken(e) == \E i \in Id : Here(i) /\ users[i].email = e
Referred(i) == {j \in Id : users[j].referrer = i}

Hold(r, pc, who, ref, email) ==
    handler' = [handler EXCEPT ![r] = [pc |-> pc, who |-> who, ref |-> ref, email |-> email,
                                       convs |-> Unread, msgs |-> Unread]]
Goto(r, pc) == handler' = [handler EXCEPT ![r].pc = pc]
Finish(r) == handler' = [handler EXCEPT ![r] = Idle]

\* auditLog swallows its own failure.
Audit(action, of) == log' = log \/ log' = log \cup {[action |-> action, of |-> of]}

\* A deleted conversation; its messages go with it.
Dropped(c) == [convs[c] EXCEPT !.state = "gone", !.said = FALSE]

Exporting == \E r \in Reqs : At(r, "export")
Touch(C) == touched' = IF Exporting THEN touched \cup C ELSE touched

-----------------------------------------------------------------------------

Init ==
    /\ users = [i \in Id |-> [state |-> "none", email |-> NoEmail, referrer |-> 0, bonus |-> 0]]
    /\ keys = [k \in Key |-> [state |-> "none", owner |-> 1]]
    /\ convs = [c \in Conv |-> [state |-> "none", owner |-> 1, said |-> FALSE]]
    /\ log = {}
    /\ handler = [r \in Reqs |-> Idle]
    /\ touched = {}
    /\ cut = {}

\* POST /register: nobody has the address; a referral code may be given.
RegisterLookup(r, e, code) ==
    /\ At(r, "idle")
    /\ ~Taken(e)
    /\ code \in Id => users[code].state # "none"
    /\ Hold(r, IF code = 0 THEN "insert" ELSE "referrer", 0, code, e)
    /\ UNCHANGED <<tables, touched, cut>>

\* An unknown code is ignored.
FindReferrer(r) ==
    /\ At(r, "referrer")
    /\ LET code == handler[r].ref
       IN  Hold(r, "insert", 0, IF Here(code) THEN code ELSE 0, handler[r].email)
    /\ UNCHANGED <<tables, touched, cut>>

\* What UNIQUE and the foreign key referred_by let in.
Insertable(r) == ~Taken(handler[r].email) /\ (handler[r].ref = 0 \/ Here(handler[r].ref))

InsertUser(r, i) ==
    /\ At(r, "insert")
    /\ Insertable(r)
    /\ users[i].state = "none" /\ \A j \in 1..(i - 1) : users[j].state # "none"
    /\ users' = [users EXCEPT ![i] =
           [state |-> "here", email |-> handler[r].email, referrer |-> handler[r].ref, bonus |-> 0]]
    /\ IF handler[r].ref = 0 THEN Finish(r)
       ELSE Hold(r, "bonus", i, handler[r].ref, handler[r].email)
    /\ UNCHANGED <<keys, convs, log, touched, cut>>

\* Mutant: only the new user gets it.
BonusForOne(r) == {handler[r].who}

BonusFor(r) == {handler[r].who, handler[r].ref}

\* 5000 more for those of the two who are still there.
PayBonus(r) ==
    /\ At(r, "bonus")
    /\ users' = [i \in Id |->
           IF i \in BonusFor(r) /\ Here(i) THEN [users[i] EXCEPT !.bonus = @ + 1] ELSE users[i]]
    /\ Finish(r)
    /\ UNCHANGED <<keys, convs, log, touched, cut>>

\* A webhook or an admin gives the account a plan: daily_token_limit is the
\* plan's.
WritePlan(i) ==
    /\ Here(i)
    /\ users[i].bonus > 0
    /\ users' = [users EXCEPT ![i].bonus = 0]
    /\ cut' = cut \cup {<<i, "plan">>}
    /\ UNCHANGED <<keys, convs, log, handler, touched>>

-----------------------------------------------------------------------------
\* API keys

\* What requireAuth has read the statements here check again: one step.
InsertKey(i, k) ==
    /\ Here(i)
    /\ keys[k].state = "none" /\ \A j \in 1..(k - 1) : keys[j].state # "none"
    /\ keys' = [keys EXCEPT ![k] = [state |-> "here", owner |-> i]]
    /\ UNCHANGED <<users, convs, log, handler, touched, cut>>

\* Mutant: the rows the UPDATE returns are not looked at.
FoundAnyway(i, k) == TRUE

\* WHERE id = $1 AND user_id = $2 AND revoked_at IS NULL
Found(i, k) == keys[k] = [state |-> "here", owner |-> i]

\* The UPDATE of a row that is found, 404 for one that is not.
RevokeKey(r, i, k) ==
    /\ At(r, "idle")
    /\ Here(i)
    /\ Found(i, k)
    /\ keys' = [keys EXCEPT ![k].state = IF @ = "here" THEN "revoked" ELSE @]
    /\ Hold(r, "keyRevoked", i, k, NoEmail)
    /\ UNCHANGED <<users, convs, log, touched, cut>>

LogRevocation(r) ==
    /\ At(r, "keyRevoked")
    /\ Audit("revoked", handler[r].ref)
    /\ Finish(r)
    /\ UNCHANGED <<users, keys, convs, touched, cut>>

-----------------------------------------------------------------------------
\* Deletion and export

\* requireAuth lets a request of an account through.
Authorized(r, pc) ==
    /\ At(r, "idle")
    /\ pc = "export" => ~Exporting      \* bound: exports only read, one at a time will do
    /\ \E i \in Id : Here(i) /\ Hold(r, pc, i, 0, NoEmail)
    /\ UNCHANGED <<tables, touched, cut>>

\* POST /delete writes the log first.
LogDeletion(r) ==
    /\ At(r, "deleteLog")
    /\ Audit("deleted", handler[r].who)
    /\ Goto(r, "delete")
    /\ UNCHANGED <<users, keys, convs, touched, cut>>

\* referred_by has no ON DELETE rule: it keeps the account it names.
Needed(i) == \E j \in Referred(i) : Here(j)

\* The DELETE with its cascades, of no row when the account is gone already.
DeleteUser(r) ==
    LET i == handler[r].who
        mine == {c \in Conv : convs[c].state = "here" /\ convs[c].owner = i}
    IN  /\ At(r, "delete")
        /\ ~Needed(i)
        /\ users' = [users EXCEPT ![i] = [state |-> "gone", email |-> NoEmail, referrer |-> @.referrer,
                                        bonus |-> 0]]
        /\ keys' = [k \in Key |-> IF keys[k].state # "none" /\ keys[k].owner = i
                                  THEN [keys[k] EXCEPT !.state = "gone"] ELSE keys[k]]
        /\ convs' = [c \in Conv |-> IF c \in mine THEN Dropped(c) ELSE convs[c]]
        /\ Touch(mine)
        /\ Finish(r)
        /\ UNCHANGED <<log, cut>>

\* The foreign key refuses the DELETE; the handler rejects and nobody answers.
DeleteRefused(r) ==
    /\ At(r, "delete")
    /\ Needed(handler[r].who)
    /\ Finish(r)
    /\ UNCHANGED <<tables, touched, cut>>

\* Mutant: the join without its WHERE.
SpokenOfAll(i) == {c \in Conv : convs[c].state = "here" /\ convs[c].said}

\* messages m JOIN conversations c ... WHERE c.user_id = $1
SpokenOf(i) == {c \in Conv : convs[c].state = "here" /\ convs[c].said /\ convs[c].owner = i}

\* Two of the six reads of GET /export.
ReadConvs(r) ==
    /\ At(r, "export")
    /\ handler[r].convs = Unread
    /\ handler' = [handler EXCEPT ![r].convs =
           {c \in Conv : convs[c].state = "here" /\ convs[c].owner = handler[r].who}]
    /\ UNCHANGED <<tables, touched, cut>>

ReadMessages(r) ==
    /\ At(r, "export")
    /\ handler[r].msgs = Unread
    /\ handler' = [handler EXCEPT ![r].msgs = SpokenOf(handler[r].who)]
    /\ UNCHANGED <<tables, touched, cut>>

\* All reads are in.
BothRead(r) == At(r, "export") /\ Unread \notin {handler[r].convs, handler[r].msgs}

Exported(r) ==
    /\ BothRead(r)
    /\ Finish(r)
    /\ touched' = IF At(r, "export") THEN {} ELSE touched
    /\ UNCHANGED <<tables, cut>>

\* Chat opens conversations and writes messages, their owner deletes them.
Converse(c) ==
    /\ \/ \E i \in Id : /\ Here(i) /\ convs[c].state = "none"
                         /\ convs' = [convs EXCEPT ![c] = [state |-> "here", owner |-> i, said |-> FALSE]]
       \/ convs[c].state = "here" /\ convs' = [convs EXCEPT ![c].said = TRUE]
       \/ convs[c].state = "here" /\ convs' = [convs EXCEPT ![c] = Dropped(c)]
    /\ Touch({c})
    /\ UNCHANGED <<users, keys, log, handler, cut>>

\* A statement fails, a constraint refuses it, or the process dies.
Abort(r) ==
    /\ ~At(r, "idle")
    /\ cut' = IF handler[r].pc \in {"bonus", "delete"}
              THEN cut \cup {<<handler[r].who, handler[r].pc>>} ELSE cut
    /\ Finish(r)
    /\ touched' = IF At(r, "export") THEN {} ELSE touched
    /\ UNCHANGED tables

Next ==
    \/ \E r \in Reqs :
          \/ \E e \in Emails, code \in 0..MaxAccounts : RegisterLookup(r, e, code)
          \/ FindReferrer(r) \/ PayBonus(r)
          \/ \E i \in Id : InsertUser(r, i)
          \/ \E pc \in {"deleteLog", "export"} : Authorized(r, pc)
          \/ \E i \in Id, k \in Key : RevokeKey(r, i, k)
          \/ LogRevocation(r) \/ LogDeletion(r) \/ DeleteUser(r) \/ DeleteRefused(r)
          \/ ReadConvs(r) \/ ReadMessages(r) \/ Exported(r) \/ Abort(r)
    \/ \E i \in Id : WritePlan(i) \/ \E k \in Key : InsertKey(i, k)
    \/ \E c \in Conv : Converse(c)

Spec == Init /\ [][Next]_vars

-----------------------------------------------------------------------------
\* Properties

\* audit_logs tells the truth (routes/apikeys.js:52, routes/account.js:101): a
\* key said to be revoked is, and an account said to be deleted is gone, unless
\* its DELETE is on its way or was cut off, or the account has referred somebody.
AuditTruth ==
    \A e \in log :
        /\ e.action = "revoked" => keys[e.of].state \in {"revoked", "gone"}
        /\ e.action = "deleted" =>
              \/ ~Here(e.of)
              \/ \E r \in Reqs : At(r, "delete") /\ handler[r].who = e.of
              \/ <<e.of, "delete">> \in cut
              \/ Referred(e.of) # {}

\* The referral bonus (routes/auth.js:49-70) is paid once to both: an account's
\* bonus counts its own referral and those of the accounts it referred, but for
\* the ones whose UPDATE is still to come or was cut off, as long as no plan has
\* overwritten it (routes/billing.js:82, routes/admin.js:61; routes/auth.js:67
\* calls it permanent); and who referred an account that exists exists.
Paid(j) ==
    /\ users[j].referrer # 0
    /\ <<j, "bonus">> \notin cut
    /\ \A r \in Reqs : At(r, "bonus") => handler[r].who # j

ReferralsPaid ==
    \A i \in Id : Here(i) =>
        /\ <<i, "plan">> \notin cut =>
              users[i].bonus = Cardinality({j \in Id : Paid(j) /\ i \in {j, users[j].referrer}})
        /\ users[i].referrer # 0 => Here(users[i].referrer)

\* The export (routes/account.js:61-76) agrees with itself: of the conversations
\* nobody changed while it ran it has the messages exactly if it has them.
ExportConsistent ==
    \A r \in Reqs : BothRead(r) =>
        \A c \in Conv \ touched :
            c \in handler[r].msgs <=> c \in handler[r].convs /\ convs[c].said
=============================================================================

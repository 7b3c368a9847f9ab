------------------------------ MODULE Sessions ------------------------------
(***************************************************************************)
(* Refresh-token sessions: the users and refresh_tokens tables of          *)
(* db/migrations/001_init.sql and the Express handlers that write them     *)
(* (routes/auth.js, routes/account.js, the suspend route of                *)
(* routes/admin.js).                                                       *)
(*                                                                         *)
(* Node runs one handler at a time between two awaits, and every await of  *)
(* these handlers is one SQL statement that PostgreSQL commits on its own, *)
(* so a step of the model is one statement with the JavaScript around it.  *)
(* withTransaction (db/postgres.js) is a single step.  Any number of       *)
(* requests (Reqs) are in flight; what a handler has read before its next  *)
(* await stays in its local record and may be stale when it is used.       *)
(*                                                                         *)
(* A password is a version number: every write of password_hash draws a    *)
(* fresh one.  A token family is named by its first token.  origin, missed,*)
(* nuked, ended, loggedOut and outdated are history variables: no guard    *)
(* reads them, the properties do.                                          *)
(***************************************************************************)
EXTENDS Integers, FiniteSets

CONSTANTS
    Users,          \* rows the users table may hold
    Reqs,           \* slots for requests in flight
    MaxTokens,      \* bound: refresh tokens ever inserted
    MaxPasswords    \* bound: passwords an account goes through

ASSUME BoundsAssumption ==
    /\ Users # {}
    /\ MaxTokens \in Nat
    /\ MaxPasswords \in Nat \ {0}

VARIABLES
    users,      \* the users table
    tokens,     \* the refresh_tokens table
    lastId,     \* the SERIAL of refresh_tokens
    handler,    \* the locals of every request in flight
    origin,     \* history: how each token came to be
    missed,     \* history: revocations that passed a request in flight by
    nuked,      \* history: families revoked for reuse
    ended,      \* history: sessions opened before this password were revoked
    loggedOut,  \* history: tokens their holder logged out with
    outdated    \* history: those that had been exchanged for another by then

code == <<users, tokens, lastId, handler>>
history == <<origin, missed, nuked, ended, loggedOut, outdated>>
vars == <<users, tokens, lastId, handler, origin, missed, nuked, ended, loggedOut, outdated>>

-----------------------------------------------------------------------------
\* Types

TokenId == 1..MaxTokens
Password == 1..MaxPasswords

UserRow == [state : {"absent", "active", "suspended", "deleted"},
            password : Password]

\* revoked_at decides between live and revoked; a row that is not revoked
\* expires; gone is a row deleted with its account.
TokenRow == [status : {"none", "live", "expired", "revoked", "gone"},
             user : Users,
             family : TokenId,
             replacedBy : TokenId \cup {0}]

\* What may overtake a request that is about to insert a token.
Kind == {"family", "password", "logout", "rotation"}

Origin == [parent : TokenId \cup {0}, password : Password \cup {0}, missed : SUBSET Kind]

Pc == {"idle", "issue", "refresh_nuke", "refresh_user", "refresh_rotate",
       "reset_write", "change_write", "revoke_all", "delete"}

Locals == [pc : Pc, user : Users, token : TokenId \cup {0}, password : Password \cup {0}]

NoUser == CHOOSE u \in Users : TRUE
Idle == [pc |-> "idle", user |-> NoUser, token |-> 0, password |-> 0]
NoRow(t) == [status |-> "none", user |-> NoUser, family |-> t, replacedBy |-> 0]
NoOrigin == [parent |-> 0, password |-> 1, missed |-> {}]

\* A refresh that goes on has found a row.
HandlerType ==
    /\ handler \in [Reqs -> Locals]
    /\ \A r \in Reqs :
          handler[r].pc \in {"refresh_nuke", "refresh_user", "refresh_rotate"} => handler[r].token # 0

TypeOK ==
    /\ users \in [Users -> UserRow]
    /\ tokens \in [TokenId -> TokenRow]
    /\ lastId \in 0..MaxTokens
    /\ HandlerType
    /\ origin \in [TokenId -> Origin]
    /\ missed \in [Reqs -> SUBSET Kind]
    /\ nuked \in SUBSET TokenId
    /\ ended \in [Users -> Password \cup {0}]
    /\ loggedOut \in SUBSET TokenId
    /\ outdated \in SUBSET TokenId

-----------------------------------------------------------------------------
\* Statements and locals

At(r, pc) == handler[r].pc = pc
Exists(u) == users[u].state \in {"active", "suspended"}
Live(t) == tokens[t].status = "live"
Unrevoked(t) == tokens[t].status \in {"live", "expired"}
Issued(t) == tokens[t].status # "none"

\* A token that was not exchanged for another.
Leaf(t) == Issued(t) /\ tokens[t].replacedBy = 0

\* A request that has read a row it takes for a live session.
Refreshing(r) == handler[r].pc \in {"refresh_user", "refresh_rotate"}
SigningIn(r) == At(r, "issue")

Become(r, pc, u, t, p) ==
    handler' = [handler EXCEPT ![r] = [pc |-> pc, user |-> u, token |-> t, password |-> p]]

Finish(r) == handler' = [handler EXCEPT ![r] = Idle]

\* UPDATE refresh_tokens SET revoked_at = now() WHERE ... AND revoked_at IS NULL
Revoked(S) ==
    [t \in TokenId |->
        IF t \in S /\ Unrevoked(t) THEN [tokens[t] EXCEPT !.status = "revoked"] ELSE tokens[t]]

\* Mutant: WHERE id = record.family_id
FamilyRowsFirst(f) == {f}

FamilyRows(f) == {t \in TokenId : tokens[t].family = f}

\* Mutant: only the tokens of logins are found.
UserRowsLogins(u) == {t \in TokenId : tokens[t].user = u /\ tokens[t].family = t}

UserRows(u) == {t \in TokenId : tokens[t].user = u}

\* Mutant: the row is inserted without its family.
FreshRowNoFamily(u, f) ==
    [status |-> "live", user |-> u, family |-> 0, replacedBy |-> 0]

FreshRow(u, f) ==
    [status |-> "live", user |-> u, family |-> f, replacedBy |-> 0]

\* The history of the requests in R gains kind; r, which ends here, has none.
Overtake(R, kind, r) ==
    missed' = [q \in Reqs |->
        IF q = r THEN {} ELSE IF q \in R THEN missed[q] \cup {kind} ELSE missed[q]]

Begin(r, S) == missed' = [missed EXCEPT ![r] = S]

-----------------------------------------------------------------------------
\* Initial state

Init ==
    /\ users = [u \in Users |-> [state |-> "absent", password |-> 1]]
    /\ tokens = [t \in TokenId |-> NoRow(t)]
    /\ lastId = 0
    /\ handler = [r \in Reqs |-> Idle]
    /\ origin = [t \in TokenId |-> NoOrigin]
    /\ missed = [r \in Reqs |-> {}]
    /\ nuked = {}
    /\ ended = [u \in Users |-> 0]
    /\ loggedOut = {}
    /\ outdated = {}

-----------------------------------------------------------------------------
\* Opening a session

\* POST /register up to the INSERT of the user.
Register(r, u) ==
    /\ At(r, "idle")
    /\ users[u].state = "absent"
    /\ users' = [users EXCEPT ![u].state = "active"]
    /\ Become(r, "issue", u, 0, users[u].password)
    /\ Begin(r, {})
    /\ UNCHANGED <<tokens, lastId, origin, nuked, ended, loggedOut, outdated>>

\* POST /login: the row is read and the password compared with what was read.
Login(r, u) ==
    /\ At(r, "idle")
    /\ users[u].state = "active"
    /\ Become(r, "issue", u, 0, users[u].password)
    /\ Begin(r, {})
    /\ UNCHANGED <<users, tokens, lastId, origin, nuked, ended, loggedOut, outdated>>

\* issueRefreshTokenFamily: the foreign key refuses the row of a deleted user
\* (the handler then rejects, which is Abort).
IssueFamily(r) ==
    LET u == handler[r].user
        t == lastId + 1
    IN  /\ At(r, "issue")
        /\ t \in TokenId
        /\ Exists(u)
        /\ lastId' = t
        /\ tokens' = [tokens EXCEPT ![t] = FreshRow(u, t)]
        /\ origin' = [origin EXCEPT ![t] =
               [parent |-> 0, password |-> handler[r].password, missed |-> missed[r]]]
        /\ Begin(r, {})
        /\ Finish(r)
        /\ UNCHANGED <<users, nuked, ended, loggedOut, outdated>>

-----------------------------------------------------------------------------
\* POST /refresh-token

\* The SELECT finds a revoked row: the token is being replayed.
RefreshReplayed(r, t) ==
    /\ At(r, "idle")
    /\ tokens[t].status = "revoked"
    /\ Become(r, "refresh_nuke", tokens[t].user, t, 0)
    /\ Begin(r, {})
    /\ UNCHANGED <<users, tokens, lastId, origin, nuked, ended, loggedOut, outdated>>

\* The SELECT finds a row that is neither revoked nor expired.
RefreshAccepted(r, t) ==
    /\ At(r, "idle")
    /\ Live(t)
    /\ Become(r, "refresh_user", tokens[t].user, t, 0)
    /\ Begin(r, origin[t].missed)
    /\ UNCHANGED <<users, tokens, lastId, origin, nuked, ended, loggedOut, outdated>>

\* Revokes whatever is live in the family of the record read before.
RefreshNuke(r) ==
    LET f == tokens[handler[r].token].family
    IN  /\ At(r, "refresh_nuke")
        /\ tokens' = Revoked(FamilyRows(f))
        /\ nuked' = nuked \cup {f}
        /\ Overtake({q \in Reqs : Refreshing(q) /\ tokens[handler[q].token].family = f}, "family", r)
        /\ Finish(r)
        /\ UNCHANGED <<users, lastId, origin, ended, loggedOut, outdated>>

RefreshUser(r) ==
    /\ At(r, "refresh_user")
    /\ \/ /\ users[handler[r].user].state = "active"
          /\ handler' = [handler EXCEPT ![r].pc = "refresh_rotate"]
          /\ UNCHANGED missed
       \/ /\ users[handler[r].user].state # "active"
          /\ Finish(r)
          /\ Begin(r, {})
    /\ UNCHANGED <<users, tokens, lastId, origin, nuked, ended, loggedOut, outdated>>

\* Mutants: the old row stays; it gets no replaced_by_id; the successor opens a
\* family of its own.
RotateRowKeepsOld(old, new) ==
    [tokens EXCEPT ![new] = FreshRow(tokens[old].user, tokens[old].family),
                   ![old] = [tokens[old] EXCEPT !.replacedBy = new]]

RotateRowUnlinked(old, new) ==
    [tokens EXCEPT ![new] = FreshRow(tokens[old].user, tokens[old].family),
                   ![old] = [tokens[old] EXCEPT !.status = "revoked"]]

RotateRowNewFamily(old, new) ==
    [tokens EXCEPT ![new] = FreshRow(tokens[old].user, new),
                   ![old] = [tokens[old] EXCEPT !.status = "revoked", !.replacedBy = new]]

\* The transaction: insert the successor, then revoke the old row, whatever has
\* become of it since it was read.
RotateRow(old, new) ==
    [tokens EXCEPT ![new] = FreshRow(tokens[old].user, tokens[old].family),
                   ![old] = [tokens[old] EXCEPT !.status = "revoked", !.replacedBy = new]]

RefreshRotate(r) ==
    LET old == handler[r].token
        new == lastId + 1
    IN  /\ At(r, "refresh_rotate")
        /\ new \in TokenId
        /\ Exists(handler[r].user)
        /\ lastId' = new
        /\ tokens' = RotateRow(old, new)
        /\ origin' = [origin EXCEPT ![new] =
               [parent |-> old, password |-> origin[old].password, missed |-> missed[r]]]
        /\ Overtake({q \in Reqs : Refreshing(q) /\ handler[q].token = old}, "rotation", r)
        /\ Finish(r)
        /\ UNCHANGED <<users, nuked, ended, loggedOut, outdated>>

-----------------------------------------------------------------------------
\* Ending sessions

\* POST /logout is one statement.  Of a token that is revoked, or whose row is
\* gone, it updates no row and the answer is the same.
Logout(t) ==
    /\ Issued(t)
    /\ tokens' = Revoked({t})
    /\ loggedOut' = loggedOut \cup {t}
    /\ outdated' = IF t \in loggedOut \/ Leaf(t) THEN outdated ELSE outdated \cup {t}
    /\ missed' = [q \in Reqs |->
           IF Refreshing(q) /\ handler[q].token = t THEN missed[q] \cup {"logout"} ELSE missed[q]]
    /\ UNCHANGED <<users, lastId, handler, origin, nuked, ended>>

\* POST /reset-password: the link is looked up.  POST /forgot-password sends one
\* to any account at any time, so its holder may have a valid one.
ResetLookup(r, u) ==
    /\ At(r, "idle")
    /\ Exists(u)
    /\ Become(r, "reset_write", u, 0, 0)
    /\ UNCHANGED <<users, tokens, lastId, missed, origin, nuked, ended, loggedOut, outdated>>

\* POST /change-password: requireAuth reads the row, the current password is
\* compared with it.
ChangeLookup(r, u) ==
    /\ At(r, "idle")
    /\ users[u].state = "active"
    /\ Become(r, "change_write", u, 0, 0)
    /\ UNCHANGED <<users, tokens, lastId, missed, origin, nuked, ended, loggedOut, outdated>>

\* Mutant: the handler forgets to revoke.
WritePasswordOnly(r) ==
    LET u == handler[r].user
        p == users[u].password + 1
    IN  /\ handler[r].pc \in {"reset_write", "change_write"}
        /\ Exists(u)
        /\ p \in Password
        /\ users' = [users EXCEPT ![u].password = p]
        /\ Finish(r)
        /\ UNCHANGED <<tokens, lastId, history>>

\* The UPDATE of password_hash, by id only: of no row when the account is gone.
WritePassword(r) ==
    LET u == handler[r].user
        p == users[u].password + 1
    IN  /\ handler[r].pc \in {"reset_write", "change_write"}
        /\ \/ /\ Exists(u)
              /\ p \in Password
              /\ users' = [users EXCEPT ![u].password = p]
              /\ Become(r, "revoke_all", u, 0, p)
           \/ /\ ~Exists(u)
              /\ users' = users
              /\ Become(r, "revoke_all", u, 0, 0)
        /\ UNCHANGED <<tokens, lastId, history>>

\* The UPDATE of refresh_tokens that follows it.
RevokeAll(r) ==
    LET u == handler[r].user
        p == handler[r].password
        Older(q) == \/ SigningIn(q) /\ handler[q].password < p
                    \/ Refreshing(q) /\ origin[handler[q].token].password < p
    IN  /\ At(r, "revoke_all")
        /\ tokens' = Revoked(UserRows(u))
        /\ ended' = [ended EXCEPT ![u] = IF p > @ THEN p ELSE @]
        /\ Overtake({q \in Reqs : handler[q].user = u /\ Older(q)}, "password", r)
        /\ Finish(r)
        /\ UNCHANGED <<users, lastId, origin, nuked, loggedOut, outdated>>

\* POST /delete: requireAuth and the password check, then audit_logs.
DeleteLookup(r, u) ==
    /\ At(r, "idle")
    /\ users[u].state = "active"
    /\ Become(r, "delete", u, 0, 0)
    /\ UNCHANGED <<users, tokens, lastId, missed, origin, nuked, ended, loggedOut, outdated>>

\* DELETE FROM users, which cascades to the refresh tokens.
Erased(u) ==
    [t \in TokenId |->
        IF tokens[t].user = u /\ Issued(t) THEN [tokens[t] EXCEPT !.status = "gone"] ELSE tokens[t]]

DeleteUser(r) ==
    LET u == handler[r].user
    IN  /\ At(r, "delete")
        /\ users' = [users EXCEPT ![u].state = "deleted"]
        /\ tokens' = Erased(u)
        /\ Finish(r)
        /\ UNCHANGED <<lastId, history>>

\* PATCH /api/admin/users/:id/suspend
SetActive(u, active) ==
    /\ Exists(u)
    /\ users' = [users EXCEPT ![u].state = IF active THEN "active" ELSE "suspended"]
    /\ UNCHANGED <<tokens, lastId, handler, history>>

\* REFRESH_DAYS pass for a token.
TokenExpires(t) ==
    /\ Live(t)
    /\ tokens' = [tokens EXCEPT ![t].status = "expired"]
    /\ UNCHANGED <<users, lastId, handler, history>>

\* A statement rejects, or the process dies: the handler ends where it is, the
\* statements it has committed stay.
Abort(r) ==
    /\ ~At(r, "idle")
    /\ Finish(r)
    /\ Begin(r, {})
    /\ UNCHANGED <<users, tokens, lastId, origin, nuked, ended, loggedOut, outdated>>

-----------------------------------------------------------------------------
\* Specification

\* The next statement of a handler that is already running.
Advance(r) ==
    \/ IssueFamily(r)
    \/ RefreshNuke(r)
    \/ RefreshUser(r)
    \/ RefreshRotate(r)
    \/ WritePassword(r)
    \/ RevokeAll(r)
    \/ DeleteUser(r)

Arrive(r) ==
    \/ \E u \in Users :
          \/ Register(r, u)
          \/ Login(r, u)
          \/ ResetLookup(r, u)
          \/ ChangeLookup(r, u)
          \/ DeleteLookup(r, u)
    \/ \E t \in TokenId : RefreshReplayed(r, t) \/ RefreshAccepted(r, t)

Steady ==
    \/ \E r \in Reqs : Arrive(r) \/ Advance(r)
    \/ \E t \in TokenId : Logout(t) \/ TokenExpires(t)
    \/ \E u \in Users, active \in BOOLEAN : SetActive(u, active)

Next == Steady \/ \E r \in Reqs : Abort(r)

Spec == Init /\ [][Next]_vars

\* No statement fails and the database answers each, so every handler moves on.
SteadySpec == Init /\ [][Steady]_vars /\ \A r \in Reqs : WF_vars(Advance(r))

-----------------------------------------------------------------------------
\* Properties

\* Reuse detection (routes/auth.js:131-137): once a family was revoked for
\* reuse, a session of it is alive only when a rotation that had read its row
\* before the revocation committed after it, or descends from one that did.
FamilyRevocationHolds ==
    \A t \in TokenId :
        Live(t) /\ tokens[t].family \in nuked => "family" \in origin[t].missed

\* Password reset and change (routes/auth.js:216-221, routes/account.js:52-53):
\* once the sessions older than a password were revoked, one is alive only when
\* a login or a rotation in flight across the revocation inserted it or an
\* ancestor of it.
PasswordRevocationHolds ==
    \A t \in TokenId :
        Live(t) /\ origin[t].password < ended[tokens[t].user] => "password" \in origin[t].missed

\* Rotation (routes/auth.js:147-160): a family has one live token, unless two
\* refreshes of the same token overlapped; then one of the two descends from
\* the refresh that came second.
OneSessionPerFamily ==
    \A s, t \in TokenId :
        /\ s # t
        /\ Live(s)
        /\ Live(t)
        /\ tokens[s].family = tokens[t].family
        => "rotation" \in origin[s].missed \cup origin[t].missed

\* Logout (routes/auth.js:167-171) ends the session of the token it is given
\* (README.md:92), and of no other: what is still alive of the family was
\* rotated across the logout, or the family had been split by overlapping
\* refreshes, or the token had been exchanged already.  A logout with such a
\* token is answered like any other and ends nothing: the session lives on
\* under a later token.
LogoutEndsSession ==
    \A s \in loggedOut, t \in TokenId :
        Live(t) /\ tokens[t].family = tokens[s].family =>
            \/ "logout" \in origin[t].missed
            \/ "rotation" \in origin[s].missed \cup origin[t].missed
            \/ s \in outdated /\ s < t

\* Lineage (routes/auth.js:151-160): a row that was replaced is revoked, and it
\* names a later row of the same account and family that was issued for it; a
\* row issued by rotation has a replaced, hence revoked, parent.
LineageSound ==
    \A t \in TokenId :
        /\ tokens[t].replacedBy # 0 =>
              LET s == tokens[t].replacedBy
              IN  /\ ~Unrevoked(t)
                  /\ s > t
                  /\ origin[s].parent = t
                  /\ tokens[s].family = tokens[t].family
                  /\ tokens[s].user = tokens[t].user
        /\ origin[t].parent # 0 => tokens[origin[t].parent].replacedBy # 0

\* Deletion (routes/account.js:102, ON DELETE CASCADE in 001_init.sql:59): no
\* request in flight leaves a session row behind for an account that is gone.
RowsHaveOwners ==
    \A t \in TokenId : tokens[t].status \in {"live", "expired", "revoked"} => Exists(tokens[t].user)

\* The handler that writes a password goes on to revoke the sessions opened
\* with the earlier ones (routes/auth.js:216-221, routes/account.js:52-53): when
\* no statement fails, they all end, in whatever order the writers finish.
PasswordWriteEndsSessions ==
    \A u \in Users, p \in Password \ {1} : users[u].password >= p ~> ended[u] >= p

-----------------------------------------------------------------------------
\* The inductive invariant: the properties extended to what requests in flight
\* hold.  A refresh that has read a row carries the row's session with it.

FamilyOf(r) == tokens[handler[r].token].family

\* Ids are handed out in order, and nothing refers to one not handed out yet.
IdsSound ==
    /\ \A t \in TokenId :
          /\ Issued(t) <=> t <= lastId
          /\ Issued(t) => tokens[t].family <= lastId
          /\ tokens[t].replacedBy <= lastId
          /\ origin[t].parent <= lastId
          /\ ~Issued(t) => tokens[t].replacedBy = 0 /\ origin[t].parent = 0
    /\ \A f \in nuked : f <= lastId
    /\ \A t \in loggedOut : Issued(t) /\ ~Unrevoked(t)

\* A refresh works on an issued row of the account it has in hand.
HeldRowsSound ==
    \A r \in Reqs :
        handler[r].pc \in {"refresh_nuke", "refresh_user", "refresh_rotate"} =>
            Issued(handler[r].token) /\ handler[r].user = tokens[handler[r].token].user

FamilyInv ==
    /\ FamilyRevocationHolds
    /\ \A r \in Reqs : Refreshing(r) /\ FamilyOf(r) \in nuked => "family" \in missed[r]

PasswordInv ==
    /\ PasswordRevocationHolds
    /\ \A u \in Users : ended[u] <= users[u].password
    /\ \A r \in Reqs :
          /\ SigningIn(r) /\ handler[r].password < ended[handler[r].user] => "password" \in missed[r]
          /\ Refreshing(r) /\ origin[handler[r].token].password < ended[handler[r].user]
                => "password" \in missed[r]
          /\ At(r, "revoke_all") => handler[r].password <= users[handler[r].user].password

\* Of a family that was never split, the token not exchanged yet is the last.
RotationInv ==
    /\ \A s, t \in TokenId :
          t < s /\ Issued(s) /\ Leaf(t) /\ tokens[s].family = tokens[t].family
             => "rotation" \in origin[s].missed \cup origin[t].missed
    /\ \A r \in Reqs, t \in TokenId :
          Refreshing(r) /\ handler[r].token # t /\ Leaf(t) /\ tokens[t].family = FamilyOf(r)
             => "rotation" \in missed[r] \cup origin[t].missed
    /\ \A r, q \in Reqs :
          Refreshing(r) /\ Refreshing(q) /\ handler[r].token # handler[q].token /\ FamilyOf(r) = FamilyOf(q)
             => "rotation" \in missed[r] \cup missed[q]

LogoutInv ==
    /\ \A s \in loggedOut, t \in TokenId :
          Live(t) /\ tokens[t].family = tokens[s].family =>
             \/ "logout" \in origin[t].missed
             \/ "rotation" \in origin[s].missed \cup origin[t].missed
             \/ s \in outdated
    /\ \A s \in loggedOut, r \in Reqs :
          Refreshing(r) /\ FamilyOf(r) = tokens[s].family =>
             \/ "logout" \in missed[r]
             \/ "rotation" \in origin[s].missed \cup missed[r]
             \/ s \in outdated

IInv ==
    /\ TypeOK
    /\ IdsSound
    /\ HeldRowsSound
    /\ RowsHaveOwners
    /\ FamilyInv
    /\ PasswordInv
    /\ RotationInv
    /\ LogoutInv
    /\ LineageSound

-----------------------------------------------------------------------------
\* What clients are promised about one token, see RefreshTokens.tla

Promise == INSTANCE RefreshTokens WITH
    Token <- TokenId,
    status <- [t \in TokenId |-> tokens[t].status],
    family <- [t \in TokenId |-> tokens[t].family]

Lifecycle == Promise!Spec
=============================================================================

--------------------------- MODULE SessionsProofs ---------------------------
(***************************************************************************)
(* Proofs about Sessions for every value of its constants.                 *)
(***************************************************************************)
EXTENDS Sessions, TLAPS

-----------------------------------------------------------------------------
\* Type correctness

LEMMA NoUserType == NoUser \in Users
BY BoundsAssumption DEF NoUser

LEMMA IdleType == Idle \in Locals
BY NoUserType DEF Idle, Locals, Pc

LEMMA RevokedType ==
    ASSUME tokens \in [TokenId -> TokenRow], NEW S
    PROVE  Revoked(S) \in [TokenId -> TokenRow]
BY DEF Revoked, TokenRow, Unrevoked

LEMMA RotateType ==
    ASSUME tokens \in [TokenId -> TokenRow], NEW old \in TokenId, NEW new \in TokenId
    PROVE  RotateRow(old, new) \in [TokenId -> TokenRow]
<1>1. FreshRow(tokens[old].user, tokens[old].family) \in TokenRow
  BY DEF FreshRow, TokenRow
<1>2. [tokens[old] EXCEPT !.status = "revoked", !.replacedBy = new] \in TokenRow
  <2> DEFINE row == [tokens[old] EXCEPT !.status = "revoked"]
  <2>1. row \in TokenRow
    BY DEF TokenRow
  <2>2. [row EXCEPT !.replacedBy = new] \in TokenRow
    <3> HIDE DEF row
    <3>1. QED
      BY <2>1 DEF TokenRow
  <2>3. QED
    BY <2>2
<1>3. QED
  BY <1>1, <1>2 DEF RotateRow

LEMMA FinishType ==
    ASSUME HandlerType, NEW r \in Reqs, Finish(r)
    PROVE  HandlerType'
BY IdleType DEF Finish, HandlerType, Idle

LEMMA BecomeType ==
    ASSUME HandlerType, NEW r \in Reqs, NEW pc \in Pc, NEW u \in Users,
           NEW t \in TokenId \cup {0}, NEW p \in Password \cup {0}, Become(r, pc, u, t, p),
           t # 0 \/ pc \notin {"refresh_nuke", "refresh_user", "refresh_rotate"}
    PROVE  HandlerType'
BY DEF Become, Locals, HandlerType

LEMMA BeginType ==
    ASSUME missed \in [Reqs -> SUBSET Kind], NEW r \in Reqs, NEW S \in SUBSET Kind, Begin(r, S)
    PROVE  missed' \in [Reqs -> SUBSET Kind]
BY DEF Begin

LEMMA OvertakeType ==
    ASSUME missed \in [Reqs -> SUBSET Kind], NEW R, NEW kind \in Kind, NEW r \in Reqs,
           Overtake(R, kind, r)
    PROVE  missed' \in [Reqs -> SUBSET Kind]
BY DEF Overtake

LEMMA TypeInit == Init => TypeOK
BY NoUserType, IdleType, BoundsAssumption
DEF Init, TypeOK, HandlerType, Idle, NoRow, NoOrigin, TokenRow, Origin, UserRow, TokenId, Password

LEMMA TypeStep == TypeOK /\ [Next]_vars => TypeOK'
<1> SUFFICES ASSUME TypeOK, [Next]_vars PROVE TypeOK'
  OBVIOUS
<1> USE DEF TypeOK
<1>1. ASSUME NEW r \in Reqs, NEW u \in Users,
             \/ Register(r, u) \/ Login(r, u) \/ ResetLookup(r, u)
             \/ ChangeLookup(r, u) \/ DeleteLookup(r, u)
      PROVE  TypeOK'
  <2>1. users[u].password \in Password
    BY DEF UserRow
  <2>2. HandlerType'
    BY <1>1, <2>1, BecomeType DEF Register, Login, ResetLookup, ChangeLookup, DeleteLookup, Pc
  <2>3. users' \in [Users -> UserRow]
    BY <1>1 DEF Register, Login, ResetLookup, ChangeLookup, DeleteLookup, UserRow
  <2>4. missed' \in [Reqs -> SUBSET Kind]
    BY <1>1, BeginType DEF Register, Login, ResetLookup, ChangeLookup, DeleteLookup
  <2>5. QED
    BY <1>1, <2>2, <2>3, <2>4 DEF Register, Login, ResetLookup, ChangeLookup, DeleteLookup
<1>2. ASSUME NEW r \in Reqs, NEW t \in TokenId, RefreshReplayed(r, t) \/ RefreshAccepted(r, t)
      PROVE  TypeOK'
  <2>1. tokens[t].user \in Users /\ origin[t].missed \in SUBSET Kind
    BY DEF TokenRow, Origin
  <2>2. HandlerType'
    BY <1>2, <2>1, BecomeType DEF RefreshReplayed, RefreshAccepted, Pc, TokenId
  <2>3. missed' \in [Reqs -> SUBSET Kind]
    BY <1>2, <2>1, BeginType DEF RefreshReplayed, RefreshAccepted
  <2>4. QED
    BY <1>2, <2>2, <2>3 DEF RefreshReplayed, RefreshAccepted
<1>3. ASSUME NEW r \in Reqs, IssueFamily(r) PROVE TypeOK'
  <2>1. handler[r].user \in Users /\ handler[r].password \in Password \cup {0}
    BY DEF HandlerType, Locals
  <2>2. HandlerType'
    BY <1>3, FinishType DEF IssueFamily
  <2>3. missed' \in [Reqs -> SUBSET Kind]
    BY <1>3, BeginType DEF IssueFamily
  <2>4. tokens' \in [TokenId -> TokenRow]
    BY <1>3, <2>1 DEF IssueFamily, FreshRow, TokenRow
  <2>5. origin' \in [TokenId -> Origin]
    BY <1>3, <2>1 DEF IssueFamily, Origin
  <2>6. lastId' \in 0..MaxTokens
    BY <1>3 DEF IssueFamily, TokenId
  <2>7. QED
    BY <1>3, <2>2, <2>3, <2>4, <2>5, <2>6 DEF IssueFamily
<1>4. ASSUME NEW r \in Reqs, RefreshNuke(r) PROVE TypeOK'
  <2>1. handler[r].token \in TokenId
    BY <1>4 DEF RefreshNuke, At, HandlerType, Locals
  <2>2. tokens' \in [TokenId -> TokenRow]
    BY <1>4, RevokedType DEF RefreshNuke
  <2>3. HandlerType' /\ missed' \in [Reqs -> SUBSET Kind]
    BY <1>4, FinishType, OvertakeType DEF RefreshNuke, Kind
  <2>4. nuked' \in SUBSET TokenId
    BY <1>4, <2>1 DEF RefreshNuke, TokenRow
  <2>5. QED
    BY <1>4, <2>2, <2>3, <2>4 DEF RefreshNuke
<1>5. ASSUME NEW r \in Reqs, RefreshUser(r) PROVE TypeOK'
  <2>1. HandlerType'
    <3>1. CASE Finish(r)
      BY <3>1, FinishType
    <3>2. CASE /\ At(r, "refresh_user")
               /\ handler' = [handler EXCEPT ![r].pc = "refresh_rotate"]
      BY <3>2 DEF HandlerType, Locals, Pc, At
    <3>3. QED
      BY <1>5, <3>1, <3>2 DEF RefreshUser
  <2>2. missed' \in [Reqs -> SUBSET Kind]
    BY <1>5, BeginType DEF RefreshUser
  <2>3. QED
    BY <1>5, <2>1, <2>2 DEF RefreshUser
<1>6. ASSUME NEW r \in Reqs, RefreshRotate(r) PROVE TypeOK'
  <2>1. handler[r].token \in TokenId /\ lastId + 1 \in TokenId
    BY <1>6 DEF RefreshRotate, At, HandlerType, Locals
  <2>2. HandlerType'
    BY <1>6, FinishType DEF RefreshRotate
  <2>3. missed' \in [Reqs -> SUBSET Kind]
    BY <1>6, OvertakeType DEF RefreshRotate, Kind
  <2>4. tokens' \in [TokenId -> TokenRow]
    BY <1>6, <2>1, RotateType DEF RefreshRotate
  <2>5. origin' \in [TokenId -> Origin]
    BY <1>6, <2>1 DEF RefreshRotate, Origin
  <2>6. lastId' \in 0..MaxTokens
    BY <1>6 DEF RefreshRotate, TokenId
  <2>7. QED
    BY <1>6, <2>2, <2>3, <2>4, <2>5, <2>6 DEF RefreshRotate
<1>7. ASSUME NEW r \in Reqs, WritePassword(r) PROVE TypeOK'
  <2>1. handler[r].user \in Users
    BY DEF HandlerType, Locals
  <2>2. HandlerType'
    BY <1>7, <2>1, BecomeType DEF WritePassword, Pc
  <2>3. users' \in [Users -> UserRow]
    BY <1>7, <2>1 DEF WritePassword, UserRow
  <2>4. QED
    BY <1>7, <2>2, <2>3 DEF WritePassword, history
<1>8. ASSUME NEW r \in Reqs, RevokeAll(r) PROVE TypeOK'
  <2>1. tokens' \in [TokenId -> TokenRow]
    BY <1>8, RevokedType DEF RevokeAll
  <2>2. HandlerType' /\ missed' \in [Reqs -> SUBSET Kind]
    BY <1>8, FinishType, OvertakeType DEF RevokeAll, Kind
  <2>3. handler[r].user \in Users /\ handler[r].password \in Password \cup {0}
    BY DEF HandlerType, Locals
  <2>4. ended' \in [Users -> Password \cup {0}]
    BY <1>8, <2>3 DEF RevokeAll
  <2>5. QED
    BY <1>8, <2>1, <2>2, <2>4 DEF RevokeAll
<1>9. ASSUME NEW r \in Reqs, DeleteUser(r) PROVE TypeOK'
  <2>1. HandlerType'
    BY <1>9, FinishType DEF DeleteUser
  <2>2. users' \in [Users -> UserRow]
    BY <1>9 DEF DeleteUser, UserRow
  <2>3. tokens' \in [TokenId -> TokenRow]
    BY <1>9 DEF DeleteUser, Erased, TokenRow
  <2>4. QED
    BY <1>9, <2>1, <2>2, <2>3 DEF DeleteUser, history
<1>10. ASSUME NEW r \in Reqs, Abort(r) PROVE TypeOK'
  BY <1>10, FinishType, BeginType DEF Abort
<1>11. ASSUME NEW t \in TokenId, Logout(t) PROVE TypeOK'
  <2>1. tokens' \in [TokenId -> TokenRow]
    BY <1>11, RevokedType DEF Logout
  <2>2. missed' \in [Reqs -> SUBSET Kind]
    BY <1>11 DEF Logout, Kind
  <2>3. QED
    BY <1>11, <2>1, <2>2 DEF Logout, HandlerType
<1>12. ASSUME NEW t \in TokenId, TokenExpires(t) PROVE TypeOK'
  BY <1>12 DEF TokenExpires, TokenRow, HandlerType, history
<1>13. ASSUME NEW u \in Users, NEW active \in BOOLEAN, SetActive(u, active) PROVE TypeOK'
  BY <1>13 DEF SetActive, UserRow, HandlerType, history
<1>14. CASE UNCHANGED vars
  BY <1>14 DEF vars, HandlerType
<1>15. QED
  BY <1>1, <1>2, <1>3, <1>4, <1>5, <1>6, <1>7, <1>8, <1>9, <1>10, <1>11, <1>12, <1>13, <1>14
  DEF Next, Steady, Arrive, Advance

\* Every variable keeps its type: ids within their bounds, locals that fit the
\* statement a handler waits for.
THEOREM TypeCorrect == Spec => []TypeOK
BY TypeInit, TypeStep, PTL DEF Spec

-----------------------------------------------------------------------------
\* What each statement that writes refresh_tokens does to the rows

NextId == lastId + 1
Held(r) == handler[r].token

\* r ends, the others keep their locals and forget nothing they missed.
Ends(r) ==
    /\ handler'[r].pc = "idle"
    /\ \A q \in Reqs \ {r} : handler'[q] = handler[q] /\ missed[q] \subseteq missed'[q]

LEMMA FinishEffect ==
    ASSUME TypeOK, NEW r \in Reqs, Finish(r)
    PROVE  /\ handler'[r].pc = "idle"
           /\ \A q \in Reqs \ {r} : handler'[q] = handler[q]
BY DEF TypeOK, HandlerType, Finish, Idle

\* A revocation only turns unrevoked rows of its set into revoked ones.
LEMMA RevokedEffect ==
    ASSUME TypeOK, NEW S, tokens' = Revoked(S)
    PROVE  \A t \in TokenId :
               /\ tokens'[t].user = tokens[t].user
               /\ tokens'[t].family = tokens[t].family
               /\ tokens'[t].replacedBy = tokens[t].replacedBy
               /\ t \in S /\ Unrevoked(t) => tokens'[t].status = "revoked"
               /\ ~(t \in S /\ Unrevoked(t)) => tokens'[t] = tokens[t]
BY DEF TypeOK, TokenRow, Revoked

LEMMA ErasedEffect ==
    ASSUME TypeOK, NEW u \in Users, tokens' = Erased(u)
    PROVE  \A t \in TokenId :
               /\ tokens'[t].user = tokens[t].user
               /\ tokens'[t].family = tokens[t].family
               /\ tokens'[t].replacedBy = tokens[t].replacedBy
               /\ tokens[t].user = u /\ Issued(t) => tokens'[t].status = "gone"
               /\ ~(tokens[t].user = u /\ Issued(t)) => tokens'[t] = tokens[t]
BY DEF TypeOK, TokenRow, Erased

LEMMA ExpiryEffect ==
    ASSUME TypeOK, NEW t \in TokenId, TokenExpires(t)
    PROVE  /\ \A s \in TokenId \ {t} : tokens'[s] = tokens[s]
           /\ tokens'[t].user = tokens[t].user
           /\ tokens'[t].family = tokens[t].family
           /\ tokens'[t].replacedBy = tokens[t].replacedBy
           /\ tokens[t].status = "live"
           /\ tokens'[t].status = "expired"
           /\ UNCHANGED <<users, lastId, handler, origin, missed, nuked, ended, loggedOut, outdated>>
BY DEF TypeOK, TokenRow, TokenExpires, Live, history

\* A login or registration appends one live row, the first of its family.
LEMMA IssueEffect ==
    ASSUME TypeOK, NEW r \in Reqs, IssueFamily(r)
    PROVE  /\ NextId \in TokenId
           /\ lastId' = NextId
           /\ handler[r].pc = "issue"
           /\ Exists(handler[r].user)
           /\ \A t \in TokenId : t # NextId => tokens'[t] = tokens[t] /\ origin'[t] = origin[t]
           /\ tokens'[NextId].status = "live"
           /\ tokens'[NextId].user = handler[r].user
           /\ tokens'[NextId].family = NextId
           /\ tokens'[NextId].replacedBy = 0
           /\ origin'[NextId].parent = 0
           /\ origin'[NextId].password = handler[r].password
           /\ origin'[NextId].missed = missed[r]
           /\ handler'[r].pc = "idle"
           /\ \A q \in Reqs \ {r} : handler'[q] = handler[q] /\ missed'[q] = missed[q]
           /\ UNCHANGED <<users, nuked, ended, loggedOut, outdated>>
BY DEF TypeOK, HandlerType, IssueFamily, FreshRow, Finish, Idle, Begin, At, NextId

\* A rotation appends one live row to the family and retires the row it read;
\* other refreshes of that row are marked.
LEMMA RotateEffect ==
    ASSUME TypeOK, IdsSound, HeldRowsSound, NEW r \in Reqs, RefreshRotate(r)
    PROVE  /\ Held(r) \in TokenId
           /\ NextId \in TokenId
           /\ Held(r) <= lastId
           /\ lastId' = NextId
           /\ Refreshing(r)
           /\ Exists(tokens[Held(r)].user)
           /\ \A t \in TokenId : t # NextId /\ t # Held(r) => tokens'[t] = tokens[t]
           /\ \A t \in TokenId : t # NextId => origin'[t] = origin[t]
           /\ tokens'[NextId].status = "live"
           /\ tokens'[NextId].user = tokens[Held(r)].user
           /\ tokens'[NextId].family = tokens[Held(r)].family
           /\ tokens'[NextId].replacedBy = 0
           /\ tokens'[Held(r)].user = tokens[Held(r)].user
           /\ tokens'[Held(r)].family = tokens[Held(r)].family
           /\ tokens'[Held(r)].status = "revoked"
           /\ tokens'[Held(r)].replacedBy = NextId
           /\ origin'[NextId].parent = Held(r)
           /\ origin'[NextId].password = origin[Held(r)].password
           /\ origin'[NextId].missed = missed[r]
           /\ Ends(r)
           /\ \A q \in Reqs \ {r} : Refreshing(q) /\ Held(q) = Held(r) => "rotation" \in missed'[q]
           /\ UNCHANGED <<users, nuked, ended, loggedOut, outdated>>
<1> DEFINE old == handler[r].token
           new == lastId + 1
<1>1. old \in TokenId /\ Issued(old) /\ handler[r].user = tokens[old].user
  BY DEF TypeOK, HandlerType, Locals, RefreshRotate, At, HeldRowsSound
<1>2. new \in TokenId /\ lastId' = new /\ old <= lastId /\ old # new
  BY <1>1 DEF RefreshRotate, IdsSound, TypeOK
<1>3. /\ \A t \in TokenId \ {old, new} : tokens'[t] = tokens[t]
      /\ tokens'[new] = FreshRow(tokens[old].user, tokens[old].family)
      /\ tokens'[old] = [tokens[old] EXCEPT !.status = "revoked", !.replacedBy = new]
  BY <1>1, <1>2 DEF RefreshRotate, RotateRow, TypeOK
<1>4. /\ tokens'[old].user = tokens[old].user
      /\ tokens'[old].family = tokens[old].family
      /\ tokens'[old].status = "revoked"
      /\ tokens'[old].replacedBy = new
  BY <1>1, <1>3 DEF TypeOK, TokenRow
<1>5. /\ \A t \in TokenId : t # new => origin'[t] = origin[t]
      /\ origin'[new].parent = old
      /\ origin'[new].password = origin[old].password
      /\ origin'[new].missed = missed[r]
  BY <1>2 DEF RefreshRotate, TypeOK
<1>6. \A q \in Reqs \ {r} :
         /\ missed[q] \subseteq missed'[q]
         /\ Refreshing(q) /\ handler[q].token = old => "rotation" \in missed'[q]
  BY DEF RefreshRotate, Overtake
<1>7. Ends(r)
  BY <1>6, FinishEffect DEF RefreshRotate, Ends
<1>8. /\ tokens'[new].status = "live"
      /\ tokens'[new].user = tokens[old].user
      /\ tokens'[new].family = tokens[old].family
      /\ tokens'[new].replacedBy = 0
  BY <1>3 DEF FreshRow
<1>9. /\ Refreshing(r)
      /\ Exists(tokens[old].user)
      /\ UNCHANGED <<users, nuked, ended, loggedOut, outdated>>
  BY <1>1 DEF RefreshRotate, Refreshing, At
<1>10. QED
  BY <1>1, <1>2, <1>3, <1>4, <1>5, <1>6, <1>7, <1>8, <1>9 DEF Held, NextId

-----------------------------------------------------------------------------
\* Steps that leave the rows alone

RowsKept ==
    /\ UNCHANGED tokens
    /\ UNCHANGED lastId
    /\ UNCHANGED origin
    /\ UNCHANGED nuked
    /\ UNCHANGED ended
    /\ UNCHANGED loggedOut
    /\ UNCHANGED outdated

\* No account comes back, no password version goes back.
UsersForward ==
    \A u \in Users : users[u].password <= users'[u].password /\ (Exists(u) => Exists(u)')

OthersKept(r) == \A q \in Reqs \ {r} : handler'[q] = handler[q] /\ missed'[q] = missed[q]

\* What a handler may hold after such a step.
Signs(r) ==
    /\ handler'[r].pc = "issue"
    /\ handler'[r].user \in Users
    /\ handler'[r].password = users[handler'[r].user].password

Replays(r) ==
    /\ handler'[r].pc = "refresh_nuke"
    /\ handler'[r].token \in TokenId
    /\ tokens[handler'[r].token].status = "revoked"
    /\ handler'[r].user = tokens[handler'[r].token].user

Accepts(r) ==
    /\ handler'[r].pc = "refresh_user"
    /\ handler'[r].token \in TokenId
    /\ Live(handler'[r].token)
    /\ handler'[r].user = tokens[handler'[r].token].user
    /\ missed'[r] = origin[handler'[r].token].missed

GoesOn(r) ==
    /\ handler[r].pc = "refresh_user"
    /\ handler'[r].pc = "refresh_rotate"
    /\ handler'[r].token = handler[r].token
    /\ handler'[r].user = handler[r].user
    /\ missed'[r] = missed[r]

Wrote(r) ==
    /\ handler'[r].pc = "revoke_all"
    /\ handler'[r].user \in Users
    /\ handler'[r].password <= users'[handler'[r].user].password

HoldsNothing(r) == handler'[r].pc \in {"idle", "reset_write", "change_write", "delete"}

QuietStep(r) ==
    /\ RowsKept
    /\ UsersForward
    /\ OthersKept(r)
    /\ Signs(r) \/ Replays(r) \/ Accepts(r) \/ GoesOn(r) \/ Wrote(r) \/ HoldsNothing(r)

\* A step that leaves every handler alone too.
IdleStep == RowsKept /\ UsersForward /\ UNCHANGED <<handler, missed>>

LEMMA BeginEffect ==
    ASSUME TypeOK, NEW r \in Reqs, NEW S, Begin(r, S)
    PROVE  /\ missed'[r] = S
           /\ \A q \in Reqs \ {r} : missed'[q] = missed[q]
BY DEF TypeOK, Begin

LEMMA PasswordsAreNumbers == ASSUME TypeOK PROVE \A u \in Users : users[u].password \in Int
BY DEF TypeOK, UserRow, Password

LEMMA SameUsers == ASSUME TypeOK, UNCHANGED users PROVE UsersForward
BY PasswordsAreNumbers DEF UsersForward, Exists

LEMMA ArrivalsAreQuiet ==
    ASSUME TypeOK, NEW r \in Reqs, Arrive(r)
    PROVE  QuietStep(r)
<1> USE PasswordsAreNumbers
<1>1. ASSUME NEW u \in Users, Register(r, u) PROVE QuietStep(r)
  <2>1. users' = [users EXCEPT ![u].state = "active"]
    BY <1>1 DEF Register
  <2>2. UsersForward
    BY <2>1 DEF UsersForward, TypeOK, UserRow, Exists
  <2>3. Signs(r) /\ OthersKept(r)
    BY <1>1, BeginEffect DEF Become, TypeOK, HandlerType, Register, Signs, OthersKept
  <2>4. QED
    BY <1>1, <2>2, <2>3 DEF QuietStep, RowsKept, Register
<1>2. ASSUME NEW u \in Users, Login(r, u) PROVE QuietStep(r)
  <2>1. Signs(r) /\ OthersKept(r)
    BY <1>2, BeginEffect DEF Become, TypeOK, HandlerType, Login, Signs, OthersKept
  <2>2. QED
    BY <1>2, <2>1, SameUsers DEF QuietStep, RowsKept, Login
<1>3. ASSUME NEW u \in Users, ResetLookup(r, u) \/ ChangeLookup(r, u) \/ DeleteLookup(r, u)
      PROVE  QuietStep(r)
  <2>1. HoldsNothing(r) /\ OthersKept(r)
    BY <1>3 DEF Become, TypeOK, HandlerType, ResetLookup, ChangeLookup, DeleteLookup, HoldsNothing, OthersKept
  <2>2. QED
    BY <1>3, <2>1, SameUsers
    DEF QuietStep, RowsKept, ResetLookup, ChangeLookup, DeleteLookup
<1>4. ASSUME NEW t \in TokenId, RefreshReplayed(r, t) PROVE QuietStep(r)
  <2>1. Replays(r) /\ OthersKept(r)
    BY <1>4, BeginEffect DEF Become, TypeOK, HandlerType, RefreshReplayed, Replays, OthersKept
  <2>2. QED
    BY <1>4, <2>1, SameUsers DEF QuietStep, RowsKept, RefreshReplayed
<1>5. ASSUME NEW t \in TokenId, RefreshAccepted(r, t) PROVE QuietStep(r)
  <2>1. Accepts(r) /\ OthersKept(r)
    BY <1>5, BeginEffect DEF Become, TypeOK, HandlerType, RefreshAccepted, Accepts, OthersKept
  <2>2. QED
    BY <1>5, <2>1, SameUsers DEF QuietStep, RowsKept, RefreshAccepted
<1>6. QED
  BY <1>1, <1>2, <1>3, <1>4, <1>5 DEF Arrive

LEMMA RefreshUserIsQuiet ==
    ASSUME TypeOK, NEW r \in Reqs, RefreshUser(r)
    PROVE  QuietStep(r)
<1>1. UsersForward /\ RowsKept
  BY SameUsers DEF RefreshUser, RowsKept
<1>2. CASE handler' = [handler EXCEPT ![r].pc = "refresh_rotate"] /\ UNCHANGED missed
  <2>1. GoesOn(r) /\ OthersKept(r)
    BY <1>2 DEF RefreshUser, At, GoesOn, OthersKept, TypeOK, HandlerType, Locals
  <2>2. QED
    BY <1>1, <2>1 DEF QuietStep
<1>3. CASE Finish(r) /\ Begin(r, {})
  BY <1>1, <1>3, FinishEffect, BeginEffect DEF QuietStep, HoldsNothing, OthersKept
<1>4. QED
  BY <1>2, <1>3 DEF RefreshUser

LEMMA WritePasswordIsQuiet ==
    ASSUME TypeOK, NEW r \in Reqs, WritePassword(r)
    PROVE  QuietStep(r)
<1> DEFINE u == handler[r].user
           p == users[u].password + 1
<1>1. u \in Users
  BY DEF TypeOK, HandlerType, Locals
<1>2. CASE /\ Exists(u)
           /\ p \in Password
           /\ users' = [users EXCEPT ![u].password = p]
           /\ Become(r, "revoke_all", u, 0, p)
  <2>1. /\ users'[u].password = p
        /\ \A v \in Users : users'[v].state = users[v].state
        /\ \A v \in Users \ {u} : users'[v] = users[v]
    BY <1>1, <1>2 DEF TypeOK, UserRow
  <2>2. UsersForward
    BY <2>1, PasswordsAreNumbers DEF UsersForward, Exists
  <2>3. Wrote(r) /\ OthersKept(r)
    BY <1>1, <1>2, <2>1, PasswordsAreNumbers
    DEF Become, TypeOK, HandlerType, Wrote, OthersKept, WritePassword, history
  <2>4. QED
    BY <2>2, <2>3 DEF QuietStep, RowsKept, WritePassword, history
<1>3. CASE users' = users /\ Become(r, "revoke_all", u, 0, 0)
  <2>1. users[u].password >= 0
    BY <1>1 DEF TypeOK, UserRow, Password
  <2>2. Wrote(r) /\ OthersKept(r)
    BY <1>1, <1>3, <2>1, PasswordsAreNumbers
    DEF Become, TypeOK, HandlerType, Wrote, OthersKept, WritePassword, history
  <2>3. UsersForward
    BY <1>3, PasswordsAreNumbers DEF UsersForward, Exists
  <2>4. QED
    BY <2>2, <2>3 DEF QuietStep, RowsKept, WritePassword, history
<1>4. QED
  BY <1>2, <1>3 DEF WritePassword

LEMMA AbortIsQuiet ==
    ASSUME TypeOK, NEW r \in Reqs, Abort(r)
    PROVE  QuietStep(r)
BY FinishEffect, BeginEffect, SameUsers DEF Abort, QuietStep, HoldsNothing, OthersKept, RowsKept

LEMMA SetActiveIsIdle ==
    ASSUME TypeOK, NEW u \in Users, NEW active \in BOOLEAN, SetActive(u, active)
    PROVE  IdleStep
<1>1. UsersForward
  BY PasswordsAreNumbers DEF SetActive, UsersForward, TypeOK, UserRow, Exists
<1>2. QED
  BY <1>1 DEF SetActive, IdleStep, RowsKept, history

\* The ways a step can go, for the proofs by cases below.
LEMMA StepCases ==
    ASSUME TypeOK, [Next]_vars
    PROVE  \/ IdleStep
           \/ \E r \in Reqs : \/ QuietStep(r)
                              \/ IssueFamily(r)
                              \/ RefreshNuke(r)
                              \/ RefreshRotate(r)
                              \/ RevokeAll(r)
                              \/ DeleteUser(r)
           \/ \E t \in TokenId : Logout(t) \/ TokenExpires(t)
<1>1. ASSUME UNCHANGED vars PROVE IdleStep
  BY <1>1, SameUsers DEF vars, IdleStep, RowsKept
<1>2. QED
  BY <1>1, ArrivalsAreQuiet, RefreshUserIsQuiet, WritePasswordIsQuiet, AbortIsQuiet, SetActiveIsIdle
  DEF Next, Steady, Advance

-----------------------------------------------------------------------------
\* Steps that revoke or erase rows

RowsRevoked(S) ==
    \A t \in TokenId :
        /\ tokens'[t].user = tokens[t].user
        /\ tokens'[t].family = tokens[t].family
        /\ tokens'[t].replacedBy = tokens[t].replacedBy
        /\ t \in S /\ Unrevoked(t) => tokens'[t].status = "revoked"
        /\ ~(t \in S /\ Unrevoked(t)) => tokens'[t] = tokens[t]

LEMMA NukeEffect ==
    ASSUME TypeOK, IdsSound, HeldRowsSound, NEW r \in Reqs, RefreshNuke(r)
    PROVE  LET f == FamilyOf(r) IN
           /\ f \in TokenId /\ f <= lastId
           /\ RowsRevoked(FamilyRows(f))
           /\ nuked' = nuked \cup {f}
           /\ Ends(r)
           /\ \A q \in Reqs \ {r} : Refreshing(q) /\ FamilyOf(q) = f => "family" \in missed'[q]
           /\ UNCHANGED <<users, lastId, origin, ended, loggedOut, outdated>>
<1> DEFINE f == FamilyOf(r)
<1>1. handler[r].token \in TokenId /\ Issued(handler[r].token)
  BY DEF TypeOK, HandlerType, Locals, RefreshNuke, At, HeldRowsSound
<1>2. f \in TokenId /\ f <= lastId
  BY <1>1 DEF FamilyOf, IdsSound, TypeOK, TokenRow
<1>3. RowsRevoked(FamilyRows(f))
  BY RevokedEffect DEF RefreshNuke, FamilyOf, RowsRevoked
<1>4. /\ \A q \in Reqs \ {r} : missed[q] \subseteq missed'[q]
      /\ \A q \in Reqs \ {r} : Refreshing(q) /\ FamilyOf(q) = f => "family" \in missed'[q]
  BY DEF RefreshNuke, FamilyOf, Overtake
<1>5. Ends(r)
  BY <1>4, FinishEffect DEF RefreshNuke, Ends
<1>6. QED
  BY <1>2, <1>3, <1>4, <1>5 DEF RefreshNuke, FamilyOf

LEMMA RevokeAllEffect ==
    ASSUME TypeOK, NEW r \in Reqs, RevokeAll(r)
    PROVE  LET u == handler[r].user
               p == handler[r].password
           IN
           /\ handler[r].pc = "revoke_all"
           /\ u \in Users /\ p \in Int
           /\ RowsRevoked(UserRows(u))
           /\ ended'[u] = IF p > ended[u] THEN p ELSE ended[u]
           /\ \A v \in Users \ {u} : ended'[v] = ended[v]
           /\ Ends(r)
           /\ \A q \in Reqs \ {r} :
                 /\ SigningIn(q) /\ handler[q].user = u /\ handler[q].password < p
                      => "password" \in missed'[q]
                 /\ Refreshing(q) /\ handler[q].user = u /\ origin[handler[q].token].password < p
                      => "password" \in missed'[q]
           /\ UNCHANGED <<users, lastId, origin, nuked, loggedOut, outdated>>
<1> DEFINE u == handler[r].user
           p == handler[r].password
<1>1. u \in Users /\ p \in Int
  BY DEF TypeOK, HandlerType, Locals, Password
<1>2. RowsRevoked(UserRows(u))
  BY RevokedEffect DEF RevokeAll, RowsRevoked
<1>3. /\ ended'[u] = IF p > ended[u] THEN p ELSE ended[u]
      /\ \A v \in Users \ {u} : ended'[v] = ended[v]
  BY <1>1 DEF RevokeAll, TypeOK
<1>4. \A q \in Reqs \ {r} :
         /\ missed[q] \subseteq missed'[q]
         /\ SigningIn(q) /\ handler[q].user = u /\ handler[q].password < p => "password" \in missed'[q]
         /\ Refreshing(q) /\ handler[q].user = u /\ origin[handler[q].token].password < p
               => "password" \in missed'[q]
  BY DEF RevokeAll, Overtake
<1>5. Ends(r)
  BY <1>4, FinishEffect DEF RevokeAll, Ends
<1>6. QED
  BY <1>1, <1>2, <1>3, <1>4, <1>5 DEF RevokeAll, At

LEMMA LogoutEffect ==
    ASSUME TypeOK, NEW t \in TokenId, Logout(t)
    PROVE  /\ Issued(t)
           /\ RowsRevoked({t})
           /\ loggedOut' = loggedOut \cup {t}
           /\ outdated \subseteq outdated'
           /\ t \notin loggedOut /\ ~Leaf(t) => t \in outdated'
           /\ \A q \in Reqs :
                 /\ missed[q] \subseteq missed'[q]
                 /\ Refreshing(q) /\ handler[q].token = t => "logout" \in missed'[q]
           /\ UNCHANGED <<users, lastId, handler, origin, nuked, ended>>
<1>1. RowsRevoked({t})
  BY RevokedEffect DEF Logout, RowsRevoked
<1>2. outdated \subseteq outdated' /\ (t \notin loggedOut /\ ~Leaf(t) => t \in outdated')
  BY DEF Logout
<1>3. QED
  BY <1>1, <1>2 DEF Logout

LEMMA DeleteEffect ==
    ASSUME TypeOK, NEW r \in Reqs, DeleteUser(r)
    PROVE  LET u == handler[r].user IN
           /\ u \in Users
           /\ \A v \in Users \ {u} : users'[v] = users[v]
           /\ \A v \in Users : users'[v].password = users[v].password
           /\ \A t \in TokenId :
                 /\ tokens'[t].user = tokens[t].user
                 /\ tokens'[t].family = tokens[t].family
                 /\ tokens'[t].replacedBy = tokens[t].replacedBy
                 /\ tokens[t].user = u /\ Issued(t) => tokens'[t].status = "gone"
                 /\ ~(tokens[t].user = u /\ Issued(t)) => tokens'[t] = tokens[t]
           /\ Ends(r)
           /\ UNCHANGED <<lastId, origin, nuked, ended, loggedOut, outdated>>
<1> DEFINE u == handler[r].user
<1>1. u \in Users
  BY DEF TypeOK, HandlerType, Locals
<1>2. /\ \A v \in Users \ {u} : users'[v] = users[v]
      /\ \A v \in Users : users'[v].password = users[v].password
  BY <1>1 DEF DeleteUser, TypeOK, UserRow
<1>3. Ends(r)
  BY FinishEffect DEF DeleteUser, Ends, history
<1>4. QED
  BY <1>1, <1>2, <1>3, ErasedEffect DEF DeleteUser, history

-----------------------------------------------------------------------------
\* The parts of the inductive invariant, one lemma each

LEMMA RowTypes ==
    ASSUME TypeOK
    PROVE  /\ lastId \in Nat
           /\ TokenId \subseteq Nat
           /\ nuked \subseteq TokenId
           /\ loggedOut \subseteq TokenId
           /\ \A t \in TokenId :
                 /\ tokens[t].user \in Users
                 /\ tokens[t].family \in TokenId
                 /\ tokens[t].replacedBy \in Nat
                 /\ origin[t].parent \in Nat
                 /\ origin[t].password \in Nat
BY DEF TypeOK, TokenId, TokenRow, Origin, Password

LEMMA IdsStep == ASSUME IInv, [Next]_vars PROVE IdsSound'
<1> USE DEF IInv
<1> USE RowTypes
<1>1. ASSUME RowsKept PROVE IdsSound'
  BY <1>1 DEF RowsKept, IdsSound, Issued, Unrevoked
<1>2. ASSUME NEW r \in Reqs, IssueFamily(r) PROVE IdsSound'
  <2>1. NextId = lastId + 1
    BY DEF NextId
  <2>2. QED
    BY <1>2, <2>1, IssueEffect DEF IdsSound, Issued, Unrevoked
<1>3. ASSUME NEW r \in Reqs, RefreshNuke(r) PROVE IdsSound'
  <2>1. /\ nuked' = nuked \cup {FamilyOf(r)} /\ FamilyOf(r) <= lastId
        /\ UNCHANGED <<lastId, origin, loggedOut>>
    BY <1>3, NukeEffect
  <2>2. PICK S : RowsRevoked(S)
    BY <1>3, NukeEffect
  <2>3. QED
    BY <2>1, <2>2 DEF IdsSound, Issued, Unrevoked, RowsRevoked
<1>4. ASSUME NEW r \in Reqs, RefreshRotate(r) PROVE IdsSound'
  <2>1. NextId = lastId + 1
    BY DEF NextId
  <2>2. QED
    BY <1>4, <2>1, RotateEffect DEF IdsSound, Issued, Unrevoked
<1>5. ASSUME NEW r \in Reqs, RevokeAll(r) PROVE IdsSound'
  <2>1. UNCHANGED <<lastId, origin, nuked, loggedOut, outdated>>
    BY <1>5, RevokeAllEffect
  <2>2. PICK S : RowsRevoked(S)
    BY <1>5, RevokeAllEffect
  <2>3. QED
    BY <2>1, <2>2 DEF IdsSound, Issued, Unrevoked, RowsRevoked
<1>6. ASSUME NEW r \in Reqs, DeleteUser(r) PROVE IdsSound'
  BY <1>6, DeleteEffect DEF IdsSound, Issued, Unrevoked
<1>7. ASSUME NEW t \in TokenId, Logout(t) PROVE IdsSound'
  BY <1>7, LogoutEffect DEF IdsSound, Issued, Unrevoked, RowsRevoked
<1>8. ASSUME NEW t \in TokenId, TokenExpires(t) PROVE IdsSound'
  BY <1>8, ExpiryEffect DEF IdsSound, Issued, Unrevoked
<1>9. QED
  BY <1>1, <1>2, <1>3, <1>4, <1>5, <1>6, <1>7, <1>8, StepCases DEF QuietStep, IdleStep

LEMMA HeldRowsStep == ASSUME IInv, [Next]_vars PROVE HeldRowsSound'
<1> USE RowTypes DEF IInv
<1>0. ASSUME \A t \in TokenId : Issued(t) => tokens'[t].user = tokens[t].user /\ Issued(t)',
             \A q \in Reqs : handler'[q] = handler[q] \/ handler'[q].pc = "idle"
      PROVE  HeldRowsSound'
  <2>1. \A q \in Reqs : handler[q].pc \in {"refresh_nuke", "refresh_user", "refresh_rotate"}
                            => handler[q].token \in TokenId
    BY DEF TypeOK, HandlerType, Locals
  <2>2. QED
    BY <1>0, <2>1 DEF HeldRowsSound
<1>1. ASSUME NEW r \in Reqs, QuietStep(r) PROVE HeldRowsSound'
  BY <1>1 DEF HeldRowsSound, QuietStep, RowsKept, OthersKept, Signs, Replays, Accepts, GoesOn,
              Wrote, HoldsNothing, Issued, Live
<1>2. ASSUME IdleStep PROVE HeldRowsSound'
  BY <1>2 DEF HeldRowsSound, IdleStep, RowsKept, Issued
<1>3. ASSUME NEW r \in Reqs, IssueFamily(r) PROVE HeldRowsSound'
  <2>1. ~Issued(NextId)
    BY <1>3, IssueEffect DEF IdsSound, NextId
  <2>2. \A t \in TokenId : t # NextId => tokens'[t] = tokens[t]
    BY <1>3, IssueEffect
  <2>3. \A t \in TokenId : Issued(t) => tokens'[t].user = tokens[t].user /\ Issued(t)'
    BY <2>1, <2>2 DEF Issued
  <2>4. \A q \in Reqs : handler'[q] = handler[q] \/ handler'[q].pc = "idle"
    BY <1>3, IssueEffect
  <2>5. QED
    BY <1>0, <2>3, <2>4
<1>4. ASSUME NEW r \in Reqs, RefreshNuke(r) PROVE HeldRowsSound'
  BY <1>0, <1>4, NukeEffect DEF RowsRevoked, Issued, Ends
<1>5. ASSUME NEW r \in Reqs, RefreshRotate(r) PROVE HeldRowsSound'
  <2>1. ~Issued(NextId)
    BY <1>5, RotateEffect DEF IdsSound, NextId
  <2>2. QED
    <3>1. \A t \in TokenId : Issued(t) => tokens'[t].user = tokens[t].user /\ Issued(t)'
      BY <1>5, <2>1, RotateEffect DEF Issued
    <3>2. \A q \in Reqs : handler'[q] = handler[q] \/ handler'[q].pc = "idle"
      BY <1>5, RotateEffect DEF Ends
    <3>3. QED
      BY <1>0, <3>1, <3>2
<1>6. ASSUME NEW r \in Reqs, RevokeAll(r) PROVE HeldRowsSound'
  BY <1>0, <1>6, RevokeAllEffect DEF RowsRevoked, Issued, Ends
<1>7. ASSUME NEW r \in Reqs, DeleteUser(r) PROVE HeldRowsSound'
  BY <1>0, <1>7, DeleteEffect DEF Issued, Ends
<1>8. ASSUME NEW t \in TokenId, Logout(t) PROVE HeldRowsSound'
  BY <1>0, <1>8, LogoutEffect DEF RowsRevoked, Issued
<1>9. ASSUME NEW t \in TokenId, TokenExpires(t) PROVE HeldRowsSound'
  BY <1>0, <1>9, ExpiryEffect DEF Issued
<1>10. QED
  BY <1>1, <1>2, <1>3, <1>4, <1>5, <1>6, <1>7, <1>8, <1>9, StepCases

LEMMA OwnersStep == ASSUME IInv, [Next]_vars PROVE RowsHaveOwners'
<1> USE RowTypes DEF IInv
<1>1. ASSUME RowsKept, UsersForward PROVE RowsHaveOwners'
  BY <1>1 DEF RowsHaveOwners, RowsKept, UsersForward
<1>2. ASSUME NEW r \in Reqs, IssueFamily(r) PROVE RowsHaveOwners'
  BY <1>2, IssueEffect DEF RowsHaveOwners, Exists
<1>3. ASSUME NEW r \in Reqs, RefreshNuke(r) PROVE RowsHaveOwners'
  BY <1>3, NukeEffect DEF RowsHaveOwners, RowsRevoked, Exists, Unrevoked
<1>4. ASSUME NEW r \in Reqs, RefreshRotate(r) PROVE RowsHaveOwners'
  BY <1>4, RotateEffect DEF RowsHaveOwners, Exists
<1>5. ASSUME NEW r \in Reqs, RevokeAll(r) PROVE RowsHaveOwners'
  BY <1>5, RevokeAllEffect DEF RowsHaveOwners, RowsRevoked, Exists, Unrevoked
<1>6. ASSUME NEW r \in Reqs, DeleteUser(r) PROVE RowsHaveOwners'
  BY <1>6, DeleteEffect DEF RowsHaveOwners, Issued, Exists
<1>7. ASSUME NEW t \in TokenId, Logout(t) PROVE RowsHaveOwners'
  BY <1>7, LogoutEffect DEF RowsHaveOwners, RowsRevoked, Exists, Unrevoked
<1>8. ASSUME NEW t \in TokenId, TokenExpires(t) PROVE RowsHaveOwners'
  BY <1>8, ExpiryEffect DEF RowsHaveOwners, Exists
<1>9. QED
  BY <1>1, <1>2, <1>3, <1>4, <1>5, <1>6, <1>7, <1>8, StepCases DEF QuietStep, IdleStep

\* A refresh in flight holds an issued row.
LEMMA RefreshersHold ==
    ASSUME TypeOK, HeldRowsSound, NEW q \in Reqs, Refreshing(q)
    PROVE  /\ Held(q) \in TokenId
           /\ Issued(Held(q))
           /\ handler[q].user = tokens[Held(q)].user
           /\ FamilyOf(q) = tokens[Held(q)].family
BY DEF TypeOK, HandlerType, Locals, HeldRowsSound, Refreshing, Held, FamilyOf

\* The next id is new to every other part of the state.
LEMMA FreshId ==
    ASSUME TypeOK, IdsSound, NextId \in TokenId
    PROVE  /\ ~Issued(NextId)
           /\ NextId \notin nuked
           /\ NextId \notin loggedOut
           /\ \A t \in TokenId : Issued(t) => tokens[t].family # NextId
BY RowTypes DEF IdsSound, NextId

\* After a quiet step a refresh is one that was there before, or one that has
\* just read a live row and knows what that row's line missed.
LEMMA QuietRefresh ==
    ASSUME NEW r \in Reqs, QuietStep(r), NEW q \in Reqs, Refreshing(q)'
    PROVE  \/ /\ Refreshing(q)
              /\ Held(q)' = Held(q)
              /\ handler'[q].user = handler[q].user
              /\ missed'[q] = missed[q]
           \/ /\ Held(q)' \in TokenId
              /\ Live(Held(q)')
              /\ handler'[q].user = tokens[Held(q)'].user
              /\ missed'[q] = origin[Held(q)'].missed
BY DEF QuietStep, OthersKept, Signs, Replays, Accepts, GoesOn, Wrote, HoldsNothing, Refreshing, Held

\* Steps that issue no token: rows only die, handlers only end, histories grow.
RowsFade ==
    \A t \in TokenId :
        /\ tokens'[t].user = tokens[t].user
        /\ tokens'[t].family = tokens[t].family
        /\ tokens'[t].replacedBy = tokens[t].replacedBy
        /\ Unrevoked(t)' => Unrevoked(t)
        /\ Live(t)' => Live(t)

LocalsFade ==
    \A q \in Reqs :
        \/ handler'[q].pc = "idle"
        \/ handler'[q] = handler[q] /\ missed[q] \subseteq missed'[q]

Fading == RowsFade /\ LocalsFade /\ origin' = origin

LEMMA FadingSteps ==
    ASSUME TypeOK, IdsSound, HeldRowsSound
    PROVE  /\ IdleStep => Fading
           /\ \A r \in Reqs : RefreshNuke(r) => Fading
           /\ \A r \in Reqs : RevokeAll(r) => Fading
           /\ \A r \in Reqs : DeleteUser(r) => Fading
           /\ \A t \in TokenId : Logout(t) => Fading
           /\ \A t \in TokenId : TokenExpires(t) => Fading
<1>0. ASSUME NEW r \in Reqs, Ends(r) PROVE LocalsFade
  BY <1>0 DEF Ends, LocalsFade
<1>1. ASSUME NEW S, RowsRevoked(S) PROVE RowsFade
  BY <1>1 DEF RowsRevoked, RowsFade, Live, Unrevoked
<1>2. IdleStep => Fading
  BY DEF IdleStep, RowsKept, Fading, RowsFade, LocalsFade, Live, Unrevoked
<1>3. ASSUME NEW r \in Reqs, RefreshNuke(r) PROVE Fading
  <2>1. RowsRevoked(FamilyRows(FamilyOf(r))) /\ Ends(r) /\ origin' = origin
    BY <1>3, NukeEffect
  <2>2. QED
    BY <1>0, <1>1, <2>1 DEF Fading
<1>4. ASSUME NEW r \in Reqs, RevokeAll(r) PROVE Fading
  <2>1. RowsRevoked(UserRows(handler[r].user)) /\ Ends(r) /\ origin' = origin
    BY <1>4, RevokeAllEffect
  <2>2. QED
    BY <1>0, <1>1, <2>1 DEF Fading
<1>5. ASSUME NEW r \in Reqs, DeleteUser(r) PROVE Fading
  <2>1. RowsFade
    BY <1>5, DeleteEffect DEF RowsFade, Live, Unrevoked
  <2>2. Ends(r) /\ origin' = origin
    BY <1>5, DeleteEffect
  <2>3. QED
    BY <1>0, <2>1, <2>2 DEF Fading
<1>6. ASSUME NEW t \in TokenId, Logout(t) PROVE Fading
  <2>1. RowsRevoked({t}) /\ origin' = origin
    BY <1>6, LogoutEffect
  <2>2. LocalsFade
    BY <1>6, LogoutEffect DEF LocalsFade
  <2>3. QED
    BY <1>1, <2>1, <2>2 DEF Fading
<1>7. ASSUME NEW t \in TokenId, TokenExpires(t) PROVE Fading
  <2>1. RowsFade
    BY <1>7, ExpiryEffect DEF RowsFade, Live, Unrevoked
  <2>2. LocalsFade /\ origin' = origin
    BY <1>7, ExpiryEffect DEF LocalsFade
  <2>3. QED
    BY <2>1, <2>2 DEF Fading
<1>8. QED
  BY <1>2, <1>3, <1>4, <1>5, <1>6, <1>7

\* A refresh that outlives a step keeps its row, and forgets nothing.
Carries(q) ==
    /\ Refreshing(q)
    /\ handler'[q] = handler[q]
    /\ Held(q)' = Held(q)
    /\ missed[q] \subseteq missed'[q]
    /\ Held(q) \in TokenId
    /\ Issued(Held(q))
    /\ handler[q].user = tokens[Held(q)].user
    /\ FamilyOf(q)' = FamilyOf(q)
    /\ FamilyOf(q) = tokens[Held(q)].family
    /\ origin'[Held(q)] = origin[Held(q)]

LEMMA FadingCarries ==
    ASSUME TypeOK, HeldRowsSound, Fading, NEW q \in Reqs, Refreshing(q)'
    PROVE  Carries(q)
<1>1. Refreshing(q) /\ handler'[q] = handler[q] /\ missed[q] \subseteq missed'[q]
  BY DEF Fading, LocalsFade, Refreshing
<1>2. QED
  BY <1>1, RefreshersHold DEF Carries, Fading, RowsFade, FamilyOf, Held

LEMMA IssueCarries ==
    ASSUME TypeOK, IdsSound, HeldRowsSound, NEW r \in Reqs, IssueFamily(r),
           NEW q \in Reqs, Refreshing(q)'
    PROVE  Carries(q)
<1>1. Refreshing(q) /\ handler'[q] = handler[q] /\ missed'[q] = missed[q]
  BY IssueEffect DEF Refreshing
<1>2. QED
  BY <1>1, RefreshersHold, IssueEffect, FreshId DEF Carries, FamilyOf, Held

LEMMA RotateCarries ==
    ASSUME TypeOK, IdsSound, HeldRowsSound, NEW r \in Reqs, RefreshRotate(r),
           NEW q \in Reqs, Refreshing(q)'
    PROVE  Carries(q) /\ q # r
<1>1. q # r /\ Refreshing(q) /\ handler'[q] = handler[q] /\ missed[q] \subseteq missed'[q]
  BY RotateEffect DEF Refreshing, Ends
<1>2. QED
  BY <1>1, RefreshersHold, RotateEffect, FreshId DEF Carries, FamilyOf, Held

LEMMA FamilyStep == ASSUME IInv, [Next]_vars PROVE FamilyInv'
<1> USE RowTypes DEF IInv
<1>1. ASSUME Fading, nuked' = nuked PROVE FamilyInv'
  <2>1. FamilyRevocationHolds'
    BY <1>1 DEF FamilyInv, FamilyRevocationHolds, Fading, RowsFade
  <2>2. QED
    BY <1>1, <2>1, FadingCarries DEF FamilyInv, Carries
<1>2. ASSUME NEW r \in Reqs, QuietStep(r) PROVE FamilyInv'
  <2>1. FamilyRevocationHolds'
    BY <1>2 DEF FamilyInv, FamilyRevocationHolds, QuietStep, RowsKept, Live
  <2>2. ASSUME NEW q \in Reqs, Refreshing(q)', FamilyOf(q)' \in nuked' PROVE "family" \in missed'[q]
    <3>1. FamilyOf(q)' = tokens[Held(q)'].family /\ nuked' = nuked
      BY <1>2 DEF QuietStep, RowsKept, FamilyOf, Held
    <3>2. QED
      BY <1>2, <2>2, <3>1, QuietRefresh DEF FamilyInv, FamilyRevocationHolds, FamilyOf, Held
  <2>3. QED
    BY <2>1, <2>2 DEF FamilyInv
<1>3. ASSUME NEW r \in Reqs, IssueFamily(r) PROVE FamilyInv'
  <2>1. FamilyRevocationHolds'
    BY <1>3, IssueEffect, FreshId DEF FamilyInv, FamilyRevocationHolds, Live
  <2>2. QED
    BY <1>3, <2>1, IssueEffect, IssueCarries DEF FamilyInv, Carries
<1>4. ASSUME NEW r \in Reqs, RefreshNuke(r) PROVE FamilyInv'
  <2> DEFINE f == FamilyOf(r)
  <2>1. /\ RowsRevoked(FamilyRows(f))
        /\ nuked' = nuked \cup {f}
        /\ \A q \in Reqs \ {r} : Refreshing(q) /\ FamilyOf(q) = f => "family" \in missed'[q]
        /\ origin' = origin
        /\ handler'[r].pc = "idle"
    BY <1>4, NukeEffect DEF Ends
  <2> HIDE DEF f
  <2>2. FamilyRevocationHolds'
    BY <2>1 DEF FamilyInv, FamilyRevocationHolds, RowsRevoked, FamilyRows, Live, Unrevoked
  <2>3. ASSUME NEW q \in Reqs, Refreshing(q)', FamilyOf(q)' \in nuked' PROVE "family" \in missed'[q]
    <3>1. q # r /\ Carries(q)
      BY <1>4, <2>1, <2>3, FadingSteps, FadingCarries DEF Refreshing
    <3>2. QED
      BY <2>1, <2>3, <3>1 DEF FamilyInv, Carries
  <2>4. QED
    BY <2>2, <2>3 DEF FamilyInv
<1>5. ASSUME NEW r \in Reqs, RefreshRotate(r) PROVE FamilyInv'
  <2>1. Held(r) \in TokenId /\ FamilyOf(r) = tokens[Held(r)].family
    BY <1>5, RotateEffect DEF FamilyOf, Held
  <2>2. FamilyRevocationHolds'
    BY <1>5, <2>1, RotateEffect DEF FamilyInv, FamilyRevocationHolds, Live
  <2>3. QED
    BY <1>5, <2>2, RotateEffect, RotateCarries DEF FamilyInv, Carries
<1>6. ASSUME NEW r \in Reqs, RevokeAll(r) \/ DeleteUser(r) PROVE FamilyInv'
  BY <1>1, <1>6, FadingSteps, RevokeAllEffect, DeleteEffect
<1>7. ASSUME NEW t \in TokenId, Logout(t) \/ TokenExpires(t) PROVE FamilyInv'
  BY <1>1, <1>7, FadingSteps, LogoutEffect, ExpiryEffect
<1>8. ASSUME IdleStep PROVE FamilyInv'
  BY <1>1, <1>8, FadingSteps DEF IdleStep, RowsKept
<1>9. QED
  BY <1>2, <1>3, <1>4, <1>5, <1>6, <1>7, <1>8, StepCases

\* A live token was not exchanged yet.
LEMMA LiveIsLeaf ==
    /\ LineageSound => \A t \in TokenId : Live(t) => Leaf(t)
    /\ LineageSound' => \A t \in TokenId : Live(t)' => Leaf(t)'
BY DEF LineageSound, Live, Unrevoked, Leaf, Issued

\* Two rotations of one family that do not know of each other: the heart of
\* OneSessionPerFamily.  RotationInv in three parts.
RowsApart ==
    \A s, t \in TokenId :
        t < s /\ Issued(s) /\ Leaf(t) /\ tokens[s].family = tokens[t].family
           => "rotation" \in origin[s].missed \cup origin[t].missed

RefreshApart ==
    \A r \in Reqs, t \in TokenId :
        Refreshing(r) /\ Held(r) # t /\ Leaf(t) /\ tokens[t].family = FamilyOf(r)
           => "rotation" \in missed[r] \cup origin[t].missed

RefreshesApart ==
    \A r, q \in Reqs :
        Refreshing(r) /\ Refreshing(q) /\ Held(r) # Held(q) /\ FamilyOf(r) = FamilyOf(q)
           => "rotation" \in missed[r] \cup missed[q]

LEMMA RotationParts ==
    /\ RotationInv <=> RowsApart /\ RefreshApart /\ RefreshesApart
    /\ RotationInv' <=> RowsApart' /\ RefreshApart' /\ RefreshesApart'
BY DEF RotationInv, RowsApart, RefreshApart, RefreshesApart, Held

\* Two tokens of a family not exchanged yet: one is the later.
LEMMA LeavesApart ==
    ASSUME TypeOK, RotationInv, NEW s \in TokenId, NEW t \in TokenId, s # t,
           Leaf(s), Leaf(t), tokens[s].family = tokens[t].family
    PROVE  "rotation" \in origin[s].missed \cup origin[t].missed
<1>1. s < t \/ t < s
  BY RowTypes
<1>2. RowsApart
  BY RotationParts
<1>3. QED
  BY <1>1, <1>2 DEF RowsApart, Leaf

LEMMA RotationStep == ASSUME IInv, [Next]_vars PROVE RotationInv'
<1> USE RowTypes DEF IInv
<1>0. RowsApart /\ RefreshApart /\ RefreshesApart
  BY RotationParts
<1>1. ASSUME Fading, \A t \in TokenId : Issued(t)' => Issued(t) PROVE RotationInv'
  <2>1. RowsApart'
    BY <1>0, <1>1 DEF RowsApart, Fading, RowsFade, Leaf
  <2>2. RefreshApart'
    BY <1>0, <1>1, FadingCarries DEF RefreshApart, Fading, RowsFade, Carries, Leaf
  <2>3. RefreshesApart'
    BY <1>0, <1>1, FadingCarries DEF RefreshesApart, Carries
  <2>4. QED
    BY <2>1, <2>2, <2>3, RotationParts
<1>2. ASSUME NEW r \in Reqs, QuietStep(r) PROVE RotationInv'
  <2>1. tokens' = tokens /\ origin' = origin
    BY <1>2 DEF QuietStep, RowsKept
  <2>2. \A q \in Reqs : Refreshing(q)' => FamilyOf(q)' = tokens[Held(q)'].family
    BY <2>1 DEF FamilyOf, Held
  <2>3. RowsApart'
    BY <1>0, <2>1 DEF RowsApart, Leaf, Issued
  <2>4. \A q \in Reqs : Refreshing(q)' =>
           \/ Refreshing(q) /\ Held(q)' = Held(q) /\ missed'[q] = missed[q]
           \/ Held(q)' \in TokenId /\ Leaf(Held(q)') /\ missed'[q] = origin[Held(q)'].missed
    BY <1>2, QuietRefresh, LiveIsLeaf
  <2>5. ASSUME NEW q \in Reqs, NEW t \in TokenId, Refreshing(q)', Held(q)' # t, Leaf(t)',
               tokens'[t].family = FamilyOf(q)'
        PROVE  "rotation" \in missed'[q] \cup origin'[t].missed
    <3>1. Leaf(t) /\ tokens[t].family = tokens[Held(q)'].family
      BY <2>1, <2>2, <2>5 DEF Leaf, Issued
    <3>2. CASE Refreshing(q) /\ Held(q)' = Held(q) /\ missed'[q] = missed[q]
      BY <1>0, <2>1, <2>5, <3>1, <3>2 DEF RefreshApart, FamilyOf, Held
    <3>3. CASE Held(q)' \in TokenId /\ Leaf(Held(q)') /\ missed'[q] = origin[Held(q)'].missed
      BY <2>1, <2>5, <3>1, <3>3, LeavesApart
    <3>4. QED
      BY <2>4, <2>5, <3>2, <3>3
  <2>6. ASSUME NEW p \in Reqs, NEW q \in Reqs, Refreshing(p)', Refreshing(q)',
               Held(p)' # Held(q)', FamilyOf(p)' = FamilyOf(q)'
        PROVE  "rotation" \in missed'[p] \cup missed'[q]
    <3>1. tokens[Held(p)'].family = tokens[Held(q)'].family
      BY <2>2, <2>6
    <3>2. QED
      BY <1>0, <2>4, <2>6, <3>1, LeavesApart DEF RefreshApart, RefreshesApart, FamilyOf, Held
  <2>7. QED
    BY <2>3, <2>5, <2>6, RotationParts DEF RefreshApart, RefreshesApart
<1>3. ASSUME NEW r \in Reqs, IssueFamily(r) PROVE RotationInv'
  <2>1. RowsApart'
    BY <1>0, <1>3, IssueEffect, FreshId DEF RowsApart, Leaf, Issued
  <2>2. ASSUME NEW q \in Reqs, NEW t \in TokenId, Refreshing(q)', Held(q)' # t, Leaf(t)',
               tokens'[t].family = FamilyOf(q)'
        PROVE  "rotation" \in missed'[q] \cup origin'[t].missed
    <3>1. Carries(q)
      BY <1>3, <2>2, IssueCarries
    <3>2. t # NextId
      BY <1>3, <2>2, <3>1, IssueEffect, FreshId DEF Carries
    <3>3. QED
      BY <1>0, <1>3, <2>2, <3>1, <3>2, IssueEffect DEF RefreshApart, Carries, Leaf, Issued
  <2>3. RefreshesApart'
    BY <1>0, <1>3, IssueCarries DEF RefreshesApart, Carries
  <2>4. QED
    BY <2>1, <2>2, <2>3, RotationParts DEF RefreshApart
<1>4. ASSUME NEW r \in Reqs, RefreshRotate(r) PROVE RotationInv'
  <2>1. Refreshing(r) /\ Held(r) \in TokenId /\ FamilyOf(r) = tokens[Held(r)].family
    BY <1>4, RotateEffect DEF FamilyOf, Held
  <2>2. \A t \in TokenId : t # NextId =>
           /\ origin'[t] = origin[t]
           /\ tokens'[t].family = tokens[t].family
           /\ Leaf(t)' => t # Held(r) /\ Leaf(t)
    <3>1. NextId # 0
      BY DEF NextId
    <3>2. QED
      BY <1>4, <3>1, RotateEffect DEF Leaf, Issued
  <2>3. \A t \in TokenId : t # NextId /\ Issued(t)' => Issued(t) /\ t <= lastId
    BY <1>4, <2>1, RotateEffect, RefreshersHold DEF Issued, IdsSound
  <2>4. ASSUME NEW s \in TokenId, NEW t \in TokenId, t < s, Issued(s)', Leaf(t)',
               tokens'[s].family = tokens'[t].family
        PROVE  "rotation" \in origin'[s].missed \cup origin'[t].missed
    <3>1. t # NextId
      BY <2>3, <2>4 DEF NextId
    <3>2. CASE s = NextId
      BY <1>0, <1>4, <2>1, <2>2, <2>4, <3>1, <3>2, RotateEffect DEF RefreshApart
    <3>3. CASE s # NextId
      BY <1>0, <2>2, <2>3, <2>4, <3>1, <3>3 DEF RowsApart
    <3>4. QED
      BY <3>2, <3>3
  <2>5. ASSUME NEW q \in Reqs, NEW t \in TokenId, Refreshing(q)', Held(q)' # t, Leaf(t)',
               tokens'[t].family = FamilyOf(q)'
        PROVE  "rotation" \in missed'[q] \cup origin'[t].missed
    <3>1. Carries(q) /\ q # r
      BY <1>4, <2>5, RotateCarries
    <3>2. CASE t # NextId
      BY <1>0, <2>2, <2>5, <3>1, <3>2 DEF RefreshApart, Carries
    <3>3. CASE t = NextId /\ Held(q) = Held(r)
      BY <1>4, <3>1, <3>3, RotateEffect DEF Carries
    <3>4. CASE t = NextId /\ Held(q) # Held(r)
      <4>1. FamilyOf(q) = FamilyOf(r)
        BY <1>4, <2>1, <2>5, <3>1, <3>4, RotateEffect DEF Carries
      <4>2. "rotation" \in missed[q] \cup missed[r]
        BY <1>0, <2>1, <3>1, <3>4, <4>1 DEF RefreshesApart, Carries
      <4>3. QED
        BY <1>4, <3>1, <3>4, <4>2, RotateEffect DEF Carries
    <3>5. QED
      BY <3>2, <3>3, <3>4
  <2>6. RefreshesApart'
    BY <1>0, <1>4, RotateCarries DEF RefreshesApart, Carries
  <2>7. QED
    BY <2>4, <2>5, <2>6, RotationParts DEF RefreshApart, RowsApart
<1>5. ASSUME NEW r \in Reqs, RefreshNuke(r) \/ RevokeAll(r) PROVE RotationInv'
  <2>1. PICK S : RowsRevoked(S)
    BY <1>5, NukeEffect, RevokeAllEffect
  <2>2. QED
    BY <1>1, <1>5, <2>1, FadingSteps DEF RowsRevoked, Issued, Unrevoked
<1>6. ASSUME NEW r \in Reqs, DeleteUser(r) PROVE RotationInv'
  BY <1>1, <1>6, FadingSteps, DeleteEffect DEF Issued
<1>7. ASSUME NEW t \in TokenId, Logout(t) PROVE RotationInv'
  BY <1>1, <1>7, FadingSteps, LogoutEffect DEF RowsRevoked, Issued, Unrevoked
<1>8. ASSUME NEW t \in TokenId, TokenExpires(t) PROVE RotationInv'
  BY <1>1, <1>8, FadingSteps, ExpiryEffect DEF Issued
<1>9. ASSUME IdleStep PROVE RotationInv'
  BY <1>1, <1>9, FadingSteps DEF IdleStep, RowsKept, Issued
<1>10. QED
  BY <1>2, <1>3, <1>4, <1>5, <1>6, <1>7, <1>8, <1>9, StepCases

\* A token someone logged out with and what is left of its family, as far as
\* the steps carry it over.
LogoutRows ==
    \A s \in loggedOut, t \in TokenId :
        Live(t) /\ tokens[t].family = tokens[s].family =>
            \/ "logout" \in origin[t].missed
            \/ "rotation" \in origin[s].missed \cup origin[t].missed
            \/ s \in outdated

LogoutRefreshes ==
    \A s \in loggedOut, q \in Reqs :
        Refreshing(q) /\ FamilyOf(q) = tokens[s].family =>
            \/ "logout" \in missed[q]
            \/ "rotation" \in origin[s].missed \cup missed[q]
            \/ s \in outdated

LEMMA LogoutParts ==
    /\ LogoutInv <=> LogoutRows /\ LogoutRefreshes
    /\ LogoutInv' <=> LogoutRows' /\ LogoutRefreshes'
BY DEF LogoutInv, LogoutRows, LogoutRefreshes

\* The token that lives on is a later one: an earlier one would have been
\* exchanged, unless the family was split.
LEMMA LogoutLater ==
    ASSUME TypeOK, IdsSound, LineageSound, RotationInv, LogoutRows
    PROVE  LogoutEndsSession
<1>1. ASSUME NEW s \in loggedOut, NEW t \in TokenId, Live(t), tokens[t].family = tokens[s].family
      PROVE  \/ s < t
             \/ "rotation" \in origin[s].missed \cup origin[t].missed
  <2>1. s \in TokenId /\ s \in Nat /\ t \in Nat /\ Issued(s) /\ ~Unrevoked(s)
    BY <1>1, RowTypes DEF IdsSound
  <2>2. s # t /\ Leaf(t)
    BY <1>1, <2>1, LiveIsLeaf DEF Live, Unrevoked
  <2>3. RowsApart
    BY RotationParts
  <2>4. CASE t < s
    BY <1>1, <2>1, <2>2, <2>3, <2>4 DEF RowsApart
  <2>5. QED
    BY <2>1, <2>2, <2>4
<1>2. QED
  BY <1>1 DEF LogoutRows, LogoutEndsSession

LEMMA LogoutStep == ASSUME IInv, [Next]_vars PROVE LogoutInv'
<1> USE RowTypes DEF IInv
<1>0. LogoutRows /\ LogoutRefreshes /\ RefreshApart
  BY LogoutParts, RotationParts
<1>1. ASSUME Fading, loggedOut' = loggedOut, outdated' = outdated PROVE LogoutInv'
  <2>1. LogoutRows'
    BY <1>0, <1>1 DEF LogoutRows, Fading, RowsFade
  <2>2. LogoutRefreshes'
    BY <1>0, <1>1, FadingCarries DEF LogoutRefreshes, Fading, RowsFade, Carries
  <2>3. QED
    BY <2>1, <2>2, LogoutParts
<1>2. ASSUME NEW r \in Reqs, QuietStep(r) PROVE LogoutInv'
  <2>1. tokens' = tokens /\ origin' = origin /\ loggedOut' = loggedOut /\ outdated' = outdated
    BY <1>2 DEF QuietStep, RowsKept
  <2>2. LogoutRows'
    BY <1>0, <2>1 DEF LogoutRows, Live
  <2>3. ASSUME NEW s \in loggedOut, NEW q \in Reqs, Refreshing(q)', FamilyOf(q)' = tokens[s].family
        PROVE  \/ "logout" \in missed'[q]
               \/ "rotation" \in origin[s].missed \cup missed'[q]
               \/ s \in outdated
    <3>1. tokens[Held(q)'].family = tokens[s].family
      BY <2>1, <2>3 DEF FamilyOf, Held
    <3>2. \/ Refreshing(q) /\ Held(q)' = Held(q) /\ missed'[q] = missed[q]
          \/ Held(q)' \in TokenId /\ Live(Held(q)') /\ missed'[q] = origin[Held(q)'].missed
      BY <1>2, <2>3, QuietRefresh
    <3>3. QED
      BY <1>0, <2>3, <3>1, <3>2 DEF LogoutRows, LogoutRefreshes, FamilyOf, Held
  <2>4. QED
    BY <2>1, <2>2, <2>3, LogoutParts DEF LogoutRefreshes
<1>3. ASSUME NEW r \in Reqs, IssueFamily(r) PROVE LogoutInv'
  <2>1. \A s \in loggedOut : s # NextId /\ Issued(s) /\ tokens'[s] = tokens[s] /\ origin'[s] = origin[s]
    BY <1>3, IssueEffect, FreshId DEF IdsSound
  <2>2. LogoutRows'
    BY <1>0, <1>3, <2>1, IssueEffect, FreshId DEF LogoutRows, Live
  <2>3. LogoutRefreshes'
    BY <1>0, <1>3, <2>1, IssueEffect, IssueCarries DEF LogoutRefreshes, Carries
  <2>4. QED
    BY <2>2, <2>3, LogoutParts
<1>4. ASSUME NEW r \in Reqs, RefreshRotate(r) PROVE LogoutInv'
  <2>1. Refreshing(r) /\ Held(r) \in TokenId /\ FamilyOf(r) = tokens[Held(r)].family
    BY <1>4, RotateEffect DEF FamilyOf, Held
  <2>2. \A s \in loggedOut : /\ s \in TokenId /\ s # NextId
                             /\ tokens'[s].family = tokens[s].family
                             /\ origin'[s] = origin[s]
    BY <1>4, RotateEffect, FreshId DEF IdsSound
  <2>3. ASSUME NEW s \in loggedOut, NEW t \in TokenId, Live(t)', tokens'[t].family = tokens[s].family
        PROVE  \/ "logout" \in origin'[t].missed
               \/ "rotation" \in origin[s].missed \cup origin'[t].missed
               \/ s \in outdated
    <3>1. CASE t = NextId
      BY <1>0, <1>4, <2>1, <2>3, <3>1, RotateEffect DEF LogoutRefreshes
    <3>2. CASE t # NextId
      <4>1. Live(t) /\ tokens'[t] = tokens[t] /\ origin'[t] = origin[t]
        BY <1>4, <2>3, <3>2, RotateEffect DEF Live
      <4>2. QED
        BY <1>0, <2>3, <4>1 DEF LogoutRows
    <3>3. QED
      BY <3>1, <3>2
  <2>4. LogoutRows'
    BY <1>4, <2>2, <2>3, RotateEffect DEF LogoutRows
  <2>5. LogoutRefreshes'
    BY <1>0, <1>4, <2>2, RotateEffect, RotateCarries DEF LogoutRefreshes, Carries
  <2>6. QED
    BY <2>4, <2>5, LogoutParts
<1>5. ASSUME NEW x \in TokenId, Logout(x) PROVE LogoutInv'
  <2>1. /\ Issued(x)
        /\ RowsRevoked({x})
        /\ loggedOut' = loggedOut \cup {x}
        /\ outdated \subseteq outdated'
        /\ x \notin loggedOut /\ ~Leaf(x) => x \in outdated'
        /\ origin' = origin
        /\ \A q \in Reqs : Refreshing(q) /\ Held(q) = x => "logout" \in missed'[q]
    BY <1>5, LogoutEffect DEF Held
  <2>2. \A t \in TokenId : tokens'[t].family = tokens[t].family /\ (Live(t)' => Live(t) /\ t # x)
    BY <2>1 DEF RowsRevoked, Live, Unrevoked
  <2>3. ASSUME NEW s \in loggedOut', NEW t \in TokenId, Live(t)', tokens[t].family = tokens[s].family
        PROVE  \/ "rotation" \in origin[s].missed \cup origin[t].missed
               \/ "logout" \in origin[t].missed
               \/ s \in outdated'
    <3>1. CASE s \in loggedOut
      BY <1>0, <2>1, <2>2, <2>3, <3>1 DEF LogoutRows
    <3>2. CASE s = x /\ x \notin loggedOut /\ Leaf(x)
      BY <2>2, <2>3, <3>2, LeavesApart, LiveIsLeaf
    <3>3. QED
      BY <2>1, <2>3, <3>1, <3>2
  <2>4. ASSUME NEW s \in loggedOut', NEW q \in Reqs, Refreshing(q)', FamilyOf(q)' = tokens'[s].family
        PROVE  \/ "logout" \in missed'[q]
               \/ "rotation" \in origin[s].missed \cup missed'[q]
               \/ s \in outdated'
    <3>1. Carries(q)
      BY <1>5, <2>4, FadingSteps, FadingCarries
    <3>2. CASE s \in loggedOut
      BY <1>0, <2>1, <2>2, <2>4, <3>1, <3>2 DEF LogoutRefreshes, Carries
    <3>3. CASE s = x /\ x \notin loggedOut /\ Leaf(x)
      BY <1>0, <2>1, <2>2, <2>4, <3>1, <3>3 DEF RefreshApart, Carries
    <3>4. QED
      BY <2>1, <2>4, <3>2, <3>3
  <2>5. loggedOut' \subseteq TokenId
    BY <2>1
  <2>6. QED
    BY <2>1, <2>2, <2>3, <2>4, <2>5, LogoutParts DEF LogoutRows, LogoutRefreshes
<1>6. ASSUME NEW r \in Reqs, RefreshNuke(r) \/ RevokeAll(r) \/ DeleteUser(r)
      PROVE  LogoutInv'
  BY <1>1, <1>6, FadingSteps, NukeEffect, RevokeAllEffect, DeleteEffect
<1>7. ASSUME NEW t \in TokenId, TokenExpires(t) PROVE LogoutInv'
  BY <1>1, <1>7, FadingSteps, ExpiryEffect
<1>8. ASSUME IdleStep PROVE LogoutInv'
  BY <1>1, <1>8, FadingSteps DEF IdleStep, RowsKept
<1>9. QED
  BY <1>2, <1>3, <1>4, <1>5, <1>6, <1>7, <1>8, StepCases

LEMMA LineageStep == ASSUME IInv, [Next]_vars PROVE LineageSound'
<1> USE RowTypes DEF IInv
<1>0. \A t \in TokenId : tokens[t].replacedBy # 0 => tokens[t].replacedBy \in TokenId
  BY DEF TypeOK, TokenRow
<1>1. \A t \in TokenId : origin[t].parent # 0 => origin[t].parent \in TokenId
  BY DEF TypeOK, Origin
<1>2. ASSUME Fading PROVE LineageSound'
  BY <1>0, <1>1, <1>2 DEF LineageSound, Fading, RowsFade
<1>3. ASSUME RowsKept PROVE LineageSound'
  BY <1>3 DEF LineageSound, RowsKept, Unrevoked
<1>4. ASSUME NEW r \in Reqs, IssueFamily(r) PROVE LineageSound'
  <2>1. \A t \in TokenId : tokens[t].replacedBy # NextId /\ origin[t].parent # NextId
    BY DEF IdsSound, NextId
  <2>2. QED
    BY <1>0, <1>1, <1>4, <2>1, IssueEffect DEF LineageSound, Unrevoked
<1>5. ASSUME NEW r \in Reqs, RefreshRotate(r) PROVE LineageSound'
  <2>1. \A t \in TokenId : tokens[t].replacedBy # NextId /\ origin[t].parent # NextId
    BY DEF IdsSound, NextId
  <2>2. NextId > Held(r) /\ NextId # 0 /\ NextId # Held(r)
    BY <1>5, RotateEffect DEF NextId
  <2>3. \A t \in TokenId :
           /\ t # NextId => tokens'[t].family = tokens[t].family /\ tokens'[t].user = tokens[t].user
           /\ t # NextId /\ Unrevoked(t)' => Unrevoked(t)
           /\ t # NextId => origin'[t] = origin[t]
           /\ t # NextId /\ t # Held(r) => tokens'[t] = tokens[t]
    BY <1>5, RotateEffect DEF Unrevoked
  <2>4. ASSUME NEW t \in TokenId, tokens'[t].replacedBy # 0
        PROVE  LET s == tokens'[t].replacedBy IN
               /\ ~Unrevoked(t)'
               /\ s > t
               /\ origin'[s].parent = t
               /\ tokens'[s].family = tokens'[t].family
               /\ tokens'[s].user = tokens'[t].user
    <3>1. CASE t = Held(r)
      BY <1>5, <2>2, <3>1, RotateEffect DEF Unrevoked
    <3>2. CASE t = NextId
      BY <1>5, <2>4, <3>2, RotateEffect
    <3>3. CASE t # Held(r) /\ t # NextId
      <4>1. tokens'[t] = tokens[t] /\ tokens[t].replacedBy \in TokenId \ {NextId}
        BY <1>0, <2>1, <2>3, <2>4, <3>3
      <4>2. QED
        BY <2>3, <2>4, <3>3, <4>1 DEF LineageSound, Unrevoked
    <3>4. QED
      BY <3>1, <3>2, <3>3
  <2>5. ASSUME NEW t \in TokenId, origin'[t].parent # 0
        PROVE  tokens'[origin'[t].parent].replacedBy # 0
    BY <1>1, <1>5, <2>1, <2>2, <2>3, <2>5, RotateEffect DEF LineageSound
  <2>6. QED
    BY <2>4, <2>5 DEF LineageSound
<1>6. QED
  BY <1>2, <1>3, <1>4, <1>5, FadingSteps, StepCases DEF QuietStep

\* PasswordInv in its parts.
EndedBounded == \A u \in Users : ended[u] <= users[u].password

SigningBounded ==
    \A q \in Reqs :
        SigningIn(q) /\ handler[q].password < ended[handler[q].user] => "password" \in missed[q]

RefreshBounded ==
    \A q \in Reqs :
        Refreshing(q) /\ origin[Held(q)].password < ended[handler[q].user] => "password" \in missed[q]

WritersBounded ==
    \A q \in Reqs : At(q, "revoke_all") => handler[q].password <= users[handler[q].user].password

PasswordParts ==
    PasswordRevocationHolds /\ EndedBounded /\ SigningBounded /\ RefreshBounded /\ WritersBounded

LEMMA PasswordSplit == (PasswordInv <=> PasswordParts) /\ (PasswordInv' <=> PasswordParts')
BY DEF PasswordInv, PasswordParts, EndedBounded, SigningBounded, RefreshBounded, WritersBounded, Held

LEMMA NumberTypes ==
    ASSUME TypeOK
    PROVE  /\ \A u \in Users : users[u].password \in Int /\ ended[u] \in Int
           /\ \A q \in Reqs : handler[q].password \in Int /\ handler[q].user \in Users
BY DEF TypeOK, UserRow, Password, HandlerType, Locals

LEMMA PasswordStep == ASSUME IInv, TypeOK', [Next]_vars PROVE PasswordInv'
<1> USE RowTypes, NumberTypes DEF IInv
<1>0. PasswordParts
  BY PasswordSplit
<1>1. ASSUME Fading, ended' = ended, \A u \in Users : users[u].password <= users'[u].password
      PROVE  PasswordInv'
  <2>1. PasswordRevocationHolds'
    BY <1>0, <1>1 DEF PasswordParts, PasswordRevocationHolds, Fading, RowsFade
  <2>2. EndedBounded'
    BY <1>0, <1>1, TypeOK' DEF PasswordParts, EndedBounded, TypeOK, UserRow, Password
  <2>3. SigningBounded'
    BY <1>0, <1>1 DEF PasswordParts, SigningBounded, Fading, LocalsFade, SigningIn, At
  <2>4. RefreshBounded'
    BY <1>0, <1>1, FadingCarries DEF PasswordParts, RefreshBounded, Carries
  <2>5. WritersBounded'
    <3>1. ASSUME NEW q \in Reqs, At(q, "revoke_all")'
          PROVE  At(q, "revoke_all") /\ handler'[q] = handler[q]
      BY <1>1, <3>1 DEF Fading, LocalsFade, At
    <3>2. \A u \in Users : users'[u].password \in Int
      BY DEF TypeOK, UserRow, Password
    <3>3. QED
      BY <1>0, <1>1, <3>1, <3>2 DEF PasswordParts, WritersBounded
  <2>6. QED
    BY <2>1, <2>2, <2>3, <2>4, <2>5, PasswordSplit DEF PasswordParts
<1>2. ASSUME NEW r \in Reqs, QuietStep(r) PROVE PasswordInv'
  <2>1. tokens' = tokens /\ origin' = origin /\ ended' = ended
    BY <1>2 DEF QuietStep, RowsKept
  <2>2. \A u \in Users : users[u].password <= users'[u].password /\ users'[u].password \in Int
    BY <1>2 DEF QuietStep, UsersForward, TypeOK, UserRow, Password
  <2>3. PasswordRevocationHolds'
    BY <1>0, <2>1 DEF PasswordParts, PasswordRevocationHolds, Live
  <2>4. EndedBounded'
    BY <1>0, <2>1, <2>2 DEF PasswordParts, EndedBounded
  <2>5. SigningBounded'
    <3>1. ASSUME NEW q \in Reqs, SigningIn(q)', handler'[q].password < ended[handler'[q].user]
          PROVE  "password" \in missed'[q]
      <4>1. CASE q = r
        <5>1. Signs(r)
          BY <1>2, <3>1, <4>1
          DEF QuietStep, Replays, Accepts, GoesOn, Wrote, HoldsNothing, SigningIn, At
        <5>2. QED
          BY <1>0, <3>1, <4>1, <5>1 DEF Signs, PasswordParts, EndedBounded
      <4>2. CASE q # r
        BY <1>0, <1>2, <3>1, <4>2
        DEF QuietStep, OthersKept, PasswordParts, SigningBounded, SigningIn, At
      <4>3. QED
        BY <4>1, <4>2
    <3>2. QED
      BY <2>1, <3>1 DEF SigningBounded
  <2>6. RefreshBounded'
    <3>1. ASSUME NEW q \in Reqs, Refreshing(q)', origin[Held(q)'].password < ended[handler'[q].user]
          PROVE  "password" \in missed'[q]
      BY <1>0, <1>2, <3>1, QuietRefresh
      DEF PasswordParts, RefreshBounded, PasswordRevocationHolds
    <3>2. QED
      BY <2>1, <3>1 DEF RefreshBounded
  <2>7. WritersBounded'
    <3>1. ASSUME NEW q \in Reqs, At(q, "revoke_all")'
          PROVE  handler'[q].password <= users'[handler'[q].user].password
      <4>1. CASE q = r
        BY <1>2, <3>1, <4>1
        DEF QuietStep, Signs, Replays, Accepts, GoesOn, Wrote, HoldsNothing, At
      <4>2. CASE q # r
        BY <1>0, <1>2, <2>2, <3>1, <4>2
        DEF QuietStep, OthersKept, PasswordParts, WritersBounded, At
      <4>3. QED
        BY <4>1, <4>2
    <3>2. QED
      BY <3>1 DEF WritersBounded
  <2>8. QED
    BY <2>3, <2>4, <2>5, <2>6, <2>7, PasswordSplit DEF PasswordParts
<1>3. ASSUME NEW r \in Reqs, NEW t \in TokenId,
             t = NextId,
             \A s \in TokenId : s # t =>
                 origin'[s] = origin[s] /\ (Live(s)' => Live(s) /\ tokens'[s].user = tokens[s].user),
             origin'[t].password < ended[tokens'[t].user] => "password" \in origin'[t].missed,
             \A q \in Reqs : \/ handler'[q].pc = "idle"
                             \/ handler'[q] = handler[q] /\ missed[q] \subseteq missed'[q],
             \A q \in Reqs : Refreshing(q)' => Carries(q),
             UNCHANGED <<users, ended>>
      PROVE  PasswordInv'
  <2>1. PasswordRevocationHolds'
    BY <1>0, <1>3 DEF PasswordParts, PasswordRevocationHolds
  <2>2. EndedBounded' /\ SigningBounded' /\ WritersBounded'
    BY <1>0, <1>3 DEF PasswordParts, EndedBounded, SigningBounded, WritersBounded, SigningIn, At
  <2>3. RefreshBounded'
    BY <1>0, <1>3 DEF PasswordParts, RefreshBounded, Carries
  <2>4. QED
    BY <2>1, <2>2, <2>3, PasswordSplit DEF PasswordParts
<1>4. ASSUME NEW r \in Reqs, IssueFamily(r) PROVE PasswordInv'
  <2>1. origin'[NextId].password < ended[tokens'[NextId].user] => "password" \in origin'[NextId].missed
    BY <1>0, <1>4, IssueEffect DEF PasswordParts, SigningBounded, SigningIn, At
  <2>2. \A s \in TokenId : s # NextId =>
            origin'[s] = origin[s] /\ (Live(s)' => Live(s) /\ tokens'[s].user = tokens[s].user)
    BY <1>4, IssueEffect DEF Live
  <2>3. \A q \in Reqs : \/ handler'[q].pc = "idle"
                        \/ handler'[q] = handler[q] /\ missed[q] \subseteq missed'[q]
    BY <1>4, IssueEffect
  <2>4. \A q \in Reqs : Refreshing(q)' => Carries(q)
    BY <1>4, IssueCarries
  <2>5. NextId \in TokenId /\ UNCHANGED <<users, ended>>
    BY <1>4, IssueEffect
  <2>6. QED
    BY <1>3, <2>1, <2>2, <2>3, <2>4, <2>5
<1>5. ASSUME NEW r \in Reqs, RefreshRotate(r) PROVE PasswordInv'
  <2>0. handler[r].user = tokens[Held(r)].user
    BY <1>5, RotateEffect, RefreshersHold
  <2>1. origin'[NextId].password < ended[tokens'[NextId].user] => "password" \in origin'[NextId].missed
    BY <1>0, <1>5, <2>0, RotateEffect DEF PasswordParts, RefreshBounded
  <2>2. \A s \in TokenId : s # NextId =>
            origin'[s] = origin[s] /\ (Live(s)' => Live(s) /\ tokens'[s].user = tokens[s].user)
    BY <1>5, RotateEffect DEF Live
  <2>3. \A q \in Reqs : \/ handler'[q].pc = "idle"
                        \/ handler'[q] = handler[q] /\ missed[q] \subseteq missed'[q]
    BY <1>5, RotateEffect DEF Ends
  <2>4. \A q \in Reqs : Refreshing(q)' => Carries(q)
    BY <1>5, RotateCarries
  <2>5. NextId \in TokenId /\ UNCHANGED <<users, ended>>
    BY <1>5, RotateEffect
  <2>6. QED
    BY <1>3, <2>1, <2>2, <2>3, <2>4, <2>5
<1>6. ASSUME NEW r \in Reqs, RevokeAll(r) PROVE PasswordInv'
  <2> DEFINE u == handler[r].user
             p == handler[r].password
  <2>1. /\ handler[r].pc = "revoke_all"
        /\ u \in Users /\ p \in Int
        /\ RowsRevoked(UserRows(u))
        /\ ended'[u] = IF p > ended[u] THEN p ELSE ended[u]
        /\ \A v \in Users \ {u} : ended'[v] = ended[v]
        /\ Ends(r)
        /\ users' = users /\ origin' = origin
    BY <1>6, RevokeAllEffect
  <2>2. \A q \in Reqs \ {r} :
           /\ SigningIn(q) /\ handler[q].user = u /\ handler[q].password < p => "password" \in missed'[q]
           /\ Refreshing(q) /\ handler[q].user = u /\ origin[Held(q)].password < p
                 => "password" \in missed'[q]
    BY <1>6, RevokeAllEffect DEF Held
  <2>3. p <= users[u].password
    BY <1>0, <2>1 DEF PasswordParts, WritersBounded, At
  <2> HIDE DEF u, p
  <2>4. PasswordRevocationHolds'
    <3>1. \A t \in TokenId : Live(t)' => Live(t) /\ tokens[t].user # u /\ tokens'[t].user = tokens[t].user
      BY <2>1 DEF RowsRevoked, UserRows, Live, Unrevoked
    <3>2. QED
      BY <1>0, <2>1, <3>1 DEF PasswordParts, PasswordRevocationHolds
  <2>5. EndedBounded'
    BY <1>0, <2>1, <2>3 DEF PasswordParts, EndedBounded
  <2>6. SigningBounded'
    BY <1>0, <2>1, <2>2 DEF PasswordParts, SigningBounded, SigningIn, At, Ends
  <2>7. RefreshBounded'
    <3>1. ASSUME NEW q \in Reqs, Refreshing(q)', origin[Held(q)].password < ended'[handler[q].user]
          PROVE  "password" \in missed'[q]
      <4>1. Carries(q) /\ q # r
        BY <1>6, <2>1, <3>1, FadingSteps, FadingCarries DEF Ends, Refreshing
      <4>2. CASE handler[q].user = u
        BY <1>0, <2>1, <2>2, <3>1, <4>1, <4>2 DEF PasswordParts, RefreshBounded, Carries
      <4>3. CASE handler[q].user # u
        BY <1>0, <2>1, <3>1, <4>1, <4>3 DEF PasswordParts, RefreshBounded, Carries
      <4>4. QED
        BY <4>2, <4>3
    <3>2. \A q \in Reqs : Refreshing(q)' => Held(q)' = Held(q) /\ handler'[q] = handler[q]
      BY <1>6, FadingSteps, FadingCarries DEF Carries
    <3>3. QED
      BY <2>1, <3>1, <3>2 DEF RefreshBounded
  <2>8. WritersBounded'
    BY <1>0, <2>1 DEF PasswordParts, WritersBounded, At, Ends
  <2>9. QED
    BY <2>4, <2>5, <2>6, <2>7, <2>8, PasswordSplit DEF PasswordParts
<1>7. ASSUME NEW r \in Reqs, RefreshNuke(r) PROVE PasswordInv'
  <2>1. users' = users /\ ended' = ended
    BY <1>7, NukeEffect
  <2>2. QED
    BY <1>1, <1>7, <2>1, FadingSteps
<1>8. ASSUME NEW r \in Reqs, DeleteUser(r) PROVE PasswordInv'
  <2>1. ended' = ended /\ \A v \in Users : users[v].password <= users'[v].password
    BY <1>8, DeleteEffect
  <2>2. QED
    BY <1>1, <1>8, <2>1, FadingSteps
<1>9. ASSUME NEW t \in TokenId, Logout(t) \/ TokenExpires(t) PROVE PasswordInv'
  <2>1. users' = users /\ ended' = ended
    BY <1>9, LogoutEffect, ExpiryEffect
  <2>2. QED
    BY <1>1, <1>9, <2>1, FadingSteps
<1>10. ASSUME IdleStep PROVE PasswordInv'
  BY <1>1, <1>10, FadingSteps DEF IdleStep, RowsKept, UsersForward
<1>11. QED
  BY <1>2, <1>4, <1>5, <1>6, <1>7, <1>8, <1>9, <1>10, StepCases

-----------------------------------------------------------------------------
\* The invariant is inductive

\* Before the first request there are no rows and nothing is held.
LEMMA InitIInv == Init => IInv
<1> SUFFICES ASSUME Init PROVE IInv
  OBVIOUS
<1>1. TypeOK
  BY TypeInit
<1>2. /\ lastId = 0 /\ nuked = {} /\ loggedOut = {}
      /\ \A t \in TokenId : /\ tokens[t].status = "none" /\ tokens[t].replacedBy = 0
                            /\ tokens[t].family = t /\ origin[t].parent = 0
      /\ \A r \in Reqs : handler[r].pc = "idle"
      /\ \A u \in Users : ended[u] = 0 /\ users[u].password = 1
  BY DEF Init, NoRow, NoOrigin, Idle
<1>3. IdsSound
  BY <1>2 DEF IdsSound, Issued, TokenId
<1>4. HeldRowsSound /\ RowsHaveOwners
  BY <1>2 DEF HeldRowsSound, RowsHaveOwners
<1>5. FamilyInv /\ LogoutInv
  BY <1>2 DEF FamilyInv, FamilyRevocationHolds, LogoutInv
<1>6. PasswordInv
  BY <1>2 DEF PasswordInv, PasswordRevocationHolds, Live, SigningIn, Refreshing, At
<1>7. RotationInv
  BY <1>2 DEF RotationInv, Issued, Refreshing
<1>8. LineageSound
  BY <1>2 DEF LineageSound
<1>9. QED
  BY <1>1, <1>3, <1>4, <1>5, <1>6, <1>7, <1>8 DEF IInv

\* The properties below hold because this conjunction is preserved by every
\* statement of every handler: each follows the history of a live row back
\* through the refreshes in flight.
THEOREM Inductive == Spec => []IInv
<1>1. IInv /\ [Next]_vars => IInv'
  <2> SUFFICES ASSUME IInv, [Next]_vars PROVE IInv'
    OBVIOUS
  <2>1. TypeOK'
    BY TypeStep DEF IInv
  <2>2. IdsSound' /\ HeldRowsSound' /\ RowsHaveOwners'
    BY IdsStep, HeldRowsStep, OwnersStep
  <2>3. FamilyInv' /\ RotationInv' /\ LogoutInv' /\ LineageSound'
    BY FamilyStep, RotationStep, LogoutStep, LineageStep
  <2>4. PasswordInv'
    BY <2>1, PasswordStep
  <2>5. QED
    BY <2>1, <2>2, <2>3, <2>4 DEF IInv
<1>2. QED
  BY InitIInv, <1>1, PTL DEF Spec

-----------------------------------------------------------------------------
\* What follows for the clients of the API

\* A session of a family revoked for reuse is alive only through a rotation
\* that overlapped the revocation.
THEOREM FamilyRevocation == Spec => []FamilyRevocationHolds
<1>1. IInv => FamilyRevocationHolds
  BY DEF IInv, FamilyInv
<1>2. QED
  BY Inductive, <1>1, PTL

\* A session older than a password whose revocation ran is alive only through
\* a login or a rotation that overlapped the revocation.
THEOREM PasswordRevocation == Spec => []PasswordRevocationHolds
<1>1. IInv => PasswordRevocationHolds
  BY DEF IInv, PasswordInv
<1>2. QED
  BY Inductive, <1>1, PTL

\* A family has two live tokens only after two overlapping refreshes of one.
THEOREM SingleSession == Spec => []OneSessionPerFamily
<1>1. IInv => OneSessionPerFamily
  BY LiveIsLeaf, LeavesApart DEF IInv, OneSessionPerFamily
<1>2. QED
  BY Inductive, <1>1, PTL

\* What survives a logout of its family was rotated across it, or the family
\* had been split, or is a later token than the exchanged one presented.
THEOREM LogoutHolds == Spec => []LogoutEndsSession
<1>1. IInv => LogoutEndsSession
  BY LogoutLater, LogoutParts DEF IInv
<1>2. QED
  BY Inductive, <1>1, PTL

\* replaced_by_id links every replaced row to the later row issued for it, and
\* every row issued by rotation has a revoked parent.
THEOREM Lineage == Spec => []LineageSound
<1>1. IInv => LineageSound
  BY DEF IInv
<1>2. QED
  BY Inductive, <1>1, PTL

\* No session row outlives its account.
THEOREM Owners == Spec => []RowsHaveOwners
<1>1. IInv => RowsHaveOwners
  BY DEF IInv
<1>2. QED
  BY Inductive, <1>1, PTL

-----------------------------------------------------------------------------
(* The handlers implement the life of a token promised by RefreshTokens:
   status and family, without handlers, are all a client can tell a token by. *)

StatusNow == [t \in TokenId |-> tokens[t].status]
FamilyNow == [t \in TokenId |-> tokens[t].family]

-----------------------------------------------------------------------------
\* A row disappears only with its account, which does not come back

ErasedWithOwner ==
    \A t \in TokenId : tokens[t].status = "gone" => users[tokens[t].user].state = "deleted"

DeletedStay == \A u \in Users : users[u].state = "deleted" => users'[u].state = "deleted"

LEMMA DeletedStayDeleted == ASSUME TypeOK, [Next]_vars PROVE DeletedStay
<1>1. ASSUME NEW r \in Reqs, NEW u \in Users, Register(r, u) PROVE DeletedStay
  BY <1>1 DEF Register, DeletedStay, TypeOK, UserRow
<1>2. ASSUME NEW r \in Reqs, WritePassword(r) PROVE DeletedStay
  <2>1. handler[r].user \in Users
    BY DEF TypeOK, HandlerType, Locals
  <2>2. \A u \in Users : users'[u].state = users[u].state
    BY <1>2, <2>1 DEF WritePassword, TypeOK, UserRow
  <2>3. QED
    BY <2>2 DEF DeletedStay
<1>3. ASSUME NEW r \in Reqs, DeleteUser(r) PROVE DeletedStay
  BY <1>3 DEF DeleteUser, DeletedStay, TypeOK, UserRow
<1>4. ASSUME NEW u \in Users, NEW active \in BOOLEAN, SetActive(u, active) PROVE DeletedStay
  BY <1>4 DEF SetActive, DeletedStay, TypeOK, UserRow, Exists
<1>5. ASSUME users' = users PROVE DeletedStay
  BY <1>5 DEF DeletedStay
<1>6. QED
  BY <1>1, <1>2, <1>3, <1>4, <1>5
  DEF Next, Steady, Arrive, Advance, vars, Login, ResetLookup, ChangeLookup, DeleteLookup,
      RefreshReplayed, RefreshAccepted, IssueFamily, RefreshNuke, RefreshUser, RefreshRotate,
      RevokeAll, Logout, TokenExpires, Abort

LEMMA ErasedWithOwnerStep ==
    ASSUME IInv, ErasedWithOwner, [Next]_vars
    PROVE  ErasedWithOwner'
<1> USE DEF IInv
<1>1. DeletedStay
  BY DeletedStayDeleted
<1>2. \A t \in TokenId : tokens[t].user \in Users
  BY RowTypes
<1>3. ASSUME \A t \in TokenId :
                tokens'[t].status = "gone" =>
                   tokens[t].status = "gone" /\ tokens'[t].user = tokens[t].user
      PROVE  ErasedWithOwner'
  BY <1>1, <1>2, <1>3 DEF ErasedWithOwner, DeletedStay
<1>4. ASSUME NEW r \in Reqs, IssueFamily(r) PROVE ErasedWithOwner'
  BY <1>3, <1>4, IssueEffect
<1>5. ASSUME NEW r \in Reqs, RefreshRotate(r) PROVE ErasedWithOwner'
  BY <1>3, <1>5, RotateEffect
<1>6. ASSUME NEW r \in Reqs, RefreshNuke(r) PROVE ErasedWithOwner'
  BY <1>3, <1>6, NukeEffect DEF RowsRevoked
<1>7. ASSUME NEW r \in Reqs, RevokeAll(r) PROVE ErasedWithOwner'
  BY <1>3, <1>7, RevokeAllEffect DEF RowsRevoked
<1>8. ASSUME NEW t \in TokenId, Logout(t) \/ TokenExpires(t) PROVE ErasedWithOwner'
  BY <1>3, <1>8, LogoutEffect, ExpiryEffect DEF RowsRevoked
<1>9. ASSUME NEW r \in Reqs, DeleteUser(r) PROVE ErasedWithOwner'
  <2>1. users'[handler[r].user].state = "deleted"
    <3>1. handler[r].user \in Users
      BY DEF TypeOK, HandlerType, Locals
    <3>2. users[handler[r].user] \in UserRow
      BY <3>1 DEF TypeOK
    <3>3. QED
      BY <1>9, <3>1, <3>2 DEF DeleteUser, TypeOK, UserRow
  <2>2. \A t \in TokenId :
           /\ tokens'[t].user = tokens[t].user
           /\ ~(tokens[t].user = handler[r].user /\ Issued(t)) => tokens'[t] = tokens[t]
    BY <1>9, DeleteEffect
  <2>3. QED
    BY <1>1, <1>2, <2>1, <2>2 DEF ErasedWithOwner, DeletedStay, Issued
<1>10. ASSUME RowsKept PROVE ErasedWithOwner'
  BY <1>3, <1>10 DEF RowsKept
<1>11. QED
  BY <1>4, <1>5, <1>6, <1>7, <1>8, <1>9, <1>10, StepCases DEF QuietStep, IdleStep

-----------------------------------------------------------------------------
\* Every step of a handler is a step of the abstract table

\* Revoking the rows of S that are not revoked yet is one abstract Revoke.
LEMMA RevocationMaps ==
    ASSUME TypeOK, NEW S, RowsRevoked(S)
    PROVE  Promise!Next
<1>0. PICK R \in SUBSET TokenId : R = {t \in TokenId : t \in S /\ Unrevoked(t)}
  OBVIOUS
<1>1. \A t \in R : StatusNow[t] \in {"live", "expired"}
  BY <1>0 DEF StatusNow, Unrevoked
<1>2. StatusNow' = [t \in TokenId |-> IF t \in R THEN "revoked" ELSE StatusNow[t]]
  BY <1>0 DEF RowsRevoked, StatusNow
<1>3. FamilyNow' = FamilyNow
  BY DEF RowsRevoked, FamilyNow
<1>4. Promise!Revoke(R)
  BY <1>1, <1>2, <1>3 DEF Promise!Revoke, StatusNow, FamilyNow
<1>5. QED
  BY <1>4 DEF Promise!Next

\* A row inserted by login or registration opens a family.
LEMMA IssueMaps ==
    ASSUME IInv, NEW r \in Reqs, IssueFamily(r)
    PROVE  Promise!Next
<1>0. PICK new \in TokenId : new = NextId
  BY IssueEffect DEF IInv
<1>1. ~Issued(new)
  BY <1>0, RowTypes DEF IInv, IdsSound, NextId
<1>2. StatusNow' = [StatusNow EXCEPT ![new] = "live"]
  BY <1>0, IssueEffect DEF IInv, StatusNow
<1>3. FamilyNow' = [FamilyNow EXCEPT ![new] = new]
  BY <1>0, IssueEffect DEF IInv, FamilyNow
<1>4. Promise!Open(new)
  BY <1>1, <1>2, <1>3 DEF Promise!Open, StatusNow, FamilyNow, Issued
<1>5. QED
  BY <1>4 DEF Promise!Next

\* A rotation exchanges the row it read, which is still in the table because
\* its account is, for the row it inserts.
LEMMA RotateMaps ==
    ASSUME IInv, ErasedWithOwner, NEW r \in Reqs, RefreshRotate(r)
    PROVE  Promise!Next
<1>0. PICK old \in TokenId, new \in TokenId : old = Held(r) /\ new = NextId
  BY RotateEffect DEF IInv
<1>1. new # old
  BY <1>0, RotateEffect, RowTypes DEF IInv, NextId
<1>2. ~Issued(new)
  BY <1>0, RowTypes DEF IInv, IdsSound, NextId
<1>3. StatusNow[old] \in {"live", "expired", "revoked"}
  <2>1. Issued(old) /\ Exists(tokens[old].user)
    BY <1>0, RotateEffect DEF IInv, IdsSound
  <2>2. tokens[old].status # "gone"
    BY <2>1 DEF ErasedWithOwner, Exists
  <2>3. tokens[old].status \in {"none", "live", "expired", "revoked", "gone"}
    BY DEF IInv, TypeOK, TokenRow
  <2>4. QED
    BY <2>1, <2>2, <2>3 DEF StatusNow, Issued
<1>4. StatusNow' = [StatusNow EXCEPT ![new] = "live", ![old] = "revoked"]
  BY <1>0, <1>1, RotateEffect DEF IInv, StatusNow
<1>5. FamilyNow' = [FamilyNow EXCEPT ![new] = FamilyNow[old]]
  BY <1>0, <1>1, RotateEffect DEF IInv, FamilyNow
<1>6. Promise!Exchange(old, new)
  BY <1>2, <1>3, <1>4, <1>5 DEF Promise!Exchange, StatusNow, FamilyNow, Issued
<1>7. QED
  BY <1>6 DEF Promise!Next

LEMMA ExpiryMaps ==
    ASSUME IInv, NEW t \in TokenId, TokenExpires(t)
    PROVE  Promise!Next
<1>1. StatusNow' = [StatusNow EXCEPT ![t] = "expired"]
  BY ExpiryEffect DEF IInv, StatusNow
<1>2. FamilyNow' = FamilyNow
  BY ExpiryEffect DEF IInv, FamilyNow
<1>3. Promise!Expire(t)
  BY <1>1, <1>2, ExpiryEffect DEF IInv, Promise!Expire, StatusNow, FamilyNow
<1>4. QED
  BY <1>3 DEF Promise!Next

\* The cascade erases the rows of the account together.
LEMMA DeleteMaps ==
    ASSUME IInv, NEW r \in Reqs, DeleteUser(r)
    PROVE  Promise!Next
<1>0. PICK S \in SUBSET TokenId :
         S = {t \in TokenId : tokens[t].user = handler[r].user /\ Issued(t)}
  OBVIOUS
<1>1. StatusNow' = [t \in TokenId |-> IF t \in S THEN "gone" ELSE StatusNow[t]]
  BY <1>0, DeleteEffect DEF IInv, StatusNow
<1>2. FamilyNow' = FamilyNow
  BY DeleteEffect DEF IInv, FamilyNow
<1>3. \A t \in S : StatusNow[t] # "none"
  BY <1>0 DEF StatusNow, Issued
<1>4. Promise!Erase(S)
  BY <1>1, <1>2, <1>3 DEF Promise!Erase, StatusNow, FamilyNow
<1>5. QED
  BY <1>4 DEF Promise!Next

\* No interleaving of the handlers shows a client a token that is issued twice,
\* changes family, or comes back: status and family move only as RefreshTokens
\* allows.
THEOREM ImplementsLifecycle == Spec => Lifecycle
<1>1. Init => Promise!Init /\ ErasedWithOwner
  BY DEF Init, NoRow, Promise!Init, ErasedWithOwner
<1>2. IInv /\ ErasedWithOwner /\ [Next]_vars => ErasedWithOwner'
  BY ErasedWithOwnerStep
<1>3. IInv /\ ErasedWithOwner /\ [Next]_vars => [Promise!Next]_(Promise!vars)
  <2> SUFFICES ASSUME IInv, ErasedWithOwner, [Next]_vars
               PROVE  [Promise!Next]_(Promise!vars)
    OBVIOUS
  <2>1. ASSUME RowsKept PROVE UNCHANGED Promise!vars
    BY <2>1 DEF RowsKept, Promise!vars
  <2>2. ASSUME NEW r \in Reqs, RefreshNuke(r) PROVE Promise!Next
    BY <2>2, NukeEffect, RevocationMaps DEF IInv
  <2>3. ASSUME NEW r \in Reqs, RevokeAll(r) PROVE Promise!Next
    BY <2>3, RevokeAllEffect, RevocationMaps DEF IInv
  <2>4. ASSUME NEW t \in TokenId, Logout(t) PROVE Promise!Next
    BY <2>4, LogoutEffect, RevocationMaps DEF IInv
  <2>5. QED
    BY <2>1, <2>2, <2>3, <2>4, IssueMaps, RotateMaps, ExpiryMaps, DeleteMaps, StepCases
    DEF IInv, QuietStep, IdleStep
<1>4. QED
  BY <1>1, <1>2, <1>3, Inductive, PTL DEF Lifecycle, Promise!Spec, Spec
==============================================================================

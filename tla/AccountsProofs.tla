---------------------------- MODULE AccountsProofs ----------------------------
(***************************************************************************)
(* Of the accounts, for any number of requests, accounts, keys and         *)
(* conversations: that the audit log tells the truth, that a referral is   *)
(* paid once to both, and that an export agrees with itself.               *)
(***************************************************************************)
EXTENDS Accounts, FiniteSetTheorems, TLAPS

Pc == {"idle", "referrer", "insert", "bonus", "keyRevoked", "deleteLog", "delete", "export"}
Address == Emails \cup {NoEmail}

\* Every request but r is where it was.
Others(r) == \A q \in Reqs \ {r} : handler'[q] = handler[q]

-----------------------------------------------------------------------------
\* Types

LEMMA Numbers ==
    /\ MaxAccounts \in Nat \ {0} /\ MaxKeys \in Nat \ {0} /\ MaxConvs \in Nat \ {0}
    /\ Id \subseteq Nat /\ 0 \notin Id /\ 0 \notin Conv /\ 1 \in Id
    /\ Id \subseteq 0..MaxAccounts /\ 0 \in 0..MaxAccounts /\ Unread \notin SUBSET Conv
    /\ 0..MaxAccounts \subseteq 0..(MaxAccounts + MaxKeys) /\ Key \subseteq 0..(MaxAccounts + MaxKeys)
    /\ Id \subseteq 1..(MaxAccounts + MaxKeys) /\ Key \subseteq 1..(MaxAccounts + MaxKeys)
    /\ NoEmail \in Address
  BY AccountsAssumption DEF Id, Conv, Key, Unread, Address

(* A request in flight. *)
LEMMA TaskFacts ==
    ASSUME TypeOK, NEW r \in Reqs
    PROVE  /\ handler[r] \in Locals /\ handler[r].pc \in Pc /\ handler[r].who \in 0..MaxAccounts
           /\ handler[r].ref \in 0..(MaxAccounts + MaxKeys) /\ handler[r].email \in Address
           /\ handler[r].convs \in Reading /\ handler[r].msgs \in Reading
  BY DEF TypeOK, Locals, Pc, Address

LEMMA UserFacts ==
    ASSUME TypeOK, NEW i \in Id
    PROVE  /\ users[i] \in User /\ users[i].state \in {"none", "here", "gone"} /\ users[i].email \in Address
           /\ users[i].referrer \in 0..MaxAccounts /\ users[i].bonus \in Nat
  BY DEF TypeOK, User, Address

LEMMA HoldFacts ==
    ASSUME TypeOK, NEW r \in Reqs, NEW pc \in Pc, NEW who \in 0..MaxAccounts,
           NEW ref \in 0..(MaxAccounts + MaxKeys), NEW email \in Address, Hold(r, pc, who, ref, email)
    PROVE  /\ handler' \in [Reqs -> Locals] /\ Others(r)
           /\ handler'[r].pc = pc /\ handler'[r].who = who /\ handler'[r].ref = ref
           /\ handler'[r].convs = Unread /\ handler'[r].msgs = Unread
<1> DEFINE l == [pc |-> pc, who |-> who, ref |-> ref, email |-> email, convs |-> Unread, msgs |-> Unread]
<1>1. handler' = [handler EXCEPT ![r] = l] /\ handler \in [Reqs -> Locals]
  BY DEF Hold, TypeOK
<1>2. l \in Locals
  <2>1. Unread \in Reading
    BY DEF Reading
  <2>2. QED
    BY <2>1 DEF Locals, Pc, Address
<1>3. l.pc = pc /\ l.who = who /\ l.ref = ref /\ l.convs = Unread /\ l.msgs = Unread
  OBVIOUS
<1> HIDE DEF l
<1>4. handler' \in [Reqs -> Locals] /\ handler'[r] = l /\ \A q \in Reqs \ {r} : handler'[q] = handler[q]
  BY <1>1, <1>2
<1>5. QED
  BY <1>3, <1>4 DEF Others

LEMMA FinishFacts ==
    ASSUME TypeOK, NEW r \in Reqs, Finish(r)
    PROVE  handler' \in [Reqs -> Locals] /\ Others(r) /\ handler'[r].pc = "idle"
<1>1. Idle \in Locals /\ Idle.pc = "idle"
  <2>1. Unread \in Reading
    BY DEF Reading
  <2>2. 0 \in 0..MaxAccounts /\ 0 \in 0..(MaxAccounts + MaxKeys) /\ NoEmail \in Emails \cup {NoEmail}
    BY Numbers
  <2>3. QED
    BY <2>1, <2>2 DEF Idle, Locals
<1>2. handler' = [handler EXCEPT ![r] = Idle] /\ handler \in [Reqs -> Locals]
  BY DEF Finish, TypeOK
<1>3. QED
  BY <1>1, <1>2 DEF Others

-----------------------------------------------------------------------------
\* The steps

LEMMA RegisterLookupFacts ==
    ASSUME TypeOK, NEW r \in Reqs, NEW e \in Emails, NEW code \in 0..MaxAccounts, RegisterLookup(r, e, code)
    PROVE  /\ At(r, "idle") /\ handler' \in [Reqs -> Locals] /\ Others(r)
           /\ handler'[r].pc \in {"referrer", "insert"}
           /\ UNCHANGED <<tables, touched, cut>>
<1> DEFINE pc == IF code = 0 THEN "insert" ELSE "referrer"
<1>1. At(r, "idle") /\ Hold(r, pc, 0, code, e) /\ UNCHANGED <<tables, touched, cut>>
  BY DEF RegisterLookup
<1>2. pc \in Pc /\ pc \in {"referrer", "insert"} /\ 0 \in 0..MaxAccounts /\ code \in 0..(MaxAccounts + MaxKeys)
      /\ e \in Address
  BY Numbers DEF Pc, Address
<1> HIDE DEF pc
<1>3. handler' \in [Reqs -> Locals] /\ Others(r) /\ handler'[r].pc = pc
  BY <1>1, <1>2, HoldFacts
<1>4. QED
  BY <1>1, <1>2, <1>3

LEMMA FindReferrerFacts ==
    ASSUME TypeOK, NEW r \in Reqs, FindReferrer(r)
    PROVE  /\ At(r, "referrer") /\ handler' \in [Reqs -> Locals] /\ Others(r)
           /\ handler'[r].pc = "insert"
           /\ UNCHANGED <<tables, touched, cut>>
<1> DEFINE code == handler[r].ref
           ref == IF Here(code) THEN code ELSE 0
<1>1. At(r, "referrer") /\ Hold(r, "insert", 0, ref, handler[r].email) /\ UNCHANGED <<tables, touched, cut>>
  BY DEF FindReferrer
<1>2. /\ "insert" \in Pc /\ 0 \in 0..MaxAccounts /\ ref \in 0..(MaxAccounts + MaxKeys)
      /\ handler[r].email \in Address
  BY Numbers, TaskFacts DEF Pc
<1> HIDE DEF ref
<1>3. handler' \in [Reqs -> Locals] /\ Others(r) /\ handler'[r].pc = "insert"
  BY <1>1, <1>2, HoldFacts
<1>4. QED
  BY <1>1, <1>3

LEMMA InsertUserFacts ==
    ASSUME TypeOK, NEW r \in Reqs, NEW i \in Id, InsertUser(r, i)
    PROVE  /\ At(r, "insert") /\ handler' \in [Reqs -> Locals] /\ Others(r)
           /\ handler[r].ref = 0 \/ Here(handler[r].ref)
           /\ handler[r].ref = 0 => handler'[r].pc = "idle"
           /\ handler[r].ref # 0 => /\ handler'[r].pc = "bonus" /\ handler'[r].who = i
                                    /\ handler'[r].ref = handler[r].ref
           /\ users[i].state = "none" /\ users' \in [Id -> User]
           /\ users'[i].state = "here" /\ users'[i].referrer = handler[r].ref /\ users'[i].bonus = 0
           /\ \A j \in Id \ {i} : users'[j] = users[j]
           /\ UNCHANGED <<keys, convs, log, touched, cut>>
<1> DEFINE ref == handler[r].ref
           row == [state |-> "here", email |-> handler[r].email, referrer |-> ref, bonus |-> 0]
<1>1. /\ At(r, "insert") /\ Insertable(r) /\ users[i].state = "none" /\ users' = [users EXCEPT ![i] = row]
      /\ ref = 0 => Finish(r)
      /\ ref # 0 => Hold(r, "bonus", i, ref, handler[r].email)
      /\ UNCHANGED <<keys, convs, log, touched, cut>>
  BY DEF InsertUser
<1>2. ref = 0 \/ Here(ref)
  BY <1>1 DEF Insertable
<1>3. /\ ref \in 0..MaxAccounts /\ ref \in 0..(MaxAccounts + MaxKeys) /\ handler[r].email \in Address
      /\ i \in 0..MaxAccounts /\ "bonus" \in Pc
  BY <1>2, Numbers, TaskFacts DEF Here, Pc
<1>4. row \in User /\ row.state = "here" /\ row.referrer = ref /\ row.bonus = 0
  BY <1>3 DEF User, Address
<1> HIDE DEF row, ref
<1>5. users' \in [Id -> User] /\ users'[i] = row /\ \A j \in Id \ {i} : users'[j] = users[j]
  BY <1>1, <1>4 DEF TypeOK
<1>6. CASE ref = 0
  <2>1. handler' \in [Reqs -> Locals] /\ Others(r) /\ handler'[r].pc = "idle"
    BY <1>1, <1>6, FinishFacts
  <2>2. QED
    BY <1>1, <1>2, <1>4, <1>5, <1>6, <2>1 DEF ref
<1>7. CASE ref # 0
  <2>1. /\ handler' \in [Reqs -> Locals] /\ Others(r)
        /\ handler'[r].pc = "bonus" /\ handler'[r].who = i /\ handler'[r].ref = ref
    BY <1>1, <1>3, <1>7, HoldFacts
  <2>2. QED
    BY <1>1, <1>2, <1>4, <1>5, <1>7, <2>1 DEF ref
<1>8. QED
  BY <1>6, <1>7

LEMMA PayBonusFacts ==
    ASSUME TypeOK, NEW r \in Reqs, PayBonus(r)
    PROVE  /\ At(r, "bonus") /\ handler' \in [Reqs -> Locals] /\ Others(r) /\ handler'[r].pc = "idle"
           /\ users' \in [Id -> User]
           /\ \A i \in Id : /\ users'[i].state = users[i].state /\ users'[i].referrer = users[i].referrer
                            /\ users'[i].bonus = IF i \in {handler[r].who, handler[r].ref} /\ Here(i)
                                                 THEN users[i].bonus + 1 ELSE users[i].bonus
           /\ UNCHANGED <<keys, convs, log, touched, cut>>
<1> DEFINE two == {handler[r].who, handler[r].ref}
<1>1. /\ At(r, "bonus") /\ Finish(r) /\ UNCHANGED <<keys, convs, log, touched, cut>>
      /\ users' = [i \in Id |-> IF i \in two /\ Here(i) THEN [users[i] EXCEPT !.bonus = @ + 1] ELSE users[i]]
  BY DEF PayBonus, BonusFor
<1> HIDE DEF two
<1>2. ASSUME NEW i \in Id
      PROVE  /\ users'[i] \in User
             /\ users'[i].state = users[i].state /\ users'[i].referrer = users[i].referrer
             /\ users'[i].bonus = IF i \in two /\ Here(i) THEN users[i].bonus + 1 ELSE users[i].bonus
  <2>1. users[i] \in User
    BY UserFacts
  <2>2. users'[i] = IF i \in two /\ Here(i) THEN [users[i] EXCEPT !.bonus = @ + 1] ELSE users[i]
    BY <1>1
  <2>3. QED
    BY <2>1, <2>2 DEF User
<1>3. users' \in [Id -> User]
  BY <1>1, <1>2
<1>4. QED
  BY <1>1, <1>2, <1>3, FinishFacts DEF two

LEMMA WritePlanFacts ==
    ASSUME TypeOK, NEW i \in Id, WritePlan(i)
    PROVE  /\ Here(i) /\ users' \in [Id -> User]
           /\ users'[i].state = users[i].state /\ users'[i].referrer = users[i].referrer
           /\ \A j \in Id \ {i} : users'[j] = users[j]
           /\ cut' = cut \cup {<<i, "plan">>}
           /\ UNCHANGED <<keys, convs, log, handler, touched>>
<1>1. /\ Here(i) /\ users' = [users EXCEPT ![i].bonus = 0] /\ cut' = cut \cup {<<i, "plan">>}
      /\ UNCHANGED <<keys, convs, log, handler, touched>>
  BY DEF WritePlan
<1>2. /\ users' \in [Id -> User] /\ users'[i].state = users[i].state /\ users'[i].referrer = users[i].referrer
      /\ \A j \in Id \ {i} : users'[j] = users[j]
  BY <1>1 DEF TypeOK, User
<1>3. QED
  BY <1>1, <1>2

LEMMA InsertKeyFacts ==
    ASSUME TypeOK, NEW i \in Id, NEW k \in Key, InsertKey(i, k)
    PROVE  /\ keys' \in [Key -> Owned] /\ keys[k].state = "none"
           /\ \A j \in Key \ {k} : keys'[j] = keys[j]
           /\ UNCHANGED <<users, convs, log, handler, touched, cut>>
<1>1. /\ keys[k].state = "none" /\ keys' = [keys EXCEPT ![k] = [state |-> "here", owner |-> i]]
      /\ UNCHANGED <<users, convs, log, handler, touched, cut>>
  BY DEF InsertKey
<1>2. [state |-> "here", owner |-> i] \in Owned
  BY DEF Owned
<1>3. QED
  BY <1>1, <1>2 DEF TypeOK

LEMMA RevokeKeyFacts ==
    ASSUME TypeOK, NEW r \in Reqs, NEW i \in Id, NEW k \in Key, RevokeKey(r, i, k)
    PROVE  /\ At(r, "idle") /\ handler' \in [Reqs -> Locals] /\ Others(r)
           /\ handler'[r].pc = "keyRevoked" /\ handler'[r].ref = k
           /\ keys' \in [Key -> Owned] /\ keys[k].state = "here" /\ keys'[k].state = "revoked"
           /\ \A j \in Key \ {k} : keys'[j] = keys[j]
           /\ UNCHANGED <<users, convs, log, touched, cut>>
<1>1. /\ At(r, "idle") /\ keys[k].state = "here"
      /\ keys' = [keys EXCEPT ![k].state = IF @ = "here" THEN "revoked" ELSE @]
      /\ Hold(r, "keyRevoked", i, k, NoEmail)
      /\ UNCHANGED <<users, convs, log, touched, cut>>
  BY DEF RevokeKey, Found
<1>2. /\ keys' \in [Key -> Owned] /\ keys'[k].state = "revoked" /\ \A j \in Key \ {k} : keys'[j] = keys[j]
  BY <1>1 DEF TypeOK, Owned
<1>3. i \in 0..MaxAccounts /\ k \in 0..(MaxAccounts + MaxKeys) /\ NoEmail \in Address /\ "keyRevoked" \in Pc
  BY Numbers DEF Pc
<1>4. QED
  BY <1>1, <1>2, <1>3, HoldFacts

(* auditLog adds its entry or fails. *)
LEMMA AuditFacts ==
    ASSUME NEW action, NEW of, Audit(action, of)
    PROVE  log \subseteq log' /\ log' \subseteq log \cup {[action |-> action, of |-> of]}
  BY DEF Audit

LEMMA LogRevocationFacts ==
    ASSUME TypeOK, NEW r \in Reqs, LogRevocation(r)
    PROVE  /\ At(r, "keyRevoked") /\ handler' \in [Reqs -> Locals] /\ Others(r) /\ handler'[r].pc = "idle"
           /\ log \subseteq log' /\ log' \subseteq log \cup {[action |-> "revoked", of |-> handler[r].ref]}
           /\ UNCHANGED <<users, keys, convs, touched, cut>>
<1>1. /\ At(r, "keyRevoked") /\ Audit("revoked", handler[r].ref) /\ Finish(r)
      /\ UNCHANGED <<users, keys, convs, touched, cut>>
  BY DEF LogRevocation
<1>2. QED
  BY <1>1, AuditFacts, FinishFacts

LEMMA AuthorizedFacts ==
    ASSUME TypeOK, NEW r \in Reqs, NEW pc \in {"deleteLog", "export"}, Authorized(r, pc)
    PROVE  /\ At(r, "idle") /\ handler' \in [Reqs -> Locals] /\ Others(r)
           /\ handler'[r].pc = pc /\ Here(handler'[r].who)
           /\ handler'[r].convs = Unread /\ handler'[r].msgs = Unread
           /\ pc = "export" => ~Exporting
           /\ UNCHANGED <<tables, touched, cut>>
<1>1. PICK i \in Id : Here(i) /\ Hold(r, pc, i, 0, NoEmail)
  BY DEF Authorized
<1>2. At(r, "idle") /\ (pc = "export" => ~Exporting) /\ UNCHANGED <<tables, touched, cut>>
  BY DEF Authorized
<1>3. i \in 0..MaxAccounts /\ 0 \in 0..(MaxAccounts + MaxKeys) /\ NoEmail \in Address /\ pc \in Pc
  BY Numbers DEF Pc
<1>4. QED
  BY <1>1, <1>2, <1>3, HoldFacts

LEMMA LogDeletionFacts ==
    ASSUME TypeOK, NEW r \in Reqs, LogDeletion(r)
    PROVE  /\ At(r, "deleteLog") /\ handler' \in [Reqs -> Locals] /\ Others(r)
           /\ handler'[r].pc = "delete" /\ handler'[r].who = handler[r].who
           /\ log \subseteq log' /\ log' \subseteq log \cup {[action |-> "deleted", of |-> handler[r].who]}
           /\ UNCHANGED <<users, keys, convs, touched, cut>>
<1>1. /\ At(r, "deleteLog") /\ Audit("deleted", handler[r].who)
      /\ handler' = [handler EXCEPT ![r].pc = "delete"]
      /\ UNCHANGED <<users, keys, convs, touched, cut>>
  BY DEF LogDeletion, Goto
<1>2. /\ handler' \in [Reqs -> Locals] /\ handler'[r].pc = "delete" /\ handler'[r].who = handler[r].who
      /\ \A q \in Reqs \ {r} : handler'[q] = handler[q]
  BY <1>1 DEF TypeOK, Locals
<1>3. QED
  BY <1>1, <1>2, AuditFacts DEF Others

\* What the DELETE takes with it.
Mine(i) == {c \in Conv : convs[c].state = "here" /\ convs[c].owner = i}

LEMMA DroppedFacts ==
    ASSUME TypeOK, NEW c \in Conv
    PROVE  Dropped(c) \in Spoken
<1>1. convs[c] \in Spoken
  BY DEF TypeOK
<1>2. QED
  BY <1>1 DEF Dropped, Spoken

LEMMA DeleteUserFacts ==
    ASSUME TypeOK, NEW r \in Reqs, DeleteUser(r), handler[r].who \in Id
    PROVE  /\ At(r, "delete") /\ handler' \in [Reqs -> Locals] /\ Others(r) /\ handler'[r].pc = "idle"
           /\ ~Needed(handler[r].who)
           /\ users' \in [Id -> User]
           /\ users'[handler[r].who].state = "gone"
           /\ users'[handler[r].who].referrer = users[handler[r].who].referrer
           /\ \A j \in Id \ {handler[r].who} : users'[j] = users[j]
           /\ keys' \in [Key -> Owned]
           /\ \A k \in Key : \/ keys'[k] = keys[k]
                             \/ keys[k].state # "none" /\ keys'[k].state = "gone"
           /\ convs' \in [Conv -> Spoken]
           /\ \A c \in Conv \ Mine(handler[r].who) : convs'[c] = convs[c]
           /\ Touch(Mine(handler[r].who))
           /\ UNCHANGED <<log, cut>>
<1> DEFINE i == handler[r].who
           row == [state |-> "gone", email |-> NoEmail, referrer |-> users[i].referrer, bonus |-> 0]
<1>1. /\ At(r, "delete") /\ ~Needed(i) /\ Finish(r) /\ Touch(Mine(i)) /\ UNCHANGED <<log, cut>>
      /\ users' = [users EXCEPT ![i] = row]
      /\ keys' = [k \in Key |-> IF keys[k].state # "none" /\ keys[k].owner = i
                                THEN [keys[k] EXCEPT !.state = "gone"] ELSE keys[k]]
      /\ convs' = [c \in Conv |-> IF c \in Mine(i) THEN Dropped(c) ELSE convs[c]]
  BY DEF DeleteUser, Mine
<1>2. row \in User /\ row.state = "gone" /\ row.referrer = users[i].referrer
  BY UserFacts, Numbers DEF User, Address
<1> HIDE DEF row, i
<1>3. i \in Id /\ users \in [Id -> User]
  BY DEF i, TypeOK
<1>4. users' \in [Id -> User] /\ users'[i] = row /\ \A j \in Id \ {i} : users'[j] = users[j]
  BY <1>1, <1>2, <1>3
<1>5. ASSUME NEW k \in Key
      PROVE  keys'[k] \in Owned /\ (keys'[k] # keys[k] => keys[k].state # "none" /\ keys'[k].state = "gone")
  <2>1. keys[k] \in Owned
    BY DEF TypeOK
  <2>2. keys'[k] = IF keys[k].state # "none" /\ keys[k].owner = i
                   THEN [keys[k] EXCEPT !.state = "gone"] ELSE keys[k]
    BY <1>1
  <2>3. /\ [keys[k] EXCEPT !.state = "gone"] \in Owned
        /\ [keys[k] EXCEPT !.state = "gone"].state = "gone"
    BY <2>1 DEF Owned
  <2>4. CASE keys[k].state # "none" /\ keys[k].owner = i
    <3>1. keys'[k] = [keys[k] EXCEPT !.state = "gone"]
      BY <2>2, <2>4
    <3>2. QED
      BY <2>3, <2>4, <3>1
  <2>5. CASE ~(keys[k].state # "none" /\ keys[k].owner = i)
    BY <2>1, <2>2, <2>5
  <2>6. QED
    BY <2>4, <2>5
<1>6. keys' \in [Key -> Owned]
  BY <1>1, <1>5
<1>7. ASSUME NEW c \in Conv PROVE convs'[c] \in Spoken /\ (c \notin Mine(i) => convs'[c] = convs[c])
  BY <1>1, DroppedFacts DEF TypeOK
<1>8. convs' \in [Conv -> Spoken]
  BY <1>1, <1>7
<1>9. handler' \in [Reqs -> Locals] /\ Others(r) /\ handler'[r].pc = "idle"
  BY <1>1, FinishFacts
<1>10. QED
  BY <1>1, <1>2, <1>4, <1>5, <1>6, <1>7, <1>8, <1>9 DEF i

LEMMA DeleteRefusedFacts ==
    ASSUME TypeOK, NEW r \in Reqs, DeleteRefused(r)
    PROVE  /\ At(r, "delete") /\ handler' \in [Reqs -> Locals] /\ Others(r) /\ handler'[r].pc = "idle"
           /\ Needed(handler[r].who)
           /\ UNCHANGED <<tables, touched, cut>>
<1>1. At(r, "delete") /\ Needed(handler[r].who) /\ Finish(r) /\ UNCHANGED <<tables, touched, cut>>
  BY DEF DeleteRefused
<1>2. QED
  BY <1>1, FinishFacts

LEMMA ReadConvsFacts ==
    ASSUME TypeOK, NEW r \in Reqs, ReadConvs(r)
    PROVE  /\ At(r, "export") /\ handler' \in [Reqs -> Locals] /\ Others(r)
           /\ handler'[r].pc = "export" /\ handler'[r].who = handler[r].who
           /\ handler'[r].convs = Mine(handler[r].who) /\ handler'[r].msgs = handler[r].msgs
           /\ UNCHANGED <<tables, touched, cut>>
<1> DEFINE C == Mine(handler[r].who)
<1>1. At(r, "export") /\ handler' = [handler EXCEPT ![r].convs = C] /\ UNCHANGED <<tables, touched, cut>>
  BY DEF ReadConvs, Mine
<1>2. C \in Reading
  BY DEF Mine, Reading
<1> HIDE DEF C
<1>3. /\ handler' \in [Reqs -> Locals] /\ handler'[r].pc = handler[r].pc /\ handler'[r].who = handler[r].who
      /\ handler'[r].convs = C /\ handler'[r].msgs = handler[r].msgs
      /\ \A q \in Reqs \ {r} : handler'[q] = handler[q]
  BY <1>1, <1>2 DEF TypeOK, Locals
<1>4. QED
  BY <1>1, <1>3 DEF At, Others, C

LEMMA ReadMessagesFacts ==
    ASSUME TypeOK, NEW r \in Reqs, ReadMessages(r)
    PROVE  /\ At(r, "export") /\ handler' \in [Reqs -> Locals] /\ Others(r)
           /\ handler'[r].pc = "export" /\ handler'[r].who = handler[r].who
           /\ handler'[r].convs = handler[r].convs /\ handler'[r].msgs = SpokenOf(handler[r].who)
           /\ UNCHANGED <<tables, touched, cut>>
<1> DEFINE C == SpokenOf(handler[r].who)
<1>1. At(r, "export") /\ handler' = [handler EXCEPT ![r].msgs = C] /\ UNCHANGED <<tables, touched, cut>>
  BY DEF ReadMessages
<1>2. C \in Reading
  BY DEF SpokenOf, Reading
<1> HIDE DEF C
<1>3. /\ handler' \in [Reqs -> Locals] /\ handler'[r].pc = handler[r].pc /\ handler'[r].who = handler[r].who
      /\ handler'[r].convs = handler[r].convs /\ handler'[r].msgs = C
      /\ \A q \in Reqs \ {r} : handler'[q] = handler[q]
  BY <1>1, <1>2 DEF TypeOK, Locals
<1>4. QED
  BY <1>1, <1>3 DEF At, Others, C

LEMMA ExportedFacts ==
    ASSUME TypeOK, NEW r \in Reqs, Exported(r)
    PROVE  /\ At(r, "export") /\ handler' \in [Reqs -> Locals] /\ Others(r) /\ handler'[r].pc = "idle"
           /\ touched' = {}
           /\ UNCHANGED <<tables, cut>>
<1>1. /\ BothRead(r) /\ Finish(r) /\ touched' = (IF At(r, "export") THEN {} ELSE touched)
      /\ UNCHANGED <<tables, cut>>
  BY DEF Exported
<1>2. At(r, "export")
  BY <1>1 DEF BothRead
<1>3. QED
  BY <1>1, <1>2, FinishFacts

LEMMA ConverseFacts ==
    ASSUME TypeOK, NEW c \in Conv, Converse(c)
    PROVE  /\ convs' \in [Conv -> Spoken]
           /\ \A d \in Conv \ {c} : convs'[d] = convs[d]
           /\ Touch({c})
           /\ UNCHANGED <<users, keys, log, handler, cut>>
<1>1. Touch({c}) /\ UNCHANGED <<users, keys, log, handler, cut>>
  BY DEF Converse
<1>2. CASE \E i \in Id : convs' = [convs EXCEPT ![c] = [state |-> "here", owner |-> i, said |-> FALSE]]
  <2>1. PICK i \in Id : convs' = [convs EXCEPT ![c] = [state |-> "here", owner |-> i, said |-> FALSE]]
    BY <1>2
  <2>2. [state |-> "here", owner |-> i, said |-> FALSE] \in Spoken
    BY DEF Spoken
  <2>3. QED
    BY <1>1, <2>1, <2>2 DEF TypeOK
<1>3. CASE convs' = [convs EXCEPT ![c].said = TRUE]
  <2>1. convs' \in [Conv -> Spoken] /\ \A d \in Conv \ {c} : convs'[d] = convs[d]
    BY <1>3 DEF TypeOK, Spoken
  <2>2. QED
    BY <1>1, <2>1
<1>4. CASE convs' = [convs EXCEPT ![c] = Dropped(c)]
  <2>1. convs' \in [Conv -> Spoken] /\ \A d \in Conv \ {c} : convs'[d] = convs[d]
    BY <1>4, DroppedFacts DEF TypeOK
  <2>2. QED
    BY <1>1, <2>1
<1>5. QED
  BY <1>2, <1>3, <1>4 DEF Converse

LEMMA AbortFacts ==
    ASSUME TypeOK, NEW r \in Reqs, Abort(r)
    PROVE  /\ ~At(r, "idle") /\ handler' \in [Reqs -> Locals] /\ Others(r) /\ handler'[r].pc = "idle"
           /\ cut \subseteq cut' /\ cut' \subseteq cut \cup {<<handler[r].who, handler[r].pc>>}
           /\ At(r, "bonus") => <<handler[r].who, "bonus">> \in cut'
           /\ At(r, "delete") => <<handler[r].who, "delete">> \in cut'
           /\ cut' = cut \/ At(r, "bonus") \/ At(r, "delete")
           /\ At(r, "export") => touched' = {}
           /\ ~At(r, "export") => touched' = touched
           /\ UNCHANGED tables
<1>1. /\ ~At(r, "idle") /\ Finish(r) /\ touched' = (IF At(r, "export") THEN {} ELSE touched) /\ UNCHANGED tables
      /\ cut' = IF handler[r].pc \in {"bonus", "delete"}
                THEN cut \cup {<<handler[r].who, handler[r].pc>>} ELSE cut
  BY DEF Abort
<1>2. QED
  BY <1>1, FinishFacts DEF At

LEMMA InitTypes ==
    ASSUME Init
    PROVE  TypeOK
<1>1. Idle \in Locals
  <2>1. Unread \in Reading
    BY DEF Reading
  <2>2. 0 \in 0..MaxAccounts /\ 0 \in 0..(MaxAccounts + MaxKeys) /\ NoEmail \in Emails \cup {NoEmail}
    BY Numbers
  <2>3. QED
    BY <2>1, <2>2 DEF Idle, Locals
<1>2. /\ [state |-> "none", email |-> NoEmail, referrer |-> 0, bonus |-> 0] \in User
      /\ [state |-> "none", owner |-> 1] \in Owned
      /\ [state |-> "none", owner |-> 1, said |-> FALSE] \in Spoken
  BY Numbers DEF User, Owned, Spoken, Address
<1>3. QED
  BY <1>1, <1>2 DEF Init, TypeOK

LEMMA StepTypes ==
    ASSUME TypeOK,
           \A r \in Reqs : At(r, "bonus") \/ At(r, "delete") \/ At(r, "deleteLog") => handler[r].who \in Id,
           \A r \in Reqs : At(r, "keyRevoked") => handler[r].ref \in Key,
           [Next]_vars
    PROVE  TypeOK'
<1> USE DEF TypeOK
<1>1. ASSUME NEW r \in Reqs, NEW e \in Emails, NEW code \in 0..MaxAccounts, RegisterLookup(r, e, code)
      PROVE  TypeOK'
  BY <1>1, RegisterLookupFacts DEF tables
<1>2. ASSUME NEW r \in Reqs, FindReferrer(r) PROVE TypeOK'
  BY <1>2, FindReferrerFacts DEF tables
<1>3. ASSUME NEW r \in Reqs, NEW i \in Id, InsertUser(r, i) PROVE TypeOK'
  BY <1>3, InsertUserFacts
<1>4. ASSUME NEW r \in Reqs, PayBonus(r) PROVE TypeOK'
  BY <1>4, PayBonusFacts
<1>5. ASSUME NEW i \in Id, WritePlan(i) PROVE TypeOK'
  BY <1>5, WritePlanFacts
<1>6. ASSUME NEW i \in Id, NEW k \in Key, InsertKey(i, k) PROVE TypeOK'
  BY <1>6, InsertKeyFacts
<1>7. ASSUME NEW r \in Reqs, NEW i \in Id, NEW k \in Key, RevokeKey(r, i, k) PROVE TypeOK'
  BY <1>7, RevokeKeyFacts
<1>8. ASSUME NEW r \in Reqs, LogRevocation(r) PROVE TypeOK'
  <2>1. [action |-> "revoked", of |-> handler[r].ref] \in Entry
    BY <1>8, LogRevocationFacts, Numbers DEF Entry
  <2>2. log' \in SUBSET Entry
    BY <1>8, <2>1, LogRevocationFacts
  <2>3. QED
    BY <1>8, <2>2, LogRevocationFacts
<1>9. ASSUME NEW r \in Reqs, NEW pc \in {"deleteLog", "export"}, Authorized(r, pc) PROVE TypeOK'
  BY <1>9, AuthorizedFacts DEF tables
<1>10. ASSUME NEW r \in Reqs, LogDeletion(r) PROVE TypeOK'
  <2>1. [action |-> "deleted", of |-> handler[r].who] \in Entry
    BY <1>10, LogDeletionFacts, Numbers DEF Entry
  <2>2. log' \in SUBSET Entry
    BY <1>10, <2>1, LogDeletionFacts
  <2>3. QED
    BY <1>10, <2>2, LogDeletionFacts
<1>11. ASSUME NEW r \in Reqs, DeleteUser(r) PROVE TypeOK'
  <2>1. handler[r].who \in Id
    BY <1>11 DEF DeleteUser
  <2>2. /\ handler' \in [Reqs -> Locals] /\ users' \in [Id -> User] /\ keys' \in [Key -> Owned]
        /\ convs' \in [Conv -> Spoken] /\ UNCHANGED <<log, cut>> /\ Touch(Mine(handler[r].who))
    BY <1>11, <2>1, DeleteUserFacts
  <2>3. touched' \in SUBSET Conv
    BY <2>2 DEF Touch, Mine
  <2>4. QED
    BY <2>2, <2>3
<1>12. ASSUME NEW r \in Reqs, DeleteRefused(r) PROVE TypeOK'
  BY <1>12, DeleteRefusedFacts DEF tables
<1>13. ASSUME NEW r \in Reqs, ReadConvs(r) PROVE TypeOK'
  BY <1>13, ReadConvsFacts DEF tables
<1>14. ASSUME NEW r \in Reqs, ReadMessages(r) PROVE TypeOK'
  BY <1>14, ReadMessagesFacts DEF tables
<1>15. ASSUME NEW r \in Reqs, Exported(r) PROVE TypeOK'
  BY <1>15, ExportedFacts DEF tables
<1>16. ASSUME NEW c \in Conv, Converse(c) PROVE TypeOK'
  <2>1. touched' \in SUBSET Conv
    BY <1>16, ConverseFacts DEF Touch
  <2>2. QED
    BY <1>16, <2>1, ConverseFacts
<1>17. ASSUME NEW r \in Reqs, Abort(r) PROVE TypeOK'
  <2>1. cut' \in SUBSET (Id \X {"bonus", "delete", "plan"})
    <3>1. CASE cut' = cut
      BY <3>1
    <3>2. CASE At(r, "bonus") \/ At(r, "delete")
      <4>1. handler[r].who \in Id /\ handler[r].pc \in {"bonus", "delete", "plan"}
        BY <3>2 DEF At
      <4>2. cut' \subseteq cut \cup {<<handler[r].who, handler[r].pc>>}
        BY <1>17, AbortFacts
      <4>3. QED
        BY <4>1, <4>2
    <3>3. QED
      BY <1>17, <3>1, <3>2, AbortFacts
  <2>2. touched' \in SUBSET Conv
    BY <1>17, AbortFacts
  <2>3. QED
    BY <1>17, <2>1, <2>2, AbortFacts DEF tables
<1>18. CASE UNCHANGED vars
  BY <1>18 DEF vars
<1>19. QED
  BY <1>1, <1>2, <1>3, <1>4, <1>5, <1>6, <1>7, <1>8, <1>9, <1>10, <1>11, <1>12, <1>13, <1>14, <1>15,
     <1>16, <1>17, <1>18 DEF Next

-----------------------------------------------------------------------------
\* What is in the tables and in hand

\* A row not inserted yet is blank; a referrer was inserted before.
Row(i) ==
    /\ users[i].state = "none" => users[i].referrer = 0 /\ <<i, "bonus">> \notin cut
    /\ users[i].referrer # 0 => users[i].referrer \in Id /\ users[users[i].referrer].state # "none"

\* What a request is about exists, or has.
Task(r) ==
    /\ handler[r].pc \in {"bonus", "deleteLog", "delete", "export"} =>
          handler[r].who \in Id /\ users[handler[r].who].state # "none"
    /\ At(r, "bonus") => /\ handler[r].ref \in Id
                         /\ users[handler[r].who].referrer = handler[r].ref
                         /\ <<handler[r].who, "bonus">> \notin cut
    /\ At(r, "keyRevoked") => handler[r].ref \in Key /\ keys[handler[r].ref].state \in {"revoked", "gone"}

\* No two requests pay the bonus of one account.
OnePays ==
    \A r, q \in Reqs : At(r, "bonus") /\ At(q, "bonus") /\ r # q => handler[r].who # handler[q].who

BaseInv ==
    /\ TypeOK
    /\ \A i \in Id : Row(i)
    /\ \A r \in Reqs : Task(r)
    /\ OnePays

\* Rows are never taken back, keys stay revoked, and what was cut stays cut.
Grown ==
    /\ \A i \in Id : users[i].state # "none" => /\ users'[i].state # "none"
                                                /\ users'[i].referrer = users[i].referrer
    /\ \A i \in Id : users[i].state = "gone" => users'[i].state = "gone"
    /\ \A k \in Key : keys[k].state \in {"revoked", "gone"} => keys'[k].state \in {"revoked", "gone"}
    /\ cut \subseteq cut' /\ log \subseteq log'

LEMMA InitBase ==
    ASSUME Init
    PROVE  BaseInv
<1>1. TypeOK
  BY InitTypes
<1>2. \A r \in Reqs : handler[r].pc = "idle"
  BY DEF Init, Idle
<1>3. \A i \in Id : users[i].referrer = 0 /\ cut = {}
  BY DEF Init
<1>4. QED
  BY <1>1, <1>2, <1>3 DEF BaseInv, Row, Task, OnePays, At

LEMMA BaseTypes ==
    ASSUME BaseInv, [Next]_vars
    PROVE  TypeOK /\ TypeOK'
<1>1. \A r \in Reqs : Task(r)
  BY DEF BaseInv
<1>2. ASSUME NEW r \in Reqs
      PROVE  /\ At(r, "bonus") \/ At(r, "delete") \/ At(r, "deleteLog") => handler[r].who \in Id
             /\ At(r, "keyRevoked") => handler[r].ref \in Key
  BY <1>1 DEF Task, At
<1>3. TypeOK
  BY DEF BaseInv
<1>4. QED
  BY <1>2, <1>3, StepTypes

LEMMA StepGrown ==
    ASSUME BaseInv, [Next]_vars
    PROVE  Grown
<1>1. TypeOK /\ \A r \in Reqs : Task(r)
  BY DEF BaseInv
<1> USE <1>1
<1>2. ASSUME UNCHANGED <<users, keys>>, cut \subseteq cut', log \subseteq log' PROVE Grown
  BY <1>2 DEF Grown
<1>3. ASSUME NEW i \in Id,
             users[i].state # "none" => users'[i].state # "none" /\ users'[i].referrer = users[i].referrer,
             users[i].state = "gone" => users'[i].state = "gone",
             \A j \in Id \ {i} : users'[j] = users[j], keys' = keys, cut \subseteq cut', log \subseteq log'
      PROVE  Grown
  BY <1>3 DEF Grown
<1>4. ASSUME NEW r \in Reqs, NEW e \in Emails, NEW code \in 0..MaxAccounts, RegisterLookup(r, e, code)
      PROVE  Grown
  BY <1>2, <1>4, RegisterLookupFacts DEF tables
<1>5. ASSUME NEW r \in Reqs, FindReferrer(r) PROVE Grown
  BY <1>2, <1>5, FindReferrerFacts DEF tables
<1>6. ASSUME NEW r \in Reqs, NEW i \in Id, InsertUser(r, i) PROVE Grown
  BY <1>3, <1>6, InsertUserFacts
<1>7. ASSUME NEW r \in Reqs, PayBonus(r) PROVE Grown
  <2>1. /\ \A i \in Id : users'[i].state = users[i].state /\ users'[i].referrer = users[i].referrer
        /\ UNCHANGED <<keys, log, cut>>
    BY <1>7, PayBonusFacts
  <2>2. QED
    BY <2>1 DEF Grown
<1>8. ASSUME NEW i \in Id, WritePlan(i) PROVE Grown
  BY <1>3, <1>8, WritePlanFacts
<1>9. ASSUME NEW i \in Id, NEW k \in Key, InsertKey(i, k) PROVE Grown
  BY <1>9, InsertKeyFacts DEF Grown
<1>10. ASSUME NEW r \in Reqs, NEW i \in Id, NEW k \in Key, RevokeKey(r, i, k) PROVE Grown
  BY <1>10, RevokeKeyFacts DEF Grown
<1>11. ASSUME NEW r \in Reqs, LogRevocation(r) PROVE Grown
  BY <1>2, <1>11, LogRevocationFacts
<1>12. ASSUME NEW r \in Reqs, NEW pc \in {"deleteLog", "export"}, Authorized(r, pc) PROVE Grown
  BY <1>2, <1>12, AuthorizedFacts DEF tables
<1>13. ASSUME NEW r \in Reqs, LogDeletion(r) PROVE Grown
  BY <1>2, <1>13, LogDeletionFacts
<1>14. ASSUME NEW r \in Reqs, DeleteUser(r) PROVE Grown
  <2>1. handler[r].who \in Id /\ users[handler[r].who].state # "none"
    BY <1>14 DEF DeleteUser, Task, At
  <2>2. /\ users'[handler[r].who].state = "gone"
        /\ users'[handler[r].who].referrer = users[handler[r].who].referrer
        /\ \A j \in Id \ {handler[r].who} : users'[j] = users[j]
        /\ \A k \in Key : \/ keys'[k] = keys[k]
                          \/ keys[k].state # "none" /\ keys'[k].state = "gone"
        /\ UNCHANGED <<log, cut>>
    BY <1>14, <2>1, DeleteUserFacts
  <2>3. QED
    BY <2>1, <2>2 DEF Grown
<1>15. ASSUME NEW r \in Reqs, DeleteRefused(r) PROVE Grown
  BY <1>2, <1>15, DeleteRefusedFacts DEF tables
<1>16. ASSUME NEW r \in Reqs, ReadConvs(r) PROVE Grown
  BY <1>2, <1>16, ReadConvsFacts DEF tables
<1>17. ASSUME NEW r \in Reqs, ReadMessages(r) PROVE Grown
  BY <1>2, <1>17, ReadMessagesFacts DEF tables
<1>18. ASSUME NEW r \in Reqs, Exported(r) PROVE Grown
  BY <1>2, <1>18, ExportedFacts DEF tables
<1>19. ASSUME NEW c \in Conv, Converse(c) PROVE Grown
  BY <1>2, <1>19, ConverseFacts
<1>20. ASSUME NEW r \in Reqs, Abort(r) PROVE Grown
  BY <1>2, <1>20, AbortFacts DEF tables
<1>21. CASE UNCHANGED vars
  BY <1>2, <1>21 DEF vars
<1>22. QED
  BY <1>4, <1>5, <1>6, <1>7, <1>8, <1>9, <1>10, <1>11, <1>12, <1>13, <1>14, <1>15, <1>16, <1>17, <1>18,
     <1>19, <1>20, <1>21 DEF Next

(* A step that leaves the referrers alone and cuts off no bonus but that of r. *)
LEMMA BaseKept ==
    ASSUME BaseInv, TypeOK', Grown, NEW r \in Reqs, Others(r), handler'[r].pc # "bonus", Task(r)',
           \A i \in Id : users'[i].referrer = users[i].referrer,
           \A j \in Id : <<j, "bonus">> \in cut' =>
                            <<j, "bonus">> \in cut \/ (At(r, "bonus") /\ handler[r].who = j)
    PROVE  BaseInv'
<1>1. TypeOK /\ (\A i \in Id : Row(i)) /\ (\A q \in Reqs : Task(q)) /\ OnePays
  BY DEF BaseInv
<1>2. ASSUME NEW i \in Id PROVE Row(i)'
  <2>1. users'[i].state = "none" => users[i].state = "none" /\ <<i, "bonus">> \notin cut'
    <3>1. SUFFICES ASSUME users'[i].state = "none"
                   PROVE  users[i].state = "none" /\ <<i, "bonus">> \notin cut'
      OBVIOUS
    <3>2. users[i].state = "none"
      BY <3>1 DEF Grown
    <3>3. <<i, "bonus">> \notin cut
      BY <1>1, <3>2 DEF Row
    <3>4. ~(At(r, "bonus") /\ handler[r].who = i)
      BY <1>1, <3>2 DEF Task, At
    <3>5. QED
      BY <3>2, <3>3, <3>4
  <2>2. users[i].referrer # 0 => users[i].referrer \in Id /\ users'[users[i].referrer].state # "none"
    BY <1>1 DEF Row, Grown
  <2>3. QED
    BY <1>1, <2>1, <2>2 DEF Row
<1>3. ASSUME NEW q \in Reqs \ {r} PROVE Task(q)'
  <2>1. Task(q) /\ handler'[q] = handler[q]
    BY <1>1 DEF Others
  <2>2. /\ handler[q].pc \in {"bonus", "deleteLog", "delete", "export"} =>
              handler[q].who \in Id /\ users'[handler[q].who].state # "none"
        /\ At(q, "keyRevoked") => handler[q].ref \in Key /\ keys'[handler[q].ref].state \in {"revoked", "gone"}
    BY <2>1 DEF Task, Grown
  <2>3. At(q, "bonus") => /\ handler[q].ref \in Id
                          /\ users'[handler[q].who].referrer = handler[q].ref
                          /\ <<handler[q].who, "bonus">> \notin cut'
    <3>1. SUFFICES ASSUME At(q, "bonus")
                   PROVE  /\ handler[q].ref \in Id
                          /\ users'[handler[q].who].referrer = handler[q].ref
                          /\ <<handler[q].who, "bonus">> \notin cut'
      OBVIOUS
    <3>2. /\ handler[q].who \in Id /\ handler[q].ref \in Id /\ users[handler[q].who].referrer = handler[q].ref
          /\ <<handler[q].who, "bonus">> \notin cut
      BY <2>1, <3>1 DEF Task, At
    <3>3. ~(At(r, "bonus") /\ handler[r].who = handler[q].who)
      BY <1>1, <3>1 DEF OnePays
    <3>4. QED
      BY <3>2, <3>3
  <2>4. QED
    BY <2>1, <2>2, <2>3 DEF Task, At
<1>4. OnePays'
  BY <1>1 DEF OnePays, Others, At
<1>5. QED
  BY <1>2, <1>3, <1>4 DEF BaseInv

(* A step of nobody in flight. *)
LEMMA BaseStill ==
    ASSUME BaseInv, TypeOK', Grown, handler' = handler,
           \A i \in Id : users'[i].referrer = users[i].referrer,
           \A j \in Id : <<j, "bonus">> \in cut' => <<j, "bonus">> \in cut
    PROVE  BaseInv'
<1>1. TypeOK /\ (\A i \in Id : Row(i)) /\ (\A q \in Reqs : Task(q)) /\ OnePays
  BY DEF BaseInv
<1>2. ASSUME NEW i \in Id PROVE Row(i)'
  <2>1. Row(i)
    BY <1>1
  <2>2. QED
    BY <2>1 DEF Row, Grown
<1>3. ASSUME NEW q \in Reqs PROVE Task(q)'
  <2>1. Task(q)
    BY <1>1
  <2>2. handler[q].pc \in {"bonus", "deleteLog", "delete", "export"} =>
              handler[q].who \in Id /\ users'[handler[q].who].state # "none"
    BY <2>1 DEF Task, Grown
  <2>3. QED
    BY <2>1, <2>2 DEF Task, Grown, At
<1>4. OnePays'
  BY <1>1 DEF OnePays, At
<1>5. QED
  BY <1>2, <1>3, <1>4 DEF BaseInv

LEMMA InsertUserBase ==
    ASSUME BaseInv, TypeOK', Grown, NEW r \in Reqs, NEW i \in Id, InsertUser(r, i)
    PROVE  BaseInv'
<1>1. TypeOK /\ (\A j \in Id : Row(j)) /\ (\A q \in Reqs : Task(q)) /\ OnePays
  BY DEF BaseInv
<1>2. /\ Others(r) /\ (handler[r].ref = 0 \/ Here(handler[r].ref))
      /\ handler[r].ref = 0 => handler'[r].pc = "idle"
      /\ handler[r].ref # 0 => /\ handler'[r].pc = "bonus" /\ handler'[r].who = i
                               /\ handler'[r].ref = handler[r].ref
      /\ users[i].state = "none"
      /\ users'[i].state = "here" /\ users'[i].referrer = handler[r].ref
      /\ \A j \in Id \ {i} : users'[j] = users[j]
      /\ keys' = keys /\ cut' = cut
  BY <1>1, InsertUserFacts
<1>3. handler[r].ref # 0 => /\ handler[r].ref \in Id /\ users[handler[r].ref].state # "none"
                           /\ users'[handler[r].ref].state # "none"
  BY <1>2 DEF Here, Grown
<1>4. ASSUME NEW j \in Id PROVE Row(j)'
  <2>1. CASE j = i
    BY <1>2, <1>3, <2>1 DEF Row
  <2>2. CASE j # i
    <3>1. Row(j) /\ users'[j] = users[j]
      BY <1>1, <1>2, <2>2
    <3>2. users[j].referrer # 0 => users[j].referrer \in Id /\ users'[users[j].referrer].state # "none"
      BY <3>1 DEF Row, Grown
    <3>3. QED
      BY <1>2, <3>1, <3>2 DEF Row
  <2>3. QED
    BY <2>1, <2>2
<1>5. ASSUME NEW q \in Reqs PROVE Task(q)' /\ (q # r /\ At(q, "bonus")' => handler'[q].who # i)
  <2>1. CASE q = r
    <3>1. CASE handler[r].ref = 0
      BY <1>2, <2>1, <3>1 DEF Task, At
    <3>2. CASE handler[r].ref # 0
      <4>1. <<i, "bonus">> \notin cut'
        BY <1>1, <1>2 DEF Row
      <4>2. QED
        BY <1>2, <1>3, <2>1, <3>2, <4>1 DEF Task, At
    <3>3. QED
      BY <3>1, <3>2
  <2>2. CASE q # r
    <3>1. Task(q) /\ handler'[q] = handler[q]
      BY <1>1, <1>2, <2>2 DEF Others
    <3>2. handler[q].pc \in {"bonus", "deleteLog", "delete", "export"} =>
                /\ handler[q].who \in Id /\ users'[handler[q].who].state # "none"
                /\ handler[q].who # i /\ users'[handler[q].who] = users[handler[q].who]
      BY <1>2, <3>1 DEF Task, Grown
    <3>3. QED
      BY <1>2, <3>1, <3>2 DEF Task, At
  <2>3. QED
    BY <2>1, <2>2
<1>6. OnePays'
  <2>1. ASSUME NEW p \in Reqs, NEW q \in Reqs, p # q, At(p, "bonus")', At(q, "bonus")'
        PROVE  handler'[p].who # handler'[q].who
    <3>1. CASE p = r \/ q = r
      <4>1. handler'[r].who = i
        BY <1>2, <2>1, <3>1 DEF At
      <4>2. QED
        BY <1>5, <2>1, <3>1, <4>1
    <3>2. CASE p # r /\ q # r
      BY <1>1, <1>2, <2>1, <3>2 DEF OnePays, Others, At
    <3>3. QED
      BY <3>1, <3>2
  <2>2. QED
    BY <2>1 DEF OnePays
<1>7. QED
  BY <1>4, <1>5, <1>6 DEF BaseInv

LEMMA StepBase ==
    ASSUME BaseInv, [Next]_vars
    PROVE  BaseInv'
<1>1. TypeOK /\ TypeOK' /\ Grown /\ \A r \in Reqs : Task(r)
  BY BaseTypes, StepGrown DEF BaseInv
<1>2. ASSUME NEW r \in Reqs, Others(r), handler'[r].pc # "bonus", Task(r)', UNCHANGED <<users, cut>>
      PROVE  BaseInv'
  BY <1>1, <1>2, BaseKept
<1>3. ASSUME NEW r \in Reqs, handler'[r].pc \in {"idle", "referrer", "insert"} PROVE Task(r)'
  BY <1>3 DEF Task, At
<1>4. ASSUME NEW r \in Reqs, NEW e \in Emails, NEW code \in 0..MaxAccounts, RegisterLookup(r, e, code)
      PROVE  BaseInv'
  BY <1>1, <1>2, <1>3, <1>4, RegisterLookupFacts DEF tables
<1>5. ASSUME NEW r \in Reqs, FindReferrer(r) PROVE BaseInv'
  BY <1>1, <1>2, <1>3, <1>5, FindReferrerFacts DEF tables
<1>6. ASSUME NEW r \in Reqs, NEW i \in Id, InsertUser(r, i) PROVE BaseInv'
  BY <1>1, <1>6, InsertUserBase
<1>7. ASSUME NEW r \in Reqs, PayBonus(r) PROVE BaseInv'
  <2>1. /\ Others(r) /\ handler'[r].pc = "idle" /\ cut' = cut
        /\ \A i \in Id : users'[i].referrer = users[i].referrer
    BY <1>1, <1>7, PayBonusFacts
  <2>2. Task(r)'
    BY <1>3, <2>1
  <2>3. QED
    BY <1>1, <2>1, <2>2, BaseKept
<1>8. ASSUME NEW i \in Id, WritePlan(i) PROVE BaseInv'
  <2>1. /\ handler' = handler /\ cut' = cut \cup {<<i, "plan">>}
        /\ users'[i].referrer = users[i].referrer /\ \A j \in Id \ {i} : users'[j] = users[j]
    BY <1>1, <1>8, WritePlanFacts
  <2>2. \A j \in Id : <<j, "bonus">> \in cut' => <<j, "bonus">> \in cut
    BY <2>1
  <2>3. QED
    BY <1>1, <2>1, <2>2, BaseStill
<1>9. ASSUME NEW i \in Id, NEW k \in Key, InsertKey(i, k) PROVE BaseInv'
  BY <1>1, <1>9, InsertKeyFacts, BaseStill
<1>10. ASSUME NEW r \in Reqs, NEW i \in Id, NEW k \in Key, RevokeKey(r, i, k) PROVE BaseInv'
  <2>1. /\ Others(r) /\ handler'[r].pc = "keyRevoked" /\ handler'[r].ref = k /\ keys'[k].state = "revoked"
        /\ UNCHANGED <<users, cut>>
    BY <1>1, <1>10, RevokeKeyFacts
  <2>2. Task(r)'
    BY <2>1 DEF Task, At
  <2>3. QED
    BY <1>2, <2>1, <2>2
<1>11. ASSUME NEW r \in Reqs, LogRevocation(r) PROVE BaseInv'
  BY <1>1, <1>2, <1>3, <1>11, LogRevocationFacts
<1>12. ASSUME NEW r \in Reqs, NEW pc \in {"deleteLog", "export"}, Authorized(r, pc) PROVE BaseInv'
  <2>1. /\ Others(r) /\ handler'[r].pc = pc /\ Here(handler'[r].who) /\ UNCHANGED <<users, cut>>
    BY <1>1, <1>12, AuthorizedFacts DEF tables
  <2>2. Task(r)'
    BY <2>1 DEF Task, At, Here
  <2>3. QED
    BY <1>2, <2>1, <2>2
<1>13. ASSUME NEW r \in Reqs, LogDeletion(r) PROVE BaseInv'
  <2>1. /\ Others(r) /\ At(r, "deleteLog") /\ handler'[r].pc = "delete" /\ handler'[r].who = handler[r].who
        /\ UNCHANGED <<users, cut>>
    BY <1>1, <1>13, LogDeletionFacts
  <2>2. Task(r)'
    BY <1>1, <2>1 DEF Task, At
  <2>3. QED
    BY <1>2, <2>1, <2>2
<1>14. ASSUME NEW r \in Reqs, DeleteUser(r) PROVE BaseInv'
  <2>1. handler[r].who \in Id
    BY <1>1, <1>14 DEF DeleteUser, Task, At
  <2>2. /\ Others(r) /\ handler'[r].pc = "idle" /\ cut' = cut
        /\ users'[handler[r].who].referrer = users[handler[r].who].referrer
        /\ \A j \in Id \ {handler[r].who} : users'[j] = users[j]
    BY <1>1, <1>14, <2>1, DeleteUserFacts
  <2>3. Task(r)'
    BY <1>3, <2>2
  <2>4. QED
    BY <1>1, <2>2, <2>3, BaseKept
<1>15. ASSUME NEW r \in Reqs, DeleteRefused(r) PROVE BaseInv'
  BY <1>1, <1>2, <1>3, <1>15, DeleteRefusedFacts DEF tables
<1>16. ASSUME NEW r \in Reqs, At(r, "export"), Others(r), handler'[r].pc = "export",
              handler'[r].who = handler[r].who, UNCHANGED <<tables, cut>>
       PROVE  BaseInv'
  <2>1. UNCHANGED <<users, cut>>
    BY <1>16 DEF tables
  <2>2. Task(r)'
    BY <1>1, <1>16, <2>1 DEF Task, At
  <2>3. QED
    BY <1>2, <1>16, <2>1, <2>2
<1>17. ASSUME NEW r \in Reqs, ReadConvs(r) PROVE BaseInv'
  BY <1>1, <1>16, <1>17, ReadConvsFacts
<1>18. ASSUME NEW r \in Reqs, ReadMessages(r) PROVE BaseInv'
  BY <1>1, <1>16, <1>18, ReadMessagesFacts
<1>19. ASSUME NEW r \in Reqs, Exported(r) PROVE BaseInv'
  BY <1>1, <1>2, <1>3, <1>19, ExportedFacts DEF tables
<1>20. ASSUME NEW c \in Conv, Converse(c) PROVE BaseInv'
  BY <1>1, <1>20, ConverseFacts, BaseStill
<1>21. ASSUME NEW r \in Reqs, Abort(r) PROVE BaseInv'
  <2>1. /\ Others(r) /\ handler'[r].pc = "idle" /\ users' = users
        /\ cut' \subseteq cut \cup {<<handler[r].who, handler[r].pc>>}
    BY <1>1, <1>21, AbortFacts DEF tables
  <2>2. \A j \in Id : <<j, "bonus">> \in cut' =>
                         <<j, "bonus">> \in cut \/ (At(r, "bonus") /\ handler[r].who = j)
    BY <2>1 DEF At
  <2>3. Task(r)'
    BY <1>3, <2>1
  <2>4. QED
    BY <1>1, <2>1, <2>2, <2>3, BaseKept
<1>22. CASE UNCHANGED vars
  BY <1>1, <1>22, BaseStill DEF vars
<1>23. QED
  BY <1>4, <1>5, <1>6, <1>7, <1>8, <1>9, <1>10, <1>11, <1>12, <1>13, <1>14, <1>15, <1>17, <1>18, <1>19,
     <1>20, <1>21, <1>22 DEF Next

(* TypeOK, for every number of requests, accounts, keys and conversations. *)
THEOREM TypeCorrect == Spec => []TypeOK
<1>1. BaseInv => TypeOK
  BY DEF BaseInv
<1>2. QED
  BY <1>1, InitBase, StepBase, PTL DEF Spec

-----------------------------------------------------------------------------
\* The audit log

\* What an entry of the log says, and that its subject was there.
Honest(e) ==
    /\ e.action = "revoked" => e.of \in Key /\ keys[e.of].state \in {"revoked", "gone"}
    /\ e.action = "deleted" =>
          /\ e.of \in Id /\ users[e.of].state # "none"
          /\ \/ ~Here(e.of)
             \/ \E r \in Reqs : At(r, "delete") /\ handler[r].who = e.of
             \/ <<e.of, "delete">> \in cut
             \/ Referred(e.of) # {}

LogInv == BaseInv /\ \A e \in log : Honest(e)

LEMMA InitLog ==
    ASSUME Init
    PROVE  LogInv
  BY InitBase DEF Init, LogInv

(* A request that deletes stays at it until the account is gone, refused, or *)
(* the deletion is cut off.                                                  *)
LEMMA DeletionEnds ==
    ASSUME BaseInv, [Next]_vars, NEW q \in Reqs, At(q, "delete")
    PROVE  \/ handler'[q] = handler[q]
           \/ users'[handler[q].who].state = "gone"
           \/ <<handler[q].who, "delete">> \in cut'
           \/ Referred(handler[q].who) # {}
<1> DEFINE Ends == \/ handler'[q] = handler[q]
                   \/ users'[handler[q].who].state = "gone"
                   \/ <<handler[q].who, "delete">> \in cut'
                   \/ Referred(handler[q].who) # {}
<1>1. TypeOK /\ handler[q].who \in Id
  BY DEF BaseInv, Task, At
<1>2. ASSUME NEW r \in Reqs, Others(r), ~At(r, "delete") PROVE Ends
  BY <1>2 DEF Others
<1>3. ASSUME NEW r \in Reqs, Others(r), r # q PROVE Ends
  BY <1>3 DEF Others
<1>4. ASSUME NEW r \in Reqs, NEW e \in Emails, NEW code \in 0..MaxAccounts, RegisterLookup(r, e, code)
      PROVE  Ends
  BY <1>1, <1>2, <1>4, RegisterLookupFacts DEF At
<1>5. ASSUME NEW r \in Reqs, FindReferrer(r) PROVE Ends
  BY <1>1, <1>2, <1>5, FindReferrerFacts DEF At
<1>6. ASSUME NEW r \in Reqs, NEW i \in Id, InsertUser(r, i) PROVE Ends
  BY <1>1, <1>2, <1>6, InsertUserFacts DEF At
<1>7. ASSUME NEW r \in Reqs, PayBonus(r) PROVE Ends
  BY <1>1, <1>2, <1>7, PayBonusFacts DEF At
<1>8. ASSUME NEW i \in Id, WritePlan(i) PROVE Ends
  BY <1>1, <1>8, WritePlanFacts
<1>9. ASSUME NEW i \in Id, NEW k \in Key, InsertKey(i, k) PROVE Ends
  BY <1>1, <1>9, InsertKeyFacts
<1>10. ASSUME NEW r \in Reqs, NEW i \in Id, NEW k \in Key, RevokeKey(r, i, k) PROVE Ends
  BY <1>1, <1>2, <1>10, RevokeKeyFacts DEF At
<1>11. ASSUME NEW r \in Reqs, LogRevocation(r) PROVE Ends
  BY <1>1, <1>2, <1>11, LogRevocationFacts DEF At
<1>12. ASSUME NEW r \in Reqs, NEW pc \in {"deleteLog", "export"}, Authorized(r, pc) PROVE Ends
  BY <1>1, <1>2, <1>12, AuthorizedFacts DEF At
<1>13. ASSUME NEW r \in Reqs, LogDeletion(r) PROVE Ends
  BY <1>1, <1>2, <1>13, LogDeletionFacts DEF At
<1>14. ASSUME NEW r \in Reqs, DeleteUser(r) PROVE Ends
  <2>1. CASE r = q
    BY <1>1, <1>14, <2>1, DeleteUserFacts
  <2>2. CASE r # q
    <3>1. handler[r].who \in Id
      BY <1>14 DEF DeleteUser, BaseInv, Task, At
    <3>2. QED
      BY <1>1, <1>3, <1>14, <2>2, <3>1, DeleteUserFacts
  <2>3. QED
    BY <2>1, <2>2
<1>15. ASSUME NEW r \in Reqs, DeleteRefused(r) PROVE Ends
  <2>1. Others(r) /\ Needed(handler[r].who)
    BY <1>1, <1>15, DeleteRefusedFacts
  <2>2. QED
    BY <1>3, <2>1 DEF Needed
<1>16. ASSUME NEW r \in Reqs, ReadConvs(r) PROVE Ends
  BY <1>1, <1>2, <1>16, ReadConvsFacts DEF At
<1>17. ASSUME NEW r \in Reqs, ReadMessages(r) PROVE Ends
  BY <1>1, <1>2, <1>17, ReadMessagesFacts DEF At
<1>18. ASSUME NEW r \in Reqs, Exported(r) PROVE Ends
  BY <1>1, <1>2, <1>18, ExportedFacts DEF At
<1>19. ASSUME NEW c \in Conv, Converse(c) PROVE Ends
  BY <1>1, <1>19, ConverseFacts
<1>20. ASSUME NEW r \in Reqs, Abort(r) PROVE Ends
  <2>1. Others(r) /\ (At(r, "delete") => <<handler[r].who, "delete">> \in cut')
    BY <1>1, <1>20, AbortFacts
  <2>2. QED
    BY <1>3, <2>1
<1>21. CASE UNCHANGED vars
  BY <1>21 DEF vars
<1>22. QED
  BY <1>4, <1>5, <1>6, <1>7, <1>8, <1>9, <1>10, <1>11, <1>12, <1>13, <1>14, <1>15, <1>16, <1>17, <1>18,
     <1>19, <1>20, <1>21 DEF Next

(* An entry that was true stays so. *)
LEMMA StaysHonest ==
    ASSUME BaseInv, [Next]_vars, NEW e \in log, Honest(e)
    PROVE  Honest(e)'
<1>1. Grown /\ TypeOK /\ TypeOK'
  BY StepGrown, BaseTypes
<1>2. e.action = "revoked" => e.of \in Key /\ keys'[e.of].state \in {"revoked", "gone"}
  BY <1>1 DEF Honest, Grown
<1>3. ASSUME e.action = "deleted"
      PROVE  /\ e.of \in Id /\ users'[e.of].state # "none"
             /\ \/ ~Here(e.of)'
                \/ \E r \in Reqs : At(r, "delete")' /\ handler'[r].who = e.of
                \/ <<e.of, "delete">> \in cut'
                \/ Referred(e.of)' # {}
  <2>1. /\ e.of \in Id /\ users[e.of].state # "none"
        /\ \/ ~Here(e.of)
           \/ \E r \in Reqs : At(r, "delete") /\ handler[r].who = e.of
           \/ <<e.of, "delete">> \in cut
           \/ Referred(e.of) # {}
    BY <1>3 DEF Honest
  <2>2. users'[e.of].state # "none"
    BY <1>1, <2>1 DEF Grown
  <2>3. CASE ~Here(e.of)
    <3>1. users[e.of].state = "gone"
      BY <1>1, <2>1, <2>3, UserFacts DEF Here
    <3>2. QED
      BY <1>1, <2>1, <2>2, <3>1 DEF Grown, Here
  <2>4. Referred(e.of) # {} => Referred(e.of)' # {}
    <3>1. SUFFICES ASSUME NEW j \in Referred(e.of) PROVE j \in Referred(e.of)'
      OBVIOUS
    <3>2. j \in Id /\ users[j].referrer = e.of /\ e.of # 0
      BY <2>1, Numbers DEF Referred
    <3>3. users[j].state # "none"
      BY <3>2 DEF BaseInv, Row
    <3>4. QED
      BY <1>1, <3>2, <3>3 DEF Grown, Referred
  <2>5. CASE \E r \in Reqs : At(r, "delete") /\ handler[r].who = e.of
    <3>1. PICK r \in Reqs : At(r, "delete") /\ handler[r].who = e.of
      BY <2>5
    <3>2. \/ handler'[r] = handler[r]
          \/ users'[e.of].state = "gone"
          \/ <<e.of, "delete">> \in cut'
          \/ Referred(e.of) # {}
      BY <3>1, DeletionEnds
    <3>3. CASE handler'[r] = handler[r]
      BY <2>1, <2>2, <3>1, <3>3 DEF At
    <3>4. CASE users'[e.of].state = "gone"
      BY <2>1, <2>2, <3>4 DEF Here
    <3>5. QED
      BY <2>1, <2>2, <2>4, <3>2, <3>3, <3>4
  <2>6. <<e.of, "delete">> \in cut => <<e.of, "delete">> \in cut'
    BY <1>1 DEF Grown
  <2>7. QED
    BY <2>1, <2>2, <2>3, <2>4, <2>5, <2>6
<1>4. QED
  BY <1>2, <1>3 DEF Honest

LEMMA StepLog ==
    ASSUME LogInv, [Next]_vars
    PROVE  LogInv'
<1>1. BaseInv /\ BaseInv' /\ TypeOK /\ Grown
  BY StepBase, StepGrown DEF LogInv, BaseInv
<1>2. \A e \in log : Honest(e)'
  BY <1>1, StaysHonest DEF LogInv
<1>3. ASSUME log' \subseteq log PROVE LogInv'
  BY <1>1, <1>2, <1>3 DEF LogInv
<1>4. ASSUME NEW r \in Reqs, LogRevocation(r) PROVE LogInv'
  <2>1. /\ At(r, "keyRevoked") /\ keys' = keys
        /\ log' \subseteq log \cup {[action |-> "revoked", of |-> handler[r].ref]}
    BY <1>1, <1>4, LogRevocationFacts
  <2>2. handler[r].ref \in Key /\ keys[handler[r].ref].state \in {"revoked", "gone"}
    BY <1>1, <2>1 DEF BaseInv, Task
  <2>3. ASSUME NEW e, e = [action |-> "revoked", of |-> handler[r].ref] PROVE Honest(e)'
    BY <2>1, <2>2, <2>3 DEF Honest
  <2>4. \A e \in log' : Honest(e)'
    BY <1>2, <2>1, <2>3
  <2>5. QED
    BY <1>1, <2>4 DEF LogInv
<1>5. ASSUME NEW r \in Reqs, LogDeletion(r) PROVE LogInv'
  <2>1. /\ At(r, "deleteLog") /\ handler'[r].pc = "delete" /\ handler'[r].who = handler[r].who
        /\ log' \subseteq log \cup {[action |-> "deleted", of |-> handler[r].who]} /\ users' = users
    BY <1>1, <1>5, LogDeletionFacts
  <2>2. handler[r].who \in Id /\ users[handler[r].who].state # "none"
    BY <1>1, <2>1 DEF BaseInv, Task, At
  <2>3. ASSUME NEW e, e = [action |-> "deleted", of |-> handler[r].who] PROVE Honest(e)'
    <3>1. /\ e.action = "deleted" /\ e.of \in Id /\ users'[e.of].state # "none"
          /\ At(r, "delete")' /\ handler'[r].who = e.of
      BY <2>1, <2>2, <2>3 DEF At
    <3>2. QED
      BY <3>1 DEF Honest
  <2>4. \A e \in log' : Honest(e)'
    BY <1>2, <2>1, <2>3
  <2>5. QED
    BY <1>1, <2>4 DEF LogInv
<1>6. CASE UNCHANGED vars
  BY <1>3, <1>6 DEF vars
<1>7. ASSUME NEW r \in Reqs, NEW e \in Emails, NEW code \in 0..MaxAccounts, RegisterLookup(r, e, code)
      PROVE  LogInv'
  BY <1>1, <1>3, <1>7, RegisterLookupFacts DEF tables
<1>8. ASSUME NEW r \in Reqs, FindReferrer(r) PROVE LogInv'
  BY <1>1, <1>3, <1>8, FindReferrerFacts DEF tables
<1>9. ASSUME NEW r \in Reqs, NEW i \in Id, InsertUser(r, i) PROVE LogInv'
  BY <1>1, <1>3, <1>9, InsertUserFacts
<1>10. ASSUME NEW r \in Reqs, PayBonus(r) PROVE LogInv'
  BY <1>1, <1>3, <1>10, PayBonusFacts
<1>11. ASSUME NEW i \in Id, WritePlan(i) PROVE LogInv'
  BY <1>1, <1>3, <1>11, WritePlanFacts
<1>12. ASSUME NEW i \in Id, NEW k \in Key, InsertKey(i, k) PROVE LogInv'
  BY <1>1, <1>3, <1>12, InsertKeyFacts
<1>13. ASSUME NEW r \in Reqs, NEW i \in Id, NEW k \in Key, RevokeKey(r, i, k) PROVE LogInv'
  BY <1>1, <1>3, <1>13, RevokeKeyFacts
<1>14. ASSUME NEW r \in Reqs, NEW pc \in {"deleteLog", "export"}, Authorized(r, pc) PROVE LogInv'
  BY <1>1, <1>3, <1>14, AuthorizedFacts DEF tables
<1>15. ASSUME NEW r \in Reqs, DeleteUser(r) PROVE LogInv'
  BY <1>3, <1>15 DEF DeleteUser
<1>16. ASSUME NEW r \in Reqs, DeleteRefused(r) PROVE LogInv'
  BY <1>1, <1>3, <1>16, DeleteRefusedFacts DEF tables
<1>17. ASSUME NEW r \in Reqs, ReadConvs(r) PROVE LogInv'
  BY <1>1, <1>3, <1>17, ReadConvsFacts DEF tables
<1>18. ASSUME NEW r \in Reqs, ReadMessages(r) PROVE LogInv'
  BY <1>1, <1>3, <1>18, ReadMessagesFacts DEF tables
<1>19. ASSUME NEW r \in Reqs, Exported(r) PROVE LogInv'
  BY <1>1, <1>3, <1>19, ExportedFacts DEF tables
<1>20. ASSUME NEW c \in Conv, Converse(c) PROVE LogInv'
  BY <1>1, <1>3, <1>20, ConverseFacts
<1>21. ASSUME NEW r \in Reqs, Abort(r) PROVE LogInv'
  BY <1>1, <1>3, <1>21, AbortFacts DEF tables
<1>22. QED
  BY <1>4, <1>5, <1>6, <1>7, <1>8, <1>9, <1>10, <1>11, <1>12, <1>13, <1>14, <1>15, <1>16, <1>17, <1>18,
     <1>19, <1>20, <1>21 DEF Next

(* AuditTruth (routes/apikeys.js:45-54, routes/account.js:95-105): a key the *)
(* log calls revoked is, and an account it calls deleted is gone, or its     *)
(* DELETE is on its way, was cut off or cannot succeed.                      *)
THEOREM LogTellsTheTruth == Spec => []AuditTruth
<1>1. LogInv => AuditTruth
  BY DEF LogInv, Honest, AuditTruth
<1>2. QED
  BY <1>1, InitLog, StepLog, PTL DEF Spec

-----------------------------------------------------------------------------
\* The referral bonus

\* The accounts whose referral has paid i.
Payers(i) == {j \in Id : Paid(j) /\ i \in {j, users[j].referrer}}

Settled(i) ==
    Here(i) => /\ <<i, "plan">> \notin cut => users[i].bonus = Cardinality(Payers(i))
               /\ users[i].referrer # 0 => Here(users[i].referrer)

BonusInv == BaseInv /\ \A i \in Id : Settled(i)

LEMMA InitBonus ==
    ASSUME Init
    PROVE  BonusInv
  BY InitBase DEF Init, BonusInv, Settled, Here

LEMMA PayersFinite ==
    ASSUME NEW i \in Id
    PROVE  IsFiniteSet(Payers(i))
<1>1. IsFiniteSet(1..MaxAccounts)
  BY Numbers, FS_Interval
<1>2. Payers(i) \in SUBSET (1..MaxAccounts)
  BY DEF Payers, Id
<1>3. QED
  BY <1>1, <1>2, FS_Subset

(* A step that pays, inserts and deletes nothing. *)
LEMMA BonusKept ==
    ASSUME BonusInv, BaseInv',
           \A i \in Id : users'[i].referrer = users[i].referrer,
           \A j \in Id : Paid(j)' <=> Paid(j),
           \A i \in Id : Here(i)' => Here(i) /\ (<<i, "plan">> \notin cut' =>
                                                <<i, "plan">> \notin cut /\ users'[i].bonus = users[i].bonus),
           \A i \in Id : Here(i)' /\ users[i].referrer # 0 /\ Here(users[i].referrer) =>
                            Here(users[i].referrer)'
    PROVE  BonusInv'
<1>1. ASSUME NEW i \in Id PROVE Settled(i)'
  <2>1. Payers(i)' = Payers(i)
    BY DEF Payers
  <2>2. SUFFICES ASSUME Here(i)'
                 PROVE  /\ <<i, "plan">> \notin cut' => users'[i].bonus = Cardinality(Payers(i))
                        /\ users'[i].referrer # 0 => Here(users[i].referrer)'
    BY <2>1 DEF Settled, Here
  <2>3. Settled(i) /\ Here(i)
    BY <2>2 DEF BonusInv
  <2>4. QED
    BY <2>2, <2>3 DEF Settled
<1>2. QED
  BY <1>1 DEF BonusInv

(* A step of a request that is not about to pay, before or after it.         *)
LEMMA PaidKept ==
    ASSUME NEW r \in Reqs, Others(r), ~At(r, "bonus"), handler'[r].pc # "bonus", NEW j \in Id,
           users'[j].referrer = users[j].referrer, <<j, "bonus">> \in cut' <=> <<j, "bonus">> \in cut
    PROVE  Paid(j)' <=> Paid(j)
<1>1. ASSUME NEW q \in Reqs
      PROVE  (At(q, "bonus") => handler[q].who # j)' <=> (At(q, "bonus") => handler[q].who # j)
  BY DEF Others, At
<1>2. QED
  BY <1>1 DEF Paid

LEMMA InsertUserBonus ==
    ASSUME BonusInv, BaseInv', NEW r \in Reqs, NEW i \in Id, InsertUser(r, i)
    PROVE  BonusInv'
<1>1. TypeOK /\ (\A j \in Id : Row(j)) /\ (\A q \in Reqs : Task(q)) /\ (\A j \in Id : Settled(j))
  BY DEF BonusInv, BaseInv
<1>2. /\ Others(r) /\ (handler[r].ref = 0 \/ Here(handler[r].ref)) /\ At(r, "insert")
      /\ handler[r].ref = 0 => handler'[r].pc = "idle"
      /\ handler[r].ref # 0 => /\ handler'[r].pc = "bonus" /\ handler'[r].who = i
      /\ users[i].state = "none"
      /\ users'[i].state = "here" /\ users'[i].referrer = handler[r].ref /\ users'[i].bonus = 0
      /\ \A j \in Id \ {i} : users'[j] = users[j]
      /\ cut' = cut
  BY <1>1, InsertUserFacts
<1>3. ~Paid(i) /\ ~Paid(i)'
  <2>1. users[i].referrer = 0
    BY <1>1, <1>2 DEF Row
  <2>2. CASE handler[r].ref = 0
    BY <1>2, <2>1, <2>2 DEF Paid
  <2>3. CASE handler[r].ref # 0
    BY <1>2, <2>1, <2>3 DEF Paid, At
  <2>4. QED
    BY <2>2, <2>3
<1>4. ASSUME NEW j \in Id, j # i PROVE Paid(j)' <=> Paid(j)
  <2>1. users'[j].referrer = users[j].referrer
    BY <1>2, <1>4
  <2>2. ASSUME NEW q \in Reqs
        PROVE  (At(q, "bonus") => handler[q].who # j)' <=> (At(q, "bonus") => handler[q].who # j)
    BY <1>2, <1>4 DEF Others, At
  <2>3. QED
    BY <1>2, <2>1, <2>2 DEF Paid
<1>5. ASSUME NEW k \in Id PROVE Payers(k)' = Payers(k)
  BY <1>2, <1>3, <1>4 DEF Payers
<1>6. Payers(i) = {}
  <2>1. SUFFICES ASSUME NEW j \in Id, Paid(j), i \in {j, users[j].referrer} PROVE FALSE
    BY DEF Payers
  <2>2. users[j].referrer = i /\ i # 0
    BY <1>3, <2>1, Numbers
  <2>3. QED
    BY <1>1, <1>2, <2>2 DEF Row
<1>7. ASSUME NEW k \in Id PROVE Settled(k)'
  <2>1. CASE k = i
    <3>1. users'[k].referrer # 0 => Here(users[k].referrer)'
      BY <1>2, <2>1 DEF Here
    <3>2. Cardinality(Payers(k)') = 0
      BY <1>5, <1>6, <2>1, FS_EmptySet
    <3>3. users'[k].bonus = Cardinality(Payers(k)')
      BY <1>2, <2>1, <3>2
    <3>4. QED
      BY <3>1, <3>3 DEF Settled
  <2>2. CASE k # i
    <3>1. Settled(k) /\ Payers(k)' = Payers(k) /\ users'[k] = users[k]
      BY <1>1, <1>2, <1>5, <2>2
    <3>2. Here(users[k].referrer) => Here(users[k].referrer)'
      BY <1>2, <2>2 DEF Here
    <3>3. QED
      BY <1>2, <3>1, <3>2 DEF Settled, Here
  <2>3. QED
    BY <2>1, <2>2
<1>8. QED
  BY <1>7 DEF BonusInv

LEMMA PayBonusSettles ==
    ASSUME BonusInv, BaseInv', NEW r \in Reqs, PayBonus(r)
    PROVE  BonusInv'
<1>1. TypeOK /\ Task(r) /\ OnePays /\ \A j \in Id : Settled(j)
  BY DEF BonusInv, BaseInv
<1>2. At(r, "bonus")
  BY <1>1, PayBonusFacts
<1>3. PICK who \in Id, ref \in Id :
        /\ who = handler[r].who /\ ref = handler[r].ref
        /\ ref # 0 /\ users[who].referrer = ref /\ <<who, "bonus">> \notin cut
  BY <1>1, <1>2, Numbers DEF Task, At
<1>4. /\ Others(r) /\ handler'[r].pc = "idle" /\ cut' = cut
      /\ \A i \in Id : /\ users'[i].state = users[i].state /\ users'[i].referrer = users[i].referrer
                       /\ users'[i].bonus = IF i \in {who, ref} /\ Here(i)
                                            THEN users[i].bonus + 1 ELSE users[i].bonus
  BY <1>1, <1>3, PayBonusFacts
<1>5. ~Paid(who) /\ Paid(who)'
  <2>1. ~Paid(who)
    BY <1>2, <1>3 DEF Paid
  <2>2. \A q \in Reqs : At(q, "bonus")' => handler'[q].who # who
    BY <1>1, <1>2, <1>3, <1>4 DEF OnePays, Others, At
  <2>3. QED
    BY <1>2, <1>3, <1>4, <2>1, <2>2 DEF Paid
<1>6. ASSUME NEW j \in Id, j # who PROVE Paid(j)' <=> Paid(j)
  <2>1. ASSUME NEW q \in Reqs
        PROVE  (At(q, "bonus") => handler[q].who # j)' <=> (At(q, "bonus") => handler[q].who # j)
    BY <1>2, <1>3, <1>4, <1>6 DEF Others, At
  <2>2. QED
    BY <1>2, <1>4, <2>1 DEF Paid
<1>7. ASSUME NEW k \in Id
      PROVE  IF k \in {who, ref} THEN Cardinality(Payers(k)') = Cardinality(Payers(k)) + 1
                                 ELSE Payers(k)' = Payers(k)
  <2>1. CASE k \in {who, ref}
    <3>1. Payers(k)' = Payers(k) \cup {who} /\ who \notin Payers(k)
      <4>1. who \notin Payers(k) /\ who \in Payers(k)'
        BY <1>2, <1>3, <1>4, <1>5, <2>1 DEF Payers
      <4>2. \A j \in Id \ {who} : j \in Payers(k)' <=> j \in Payers(k)
        BY <1>2, <1>4, <1>6 DEF Payers
      <4>3. Payers(k) \subseteq Id /\ Payers(k)' \subseteq Id
        BY DEF Payers
      <4>4. QED
        BY <1>3, <4>1, <4>2, <4>3
    <3>2. Cardinality(Payers(k) \cup {who}) = Cardinality(Payers(k)) + 1
      BY <3>1, PayersFinite, FS_AddElement
    <3>3. QED
      BY <2>1, <3>1, <3>2
  <2>2. CASE k \notin {who, ref}
    BY <1>2, <1>3, <1>4, <1>5, <1>6, <2>2 DEF Payers
  <2>3. QED
    BY <2>1, <2>2
<1>8. ASSUME NEW k \in Id PROVE Settled(k)'
  <2>1. Here(k)' <=> Here(k)
    BY <1>2, <1>4 DEF Here
  <2>2. SUFFICES ASSUME Here(k)
                 PROVE  /\ <<k, "plan">> \notin cut => users'[k].bonus = Cardinality(Payers(k)')
                        /\ users[k].referrer # 0 => Here(users[k].referrer)'
    BY <1>2, <1>4, <2>1 DEF Settled
  <2>3. Settled(k)
    BY <1>1
  <2>4. <<k, "plan">> \notin cut => users[k].bonus = Cardinality(Payers(k))
    BY <2>2, <2>3 DEF Settled
  <2>5. users[k].referrer # 0 => Here(users[k].referrer)'
    BY <1>2, <1>4, <2>2, <2>3 DEF Settled, Here
  <2>6. CASE k \in {who, ref}
    <3>1. users'[k].bonus = users[k].bonus + 1
      BY <1>2, <1>4, <2>2, <2>6
    <3>2. Cardinality(Payers(k)') = Cardinality(Payers(k)) + 1
      BY <1>7, <2>6
    <3>3. QED
      BY <2>4, <2>5, <3>1, <3>2
  <2>7. CASE k \notin {who, ref}
    <3>1. users'[k].bonus = users[k].bonus /\ Payers(k)' = Payers(k)
      BY <1>2, <1>4, <1>7, <2>7
    <3>2. QED
      BY <2>4, <2>5, <3>1
  <2>8. QED
    BY <2>6, <2>7
<1>9. QED
  BY <1>8 DEF BonusInv

LEMMA StepBonus ==
    ASSUME BonusInv, [Next]_vars
    PROVE  BonusInv'
<1>1. BaseInv /\ BaseInv' /\ TypeOK /\ (\A r \in Reqs : Task(r)) /\ (\A i \in Id : Settled(i))
  BY StepBase DEF BonusInv, BaseInv
<1>2. ASSUME NEW r \in Reqs, Others(r), ~At(r, "bonus"), handler'[r].pc # "bonus", UNCHANGED <<users, cut>>
      PROVE  BonusInv'
  <2>1. \A j \in Id : Paid(j)' <=> Paid(j)
    BY <1>2, PaidKept
  <2>2. \A i \in Id : Here(i)' <=> Here(i)
    BY <1>2 DEF Here
  <2>3. \A i \in Id : Here(users[i].referrer) => Here(users[i].referrer)'
    BY <1>2 DEF Here
  <2>4. QED
    BY <1>1, <1>2, <2>1, <2>2, <2>3, BonusKept
<1>3. ASSUME handler' = handler, UNCHANGED <<users, cut>> PROVE BonusInv'
  <2>1. \A j \in Id : Paid(j)' <=> Paid(j)
    BY <1>3 DEF Paid, At
  <2>2. \A i \in Id : Here(i)' <=> Here(i)
    BY <1>3 DEF Here
  <2>3. \A i \in Id : Here(users[i].referrer) => Here(users[i].referrer)'
    BY <1>3 DEF Here
  <2>4. QED
    BY <1>1, <1>3, <2>1, <2>2, <2>3, BonusKept
<1>4. ASSUME NEW r \in Reqs, NEW e \in Emails, NEW code \in 0..MaxAccounts, RegisterLookup(r, e, code)
      PROVE  BonusInv'
  BY <1>1, <1>2, <1>4, RegisterLookupFacts DEF tables, At
<1>5. ASSUME NEW r \in Reqs, FindReferrer(r) PROVE BonusInv'
  BY <1>1, <1>2, <1>5, FindReferrerFacts DEF tables, At
<1>6. ASSUME NEW r \in Reqs, NEW i \in Id, InsertUser(r, i) PROVE BonusInv'
  BY <1>1, <1>6, InsertUserBonus
<1>7. ASSUME NEW r \in Reqs, PayBonus(r) PROVE BonusInv'
  BY <1>1, <1>7, PayBonusSettles
<1>8. ASSUME NEW i \in Id, WritePlan(i) PROVE BonusInv'
  <2>1. /\ handler' = handler /\ cut' = cut \cup {<<i, "plan">>}
        /\ users'[i].state = users[i].state /\ users'[i].referrer = users[i].referrer
        /\ \A j \in Id \ {i} : users'[j] = users[j]
    BY <1>1, <1>8, WritePlanFacts
  <2>2. \A j \in Id : users'[j].referrer = users[j].referrer /\ users'[j].state = users[j].state
    BY <2>1
  <2>3. \A j \in Id : Paid(j)' <=> Paid(j)
    BY <2>1, <2>2 DEF Paid, At
  <2>4. \A j \in Id : Here(j)' <=> Here(j)
    BY <2>2 DEF Here
  <2>5. \A j \in Id : <<j, "plan">> \notin cut' => <<j, "plan">> \notin cut /\ users'[j].bonus = users[j].bonus
    BY <2>1
  <2>6. \A j \in Id : users[j].referrer # 0 /\ Here(users[j].referrer) => Here(users[j].referrer)'
    BY <2>2 DEF Here
  <2>7. QED
    BY <1>1, <2>2, <2>3, <2>4, <2>5, <2>6, BonusKept
<1>9. ASSUME NEW i \in Id, NEW k \in Key, InsertKey(i, k) PROVE BonusInv'
  BY <1>1, <1>3, <1>9, InsertKeyFacts
<1>10. ASSUME NEW r \in Reqs, NEW i \in Id, NEW k \in Key, RevokeKey(r, i, k) PROVE BonusInv'
  BY <1>1, <1>2, <1>10, RevokeKeyFacts DEF At
<1>11. ASSUME NEW r \in Reqs, LogRevocation(r) PROVE BonusInv'
  BY <1>1, <1>2, <1>11, LogRevocationFacts DEF At
<1>12. ASSUME NEW r \in Reqs, NEW pc \in {"deleteLog", "export"}, Authorized(r, pc) PROVE BonusInv'
  BY <1>1, <1>2, <1>12, AuthorizedFacts DEF tables, At
<1>13. ASSUME NEW r \in Reqs, LogDeletion(r) PROVE BonusInv'
  BY <1>1, <1>2, <1>13, LogDeletionFacts DEF At
<1>14. ASSUME NEW r \in Reqs, DeleteUser(r) PROVE BonusInv'
  <2>1. PICK i \in Id : i = handler[r].who
    BY <1>1, <1>14 DEF DeleteUser, Task, At
  <2>2. /\ At(r, "delete") /\ Others(r) /\ handler'[r].pc = "idle" /\ ~Needed(i) /\ cut' = cut
        /\ users'[i].state = "gone" /\ users'[i].referrer = users[i].referrer
        /\ \A j \in Id \ {i} : users'[j] = users[j]
    BY <1>1, <1>14, <2>1, DeleteUserFacts
  <2>3. \A j \in Id : users'[j].referrer = users[j].referrer
    BY <2>2
  <2>4. \A j \in Id : Paid(j)' <=> Paid(j)
    BY <2>2, <2>3, PaidKept DEF At
  <2>5. \A j \in Id : Here(j)' => j # i /\ Here(j) /\ users'[j].bonus = users[j].bonus
    BY <2>2 DEF Here
  <2>6. ASSUME NEW j \in Id, Here(j)', Here(users[j].referrer) PROVE Here(users[j].referrer)'
    <3>1. users[j].referrer # i
      BY <2>2, <2>5, <2>6 DEF Needed, Referred
    <3>2. QED
      BY <2>2, <2>3, <2>6, <3>1 DEF Here
  <2>7. QED
    BY <1>1, <2>2, <2>3, <2>4, <2>5, <2>6, BonusKept
<1>15. ASSUME NEW r \in Reqs, DeleteRefused(r) PROVE BonusInv'
  BY <1>1, <1>2, <1>15, DeleteRefusedFacts DEF tables, At
<1>16. ASSUME NEW r \in Reqs, ReadConvs(r) PROVE BonusInv'
  BY <1>1, <1>2, <1>16, ReadConvsFacts DEF tables, At
<1>17. ASSUME NEW r \in Reqs, ReadMessages(r) PROVE BonusInv'
  BY <1>1, <1>2, <1>17, ReadMessagesFacts DEF tables, At
<1>18. ASSUME NEW r \in Reqs, Exported(r) PROVE BonusInv'
  BY <1>1, <1>2, <1>18, ExportedFacts DEF tables, At
<1>19. ASSUME NEW c \in Conv, Converse(c) PROVE BonusInv'
  BY <1>1, <1>3, <1>19, ConverseFacts
<1>20. ASSUME NEW r \in Reqs, Abort(r) PROVE BonusInv'
  <2>1. /\ Others(r) /\ handler'[r].pc = "idle" /\ users' = users
        /\ cut \subseteq cut' /\ cut' \subseteq cut \cup {<<handler[r].who, handler[r].pc>>}
        /\ At(r, "bonus") => <<handler[r].who, "bonus">> \in cut'
        /\ cut' = cut \/ At(r, "bonus") \/ At(r, "delete")
    BY <1>1, <1>20, AbortFacts DEF tables
  <2>2. \A j \in Id : <<j, "plan">> \in cut' <=> <<j, "plan">> \in cut
    BY <2>1 DEF At
  <2>3. \A j \in Id : Here(j)' <=> Here(j)
    BY <2>1 DEF Here
  <2>4. ASSUME NEW j \in Id PROVE Paid(j)' <=> Paid(j)
    <3>1. CASE At(r, "bonus") /\ handler[r].who = j
      BY <2>1, <3>1 DEF Paid
    <3>2. CASE At(r, "bonus") /\ handler[r].who # j
      <4>1. <<j, "bonus">> \in cut' <=> <<j, "bonus">> \in cut
        BY <2>1, <3>2
      <4>2. ASSUME NEW q \in Reqs
            PROVE  (At(q, "bonus") => handler[q].who # j)' <=> (At(q, "bonus") => handler[q].who # j)
        BY <2>1, <3>2 DEF Others, At
      <4>3. QED
        BY <2>1, <4>1, <4>2 DEF Paid
    <3>3. CASE ~At(r, "bonus")
      <4>1. <<j, "bonus">> \in cut' <=> <<j, "bonus">> \in cut
        BY <2>1, <3>3 DEF At
      <4>2. QED
        BY <2>1, <3>3, <4>1, PaidKept
    <3>4. QED
      BY <3>1, <3>2, <3>3
  <2>5. \A i \in Id : Here(users[i].referrer) => Here(users[i].referrer)'
    BY <2>1 DEF Here
  <2>6. QED
    BY <1>1, <2>1, <2>2, <2>3, <2>4, <2>5, BonusKept
<1>21. CASE UNCHANGED vars
  BY <1>3, <1>21 DEF vars
<1>22. QED
  BY <1>4, <1>5, <1>6, <1>7, <1>8, <1>9, <1>10, <1>11, <1>12, <1>13, <1>14, <1>15, <1>16, <1>17, <1>18,
     <1>19, <1>20, <1>21 DEF Next

(* ReferralsPaid (routes/auth.js:49-70): the bonus of an account no plan has *)
(* overwritten counts its own referral and those of the accounts it          *)
(* referred, each once, but for the ones still to be paid or cut off; and    *)
(* nobody who has referred an account that exists is deleted.                *)
THEOREM ReferralPaidOnce == Spec => []ReferralsPaid
<1>1. BonusInv => ReferralsPaid
  BY DEF BonusInv, Settled, Payers, ReferralsPaid
<1>2. QED
  BY <1>1, InitBonus, StepBonus, PTL DEF Spec

-----------------------------------------------------------------------------
\* The export

\* Of the conversations nobody has touched since it began, an export has read
\* what is still there.
Fresh(r) ==
    At(r, "export") => \A c \in Conv \ touched :
        /\ handler[r].convs # Unread => (c \in handler[r].convs <=> c \in Mine(handler[r].who))
        /\ handler[r].msgs # Unread => (c \in handler[r].msgs <=> c \in SpokenOf(handler[r].who))

ExportInv ==
    /\ BaseInv
    /\ \A r, q \in Reqs : At(r, "export") /\ At(q, "export") => r = q
    /\ \A r \in Reqs : Fresh(r)

LEMMA InitExport ==
    ASSUME Init
    PROVE  ExportInv
<1>1. \A r \in Reqs : handler[r].pc = "idle"
  BY DEF Init, Idle
<1>2. QED
  BY <1>1, InitBase DEF ExportInv, Fresh, At

\* What changed was touched, if anybody exports.
Watched == Exporting => touched \subseteq touched' /\ \A c \in Conv \ touched' : convs'[c] = convs[c]

(* A request that is where it was. *)
LEMMA StaysFresh ==
    ASSUME NEW q \in Reqs, Fresh(q), handler'[q] = handler[q], Watched
    PROVE  Fresh(q)'
<1>1. SUFFICES ASSUME At(q, "export"), NEW c \in Conv, c \notin touched'
               PROVE  /\ handler[q].convs # Unread => (c \in handler[q].convs <=> c \in Mine(handler[q].who)')
                      /\ handler[q].msgs # Unread => (c \in handler[q].msgs <=> c \in SpokenOf(handler[q].who)')
  BY DEF Fresh, At
<1>2. c \in Conv \ touched /\ convs'[c] = convs[c]
  BY <1>1 DEF Watched, Exporting
<1>3. /\ c \in Mine(handler[q].who)' <=> c \in Mine(handler[q].who)
      /\ c \in SpokenOf(handler[q].who)' <=> c \in SpokenOf(handler[q].who)
  BY <1>2 DEF Mine, SpokenOf
<1>4. QED
  BY <1>1, <1>2, <1>3 DEF Fresh

(* A step of a request that does not export. *)
LEMMA ExportKept ==
    ASSUME ExportInv, BaseInv', NEW r \in Reqs, Others(r), handler'[r].pc # "export", Watched
    PROVE  ExportInv'
<1>1. \A q, p \in Reqs : At(q, "export")' /\ At(p, "export")' => q = p
  BY DEF ExportInv, Others, At
<1>2. ASSUME NEW q \in Reqs PROVE Fresh(q)'
  <2>1. CASE q = r
    BY <2>1 DEF Fresh, At
  <2>2. CASE q # r
    BY <2>2, StaysFresh DEF ExportInv, Others
  <2>3. QED
    BY <2>1, <2>2
<1>3. QED
  BY <1>1, <1>2 DEF ExportInv

(* A step of nobody in flight. *)
LEMMA ExportStill ==
    ASSUME ExportInv, BaseInv', handler' = handler, Watched
    PROVE  ExportInv'
<1>1. \A q, p \in Reqs : At(q, "export")' /\ At(p, "export")' => q = p
  BY DEF ExportInv, At
<1>2. \A q \in Reqs : Fresh(q)'
  BY StaysFresh DEF ExportInv
<1>3. QED
  BY <1>1, <1>2 DEF ExportInv

(* The step of the one that exports, which goes on or ends. *)
LEMMA ExporterSteps ==
    ASSUME ExportInv, BaseInv', NEW r \in Reqs, Others(r), At(r, "export") \/ ~Exporting, Fresh(r)'
    PROVE  ExportInv'
<1>1. \A q \in Reqs \ {r} : ~At(q, "export")'
  BY DEF ExportInv, Exporting, Others, At
<1>2. \A q, p \in Reqs : At(q, "export")' /\ At(p, "export")' => q = p
  BY <1>1
<1>3. \A q \in Reqs : Fresh(q)'
  BY <1>1 DEF Fresh
<1>4. QED
  BY <1>2, <1>3 DEF ExportInv

LEMMA StepExport ==
    ASSUME ExportInv, [Next]_vars
    PROVE  ExportInv'
<1>1. BaseInv /\ BaseInv' /\ TypeOK /\ (\A r \in Reqs : Task(r)) /\ (\A r \in Reqs : Fresh(r))
  BY StepBase DEF ExportInv, BaseInv
<1>2. ASSUME NEW r \in Reqs, Others(r), handler'[r].pc # "export", UNCHANGED <<convs, touched>> PROVE ExportInv'
  <2>1. Watched
    BY <1>2 DEF Watched
  <2>2. QED
    BY <1>1, <1>2, <2>1, ExportKept
<1>3. ASSUME handler' = handler, UNCHANGED <<convs, touched>> PROVE ExportInv'
  <2>1. Watched
    BY <1>3 DEF Watched
  <2>2. QED
    BY <1>1, <1>3, <2>1, ExportStill
<1>4. ASSUME NEW r \in Reqs, NEW e \in Emails, NEW code \in 0..MaxAccounts, RegisterLookup(r, e, code)
      PROVE  ExportInv'
  BY <1>1, <1>2, <1>4, RegisterLookupFacts DEF tables
<1>5. ASSUME NEW r \in Reqs, FindReferrer(r) PROVE ExportInv'
  BY <1>1, <1>2, <1>5, FindReferrerFacts DEF tables
<1>6. ASSUME NEW r \in Reqs, NEW i \in Id, InsertUser(r, i) PROVE ExportInv'
  <2>1. Others(r) /\ handler'[r].pc \in {"idle", "bonus"} /\ UNCHANGED <<convs, touched>>
    BY <1>1, <1>6, InsertUserFacts
  <2>2. QED
    BY <1>2, <2>1
<1>7. ASSUME NEW r \in Reqs, PayBonus(r) PROVE ExportInv'
  BY <1>1, <1>2, <1>7, PayBonusFacts
<1>8. ASSUME NEW i \in Id, WritePlan(i) PROVE ExportInv'
  BY <1>1, <1>3, <1>8, WritePlanFacts
<1>9. ASSUME NEW i \in Id, NEW k \in Key, InsertKey(i, k) PROVE ExportInv'
  BY <1>1, <1>3, <1>9, InsertKeyFacts
<1>10. ASSUME NEW r \in Reqs, NEW i \in Id, NEW k \in Key, RevokeKey(r, i, k) PROVE ExportInv'
  BY <1>1, <1>2, <1>10, RevokeKeyFacts
<1>11. ASSUME NEW r \in Reqs, LogRevocation(r) PROVE ExportInv'
  BY <1>1, <1>2, <1>11, LogRevocationFacts
<1>12. ASSUME NEW r \in Reqs, NEW pc \in {"deleteLog", "export"}, Authorized(r, pc) PROVE ExportInv'
  <2>1. /\ Others(r) /\ handler'[r].pc = pc /\ handler'[r].convs = Unread /\ handler'[r].msgs = Unread
        /\ pc = "export" => ~Exporting
        /\ UNCHANGED <<convs, touched>>
    BY <1>1, <1>12, AuthorizedFacts DEF tables
  <2>2. CASE pc = "export"
    <3>1. Fresh(r)'
      BY <2>1 DEF Fresh
    <3>2. QED
      BY <1>1, <2>1, <2>2, <3>1, ExporterSteps
  <2>3. CASE pc # "export"
    BY <1>2, <2>1, <2>3
  <2>4. QED
    BY <2>2, <2>3
<1>13. ASSUME NEW r \in Reqs, LogDeletion(r) PROVE ExportInv'
  BY <1>1, <1>2, <1>13, LogDeletionFacts
<1>14. ASSUME NEW r \in Reqs, DeleteUser(r) PROVE ExportInv'
  <2>1. handler[r].who \in Id
    BY <1>1, <1>14 DEF DeleteUser, Task, At
  <2>2. /\ Others(r) /\ handler'[r].pc = "idle" /\ Touch(Mine(handler[r].who))
        /\ \A c \in Conv \ Mine(handler[r].who) : convs'[c] = convs[c]
    BY <1>1, <1>14, <2>1, DeleteUserFacts
  <2>3. Watched
    BY <2>2 DEF Watched, Touch
  <2>4. QED
    BY <1>1, <2>2, <2>3, ExportKept
<1>15. ASSUME NEW r \in Reqs, DeleteRefused(r) PROVE ExportInv'
  BY <1>1, <1>2, <1>15, DeleteRefusedFacts DEF tables
<1>16. ASSUME NEW r \in Reqs, ReadConvs(r) PROVE ExportInv'
  <2>1. /\ At(r, "export") /\ Others(r) /\ handler'[r].who = handler[r].who
        /\ handler'[r].convs = Mine(handler[r].who) /\ handler'[r].msgs = handler[r].msgs
        /\ UNCHANGED <<convs, touched>>
    BY <1>1, <1>16, ReadConvsFacts DEF tables
  <2>2. Fresh(r)'
    BY <1>1, <2>1 DEF Fresh, Mine, SpokenOf
  <2>3. QED
    BY <1>1, <2>1, <2>2, ExporterSteps
<1>17. ASSUME NEW r \in Reqs, ReadMessages(r) PROVE ExportInv'
  <2>1. /\ At(r, "export") /\ Others(r) /\ handler'[r].who = handler[r].who
        /\ handler'[r].convs = handler[r].convs /\ handler'[r].msgs = SpokenOf(handler[r].who)
        /\ UNCHANGED <<convs, touched>>
    BY <1>1, <1>17, ReadMessagesFacts DEF tables
  <2>2. Fresh(r)'
    BY <1>1, <2>1 DEF Fresh, Mine, SpokenOf
  <2>3. QED
    BY <1>1, <2>1, <2>2, ExporterSteps
<1>18. ASSUME NEW r \in Reqs, Exported(r) PROVE ExportInv'
  <2>1. At(r, "export") /\ Others(r) /\ handler'[r].pc = "idle"
    BY <1>1, <1>18, ExportedFacts
  <2>2. Fresh(r)'
    BY <2>1 DEF Fresh, At
  <2>3. QED
    BY <1>1, <2>1, <2>2, ExporterSteps
<1>19. ASSUME NEW c \in Conv, Converse(c) PROVE ExportInv'
  <2>1. handler' = handler /\ Touch({c}) /\ \A d \in Conv \ {c} : convs'[d] = convs[d]
    BY <1>1, <1>19, ConverseFacts
  <2>2. Watched
    BY <2>1 DEF Watched, Touch
  <2>3. QED
    BY <1>1, <2>1, <2>2, ExportStill
<1>20. ASSUME NEW r \in Reqs, Abort(r) PROVE ExportInv'
  <2>1. /\ Others(r) /\ handler'[r].pc = "idle" /\ convs' = convs
        /\ ~At(r, "export") => touched' = touched
    BY <1>1, <1>20, AbortFacts DEF tables
  <2>2. CASE At(r, "export")
    <3>1. Fresh(r)'
      BY <2>1 DEF Fresh, At
    <3>2. QED
      BY <1>1, <2>1, <2>2, <3>1, ExporterSteps
  <2>3. CASE ~At(r, "export")
    BY <1>2, <2>1, <2>3
  <2>4. QED
    BY <2>2, <2>3
<1>21. CASE UNCHANGED vars
  BY <1>3, <1>21 DEF vars
<1>22. QED
  BY <1>4, <1>5, <1>6, <1>7, <1>8, <1>9, <1>10, <1>11, <1>12, <1>13, <1>14, <1>15, <1>16, <1>17, <1>18,
     <1>19, <1>20, <1>21 DEF Next

(* ExportConsistent (routes/account.js:61-76): of the conversations nobody   *)
(* changed while it ran, an export has messages exactly of those it has and  *)
(* that have any, in whatever order its reads were answered.                 *)
THEOREM ExportAgrees == Spec => []ExportConsistent
<1>1. ASSUME ExportInv PROVE ExportConsistent
  <2>1. SUFFICES ASSUME NEW r \in Reqs, BothRead(r), NEW c \in Conv \ touched
                 PROVE  c \in handler[r].msgs <=> c \in handler[r].convs /\ convs[c].said
    BY DEF ExportConsistent
  <2>2. Fresh(r)
    BY <1>1 DEF ExportInv
  <2>3. /\ c \in handler[r].convs <=> c \in Mine(handler[r].who)
        /\ c \in handler[r].msgs <=> c \in SpokenOf(handler[r].who)
    BY <2>1, <2>2 DEF Fresh, BothRead
  <2>4. QED
    BY <2>3 DEF Mine, SpokenOf
<1>2. QED
  BY <1>1, InitExport, StepExport, PTL DEF Spec
================================================================================

---------------------------- MODULE RefreshTokens ----------------------------
(***************************************************************************)
(* What the refresh_tokens table promises, without handlers: the life of a *)
(* token (001_init.sql:55-56).  A token is issued once, either as the      *)
(* first of its family or in the same instant in which another member of   *)
(* the family dies for it; a dead token never comes back; a family never   *)
(* takes in a token twice.                                                 *)
(***************************************************************************)
EXTENDS Integers

CONSTANT Token

VARIABLES
    status,     \* none, live, expired, revoked (kept to recognise a replay), gone
    family      \* the first token of the family

vars == <<status, family>>

Init ==
    /\ status = [t \in Token |-> "none"]
    /\ family = [t \in Token |-> t]

\* A login or a registration opens a family.
Open(t) ==
    /\ status[t] = "none"
    /\ status' = [status EXCEPT ![t] = "live"]
    /\ family' = [family EXCEPT ![t] = t]

\* A refresh exchanges a known token for a new one of the same family.
Exchange(old, new) ==
    /\ status[old] \in {"live", "expired", "revoked"}
    /\ status[new] = "none"
    /\ status' = [status EXCEPT ![new] = "live", ![old] = "revoked"]
    /\ family' = [family EXCEPT ![new] = family[old]]

\* Thirty days pass.
Expire(t) ==
    /\ status[t] = "live"
    /\ status' = [status EXCEPT ![t] = "expired"]
    /\ UNCHANGED family

\* Logout, a replay, a password change: some tokens die.
Revoke(S) ==
    /\ \A t \in S : status[t] \in {"live", "expired"}
    /\ status' = [t \in Token |-> IF t \in S THEN "revoked" ELSE status[t]]
    /\ UNCHANGED family

\* The account is deleted: the rows disappear.
Erase(S) ==
    /\ \A t \in S : status[t] # "none"
    /\ status' = [t \in Token |-> IF t \in S THEN "gone" ELSE status[t]]
    /\ UNCHANGED family

Next ==
    \/ \E t \in Token : Open(t) \/ Expire(t)
    \/ \E old, new \in Token : Exchange(old, new)
    \/ \E S \in SUBSET Token : Revoke(S) \/ Erase(S)

Spec == Init /\ [][Next]_vars
=============================================================================

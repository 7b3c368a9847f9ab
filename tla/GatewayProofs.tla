---------------------------- MODULE GatewayProofs ----------------------------
(***************************************************************************)
(* Of the gateway, for any number of requests, any ranking, any bodies and *)
(* any cooldown: which models are candidates, that a request calls no      *)
(* other and leaves none out, and that it is charged once.                 *)
(*                                                                         *)
(* The first part is about data: what the filter of the ranking keeps, by  *)
(* induction on how far it has come.  The last does not look at the        *)
(* candidates at all: until the handler is through, each charge is the     *)
(* charge of a recordUsage that failed, and the handler is through at the  *)
(* first one that does not.                                                *)
(***************************************************************************)
EXTENDS Gateway, WellFoundedInduction, TLAPS

-----------------------------------------------------------------------------
\* What a filter keeps

(* Every set of naturals that is not empty has a least element. *)
LEMMA LeastElement ==
    ASSUME NEW T \in SUBSET Nat, T # {}
    PROVE  \E n \in T : \A m \in T : n <= m
<1>1. IsWellFoundedOn(OpToRel(<, Nat), Nat)
  BY NatLessThanWellFounded
<1>2. PICK R : R = OpToRel(<, Nat)
  OBVIOUS
<1>3. PICK n \in T : \A m \in T : ~(<<m, n>> \in R)
  BY <1>1, <1>2, WFMin
<1>4. \A m \in Nat : <<m, n>> \in R <=> m < n
  BY <1>2 DEF OpToRel
<1>5. \A m \in Nat : m \in T => ~(m < n)
  BY <1>3, <1>4
<1>6. n \in Nat /\ \A m \in T : m \in Nat
  OBVIOUS
<1>7. \A m \in T : n <= m
  BY <1>5, <1>6
<1> QED
  BY <1>7

(* So a set of naturals that has 0 and every successor has them all. *)
LEMMA Induction ==
    ASSUME NEW P \in SUBSET Nat, 0 \in P, \A n \in Nat : n \in P => n + 1 \in P
    PROVE  P = Nat
<1> SUFFICES ASSUME Nat \ P # {} PROVE FALSE
  OBVIOUS
<1>1. PICK n \in Nat \ P : \A m \in Nat \ P : n <= m
  BY LeastElement
<1>2. n # 0 /\ n - 1 \in Nat
  BY <1>1
<1>3. n - 1 \in P
  BY <1>1, <1>2
<1> QED
  BY <1>1, <1>2, <1>3

\* f filters the first n elements of s.
Keeps(f, s, S, n) ==
    f = [i \in 0..n |-> IF i = 0 THEN <<>> ELSE IF s[i] \in S THEN Append(f[i - 1], s[i]) ELSE f[i - 1]]

(* There is such a function. *)
LEMMA KeptExists ==
    ASSUME NEW s, NEW S, NEW n \in Nat
    PROVE  \E f : Keeps(f, s, S, n)
<1> DEFINE P == {k \in Nat : \E f : Keeps(f, s, S, k)}
<1>1. 0 \in P
  <2>1. Keeps([i \in 0..0 |-> <<>>], s, S, 0)
    BY DEF Keeps
  <2> QED
    BY <2>1
<1>2. ASSUME NEW k \in Nat, k \in P PROVE k + 1 \in P
  <2>1. PICK f : Keeps(f, s, S, k)
    BY <1>2
  <2>2. PICK x : x = IF s[k + 1] \in S THEN Append(f[k], s[k + 1]) ELSE f[k]
    OBVIOUS
  <2>3. PICK g : g = [i \in 0..(k + 1) |-> IF i = k + 1 THEN x ELSE f[i]]
    OBVIOUS
  <2>4. DOMAIN g = 0..(k + 1) /\ g[k + 1] = x /\ \A i \in 0..k : g[i] = f[i]
    BY <2>3
  <2>5. \A i \in 0..k : f[i] = IF i = 0 THEN <<>> ELSE IF s[i] \in S THEN Append(f[i - 1], s[i]) ELSE f[i - 1]
    BY <2>1 DEF Keeps
  <2>6. \A i \in 0..(k + 1) :
           g[i] = IF i = 0 THEN <<>> ELSE IF s[i] \in S THEN Append(g[i - 1], s[i]) ELSE g[i - 1]
    <3> TAKE i \in 0..(k + 1)
    <3>1. CASE i = k + 1
      BY <2>2, <2>4, <3>1
    <3>2. CASE i = 0
      BY <2>4, <2>5, <3>2
    <3>3. CASE i \in 1..k
      <4>1. i \in 0..k /\ i - 1 \in 0..k /\ i # 0
        BY <3>3
      <4>2. g[i] = f[i] /\ g[i - 1] = f[i - 1]
        BY <2>4, <4>1
      <4>3. f[i] = IF s[i] \in S THEN Append(f[i - 1], s[i]) ELSE f[i - 1]
        BY <2>5, <4>1
      <4> QED
        BY <4>1, <4>2, <4>3
    <3> QED
      BY <3>1, <3>2, <3>3
  <2>7. Keeps(g, s, S, k + 1)
    BY <2>3, <2>6 DEF Keeps
  <2> QED
    BY <2>7
<1> HIDE DEF P
<1>3. P = Nat
  <2>1. P \in SUBSET Nat
    BY DEF P
  <2> QED
    BY <1>1, <1>2, <2>1, Induction
<1> QED
  BY <1>3 DEF P

(* So InOrder is what one of them returns for all elements. *)
LEMMA InOrderKeeps ==
    ASSUME NEW s, NEW S, Len(s) \in Nat
    PROVE  \E f : Keeps(f, s, S, Len(s)) /\ InOrder(s, S) = f[Len(s)]
<1>1. \E f : Keeps(f, s, S, Len(s))
  BY KeptExists
<1> QED
  BY <1>1 DEF InOrder, Keeps

\* t is what is left of s, a sequence of X, when the elements outside of S go:
\* those in S, and no others, in no more places than s has.
Filtered(t, s, S, X) ==
    /\ t \in Seq(X)
    /\ Len(t) <= Len(s)
    /\ (\E j \in 1..Len(s) : s[j] \notin S) => Len(t) < Len(s)
    /\ \A i \in 1..Len(t) : t[i] \in S
    /\ \A j \in 1..Len(s) : s[j] \in S => \E i \in 1..Len(t) : t[i] = s[j]

(* That is what the filter returns. *)
LEMMA InOrderFacts ==
    ASSUME NEW X, NEW s \in Seq(X), NEW S
    PROVE  Filtered(InOrder(s, S), s, S, X)
<1>1. PICK n \in Nat : n = Len(s)
  OBVIOUS
<1>2. PICK f : Keeps(f, s, S, n) /\ InOrder(s, S) = f[n]
  BY <1>1, InOrderKeeps
<1> DEFINE Sound(t, k) ==
             /\ t \in Seq(X)
             /\ Len(t) <= k
             /\ (\E j \in 1..k : s[j] \notin S) => Len(t) < k
             /\ \A i \in 1..Len(t) : t[i] \in S
             /\ \A j \in 1..k : s[j] \in S => \E i \in 1..Len(t) : t[i] = s[j]
           P == {k \in Nat : k <= n => Sound(f[k], k)}
<1>3. f[0] = <<>>
  <2>1. 0 \in 0..n
    OBVIOUS
  <2> QED
    BY <1>2, <2>1 DEF Keeps
<1>4. 0 \in P
  <2>1. Sound(<<>>, 0)
    OBVIOUS
  <2> QED
    BY <1>3, <2>1
<1>5. ASSUME NEW k \in Nat, k \in P PROVE k + 1 \in P
  <2>1. SUFFICES ASSUME k + 1 <= n PROVE Sound(f[k + 1], k + 1)
    OBVIOUS
  <2>2. Sound(f[k], k) /\ k + 1 \in 1..n /\ s[k + 1] \in X
    BY <1>1, <1>5, <2>1
  <2> HIDE DEF P
  <2>3. PICK t : t = f[k]
    OBVIOUS
  <2>4. Sound(t, k)
    BY <2>2, <2>3
  <2>5. f[k + 1] = IF s[k + 1] \in S THEN Append(t, s[k + 1]) ELSE t
    <3>1. PICK i : i = k + 1
      OBVIOUS
    <3>2. i \in 0..n /\ i # 0 /\ i - 1 = k
      BY <2>2, <3>1
    <3>3. f[i] = IF s[i] \in S THEN Append(f[i - 1], s[i]) ELSE f[i - 1]
      BY <1>2, <3>2 DEF Keeps
    <3> QED
      BY <2>3, <3>1, <3>2, <3>3
  <2>6. CASE s[k + 1] \in S
    <3>1. f[k + 1] = Append(t, s[k + 1])
      BY <2>5, <2>6
    <3>2. PICK u : u = Append(t, s[k + 1])
      OBVIOUS
    <3>3. u \in Seq(X) /\ Len(u) = Len(t) + 1 /\ u[Len(u)] = s[k + 1] /\ \A i \in 1..Len(t) : u[i] = t[i]
      BY <2>2, <2>4, <3>2
    <3>4. Len(t) \in Nat
      BY <2>4
    <3>5. \A i \in 1..Len(u) : u[i] \in S
      <4>1. \A i \in 1..Len(u) : i \in 1..Len(t) \/ i = Len(u)
        BY <3>3, <3>4
      <4> QED
        BY <2>4, <2>6, <3>3, <4>1
    <3>6. \A j \in 1..(k + 1) : s[j] \in S => \E i \in 1..Len(u) : u[i] = s[j]
      BY <2>4, <3>3, <3>4
    <3>7. (\E j \in 1..(k + 1) : s[j] \notin S) => Len(u) < k + 1
      BY <2>4, <2>6, <3>3, <3>4
    <3>8. Len(u) <= k + 1
      BY <2>4, <3>3, <3>4
    <3>9. Sound(u, k + 1)
      BY <3>3, <3>5, <3>6, <3>7, <3>8
    <3> QED
      BY <3>1, <3>2, <3>9
  <2>7. CASE s[k + 1] \notin S
    <3>1. f[k + 1] = t
      BY <2>5, <2>7
    <3>2. Sound(t, k + 1)
      <4>1. Len(t) \in Nat /\ Len(t) < k + 1
        BY <2>4
      <4>2. \A j \in 1..(k + 1) : s[j] \in S => j \in 1..k
        BY <2>7
      <4> QED
        BY <2>4, <4>1, <4>2
    <3> QED
      BY <3>1, <3>2
  <2> QED
    BY <2>6, <2>7
<1>6. P = Nat
  <2>1. P \in SUBSET Nat
    OBVIOUS
  <2> HIDE DEF P
  <2> QED
    BY <1>4, <1>5, <2>1, Induction
<1>7. Sound(f[n], n)
  BY <1>6
<1>8. Filtered(f[n], s, S, X)
  BY <1>1, <1>7 DEF Filtered
<1> QED
  BY <1>2, <1>8

-----------------------------------------------------------------------------
\* The candidates

(* The ranking keeps the healthy models of the pool, or the whole pool if none
   is healthy. *)
LEMMA RankFacts ==
    ASSUME NEW pool \in SUBSET Models
    PROVE  LET ranked == RankByStrategy(pool)
           IN  /\ ranked \in Seq(Models) /\ Len(ranked) <= Len(Ranking)
               /\ pool # Models => Len(ranked) < Len(Ranking)
               /\ \A i \in 1..Len(ranked) : Healthy(ranked[i]) \/ \A m \in pool : ~Healthy(m)
               /\ \A m \in pool : Healthy(m) => \E i \in 1..Len(ranked) : ranked[i] = m
<1> DEFINE healthy == {m \in pool : Healthy(m)}
<1>1. PICK S : S = IF healthy # {} THEN healthy ELSE pool
  OBVIOUS
<1>2. PICK ranked : ranked = InOrder(Ranking, S)
  OBVIOUS
<1>3. RankByStrategy(pool) = ranked
  BY <1>1, <1>2 DEF RankByStrategy
<1>4. Ranking \in Seq(Models) /\ \A m \in Models : \E j \in 1..Len(Ranking) : Ranking[j] = m
  BY GatewayAssumption DEF Models
<1>5. /\ ranked \in Seq(Models)
      /\ Len(ranked) <= Len(Ranking)
      /\ (\E j \in 1..Len(Ranking) : Ranking[j] \notin S) => Len(ranked) < Len(Ranking)
      /\ \A i \in 1..Len(ranked) : ranked[i] \in S
      /\ \A j \in 1..Len(Ranking) : Ranking[j] \in S => \E i \in 1..Len(ranked) : ranked[i] = Ranking[j]
  <2>1. Filtered(InOrder(Ranking, S), Ranking, S, Models)
    BY <1>4, InOrderFacts, Zenon
  <2> QED
    BY <1>2, <2>1 DEF Filtered
<1>6. S \subseteq pool /\ (\A m \in S : Healthy(m) \/ \A p \in pool : ~Healthy(p))
  BY <1>1
<1>7. \A m \in pool : Healthy(m) => m \in S
  BY <1>1
<1>8. pool # Models => Len(ranked) < Len(Ranking)
  <2>1. SUFFICES ASSUME pool # Models PROVE \E j \in 1..Len(Ranking) : Ranking[j] \notin S
    BY <1>5
  <2>2. PICK m \in Models : m \notin pool
    BY <2>1
  <2> QED
    BY <1>4, <1>6, <2>2
<1>9. \A i \in 1..Len(ranked) : Healthy(ranked[i]) \/ \A m \in pool : ~Healthy(m)
  BY <1>5, <1>6
<1>10. \A m \in pool : Healthy(m) => \E i \in 1..Len(ranked) : ranked[i] = m
  BY <1>4, <1>5, <1>7
<1> QED
  BY <1>3, <1>5, <1>8, <1>9, <1>10

(* The candidates of a request: no more than there are models, sick ones only
   if asked for or if all others are sick, and no healthy one missing. *)
LEMMA PickFacts ==
    ASSUME NEW body \in Bodies
    PROVE  LET candidates == PickCandidates(Parsed(body))
           IN  /\ candidates \in Seq(Models) /\ Len(candidates) <= Len(Ranking)
               /\ \A i \in 1..Len(candidates) :
                     \/ candidates[i] = body.model \/ Healthy(candidates[i])
                     \/ \A m \in Pool(body.vision) \ {body.model} : ~Healthy(m)
               /\ \A m \in Pool(body.vision) : Healthy(m) => \E i \in 1..Len(candidates) : candidates[i] = m
<1>1. /\ body \in [model : Models \cup {NoModel}, vision : BOOLEAN, stream : BOOLEAN, chain : Seq(Models)]
      /\ Configured \subseteq Models /\ NoModel \notin Models
  BY GatewayAssumption
<1>2. Parsed(body).model = body.model /\ Parsed(body).vision = body.vision /\ Parsed(body).chain = <<>>
  BY <1>1 DEF Parsed
<1>3. PICK pool : pool = Pool(body.vision) \ {body.model}
  OBVIOUS
<1>4. pool \in SUBSET Models /\ Pool(body.vision) \subseteq pool \cup {body.model}
  BY <1>1, <1>3 DEF Pool
<1>5. PICK ranked : ranked = RankByStrategy(pool)
  OBVIOUS
<1>6. /\ ranked \in Seq(Models) /\ Len(ranked) <= Len(Ranking)
      /\ pool # Models => Len(ranked) < Len(Ranking)
      /\ \A i \in 1..Len(ranked) : Healthy(ranked[i]) \/ \A m \in pool : ~Healthy(m)
      /\ \A m \in pool : Healthy(m) => \E i \in 1..Len(ranked) : ranked[i] = m
  BY <1>4, <1>5, RankFacts
<1>7. PICK c : c = PickCandidates(Parsed(body))
  OBVIOUS
<1>8. CASE body.model = NoModel
  <2>1. c = ranked
    BY <1>2, <1>3, <1>5, <1>7, <1>8 DEF PickCandidates
  <2>2. Pool(body.vision) \subseteq pool
    BY <1>1, <1>3, <1>8 DEF Pool
  <2> QED
    BY <1>3, <1>6, <1>7, <2>1, <2>2
<1>9. CASE body.model # NoModel
  <2>1. c = <<body.model>> \o ranked /\ body.model \in Models
    BY <1>1, <1>2, <1>3, <1>5, <1>7, <1>9 DEF PickCandidates
  <2>2. pool # Models
    BY <1>3, <2>1
  <2>3. /\ c \in Seq(Models) /\ Len(c) = Len(ranked) + 1 /\ c[1] = body.model
        /\ \A i \in 1..Len(ranked) : c[i + 1] = ranked[i]
        /\ \A i \in 2..Len(c) : c[i] = ranked[i - 1] /\ i - 1 \in 1..Len(ranked)
    BY <1>6, <2>1
  <2>4. Len(ranked) \in Nat /\ Len(Ranking) \in Nat /\ Len(c) <= Len(Ranking)
    BY <1>6, <2>2, <2>3, GatewayAssumption
  <2>5. \A i \in 1..Len(c) : c[i] = body.model \/ Healthy(c[i]) \/ \A m \in pool : ~Healthy(m)
    <3> TAKE i \in 1..Len(c)
    <3>1. CASE i = 1
      BY <2>3, <3>1
    <3>2. CASE i # 1
      BY <1>6, <2>3, <2>4, <3>2
    <3> QED
      BY <3>1, <3>2
  <2>6. \A m \in Pool(body.vision) : Healthy(m) => \E i \in 1..Len(c) : c[i] = m
    <3> SUFFICES ASSUME NEW m \in Pool(body.vision), Healthy(m) PROVE \E i \in 1..Len(c) : c[i] = m
      OBVIOUS
    <3>1. CASE m = body.model
      BY <2>3, <2>4, <3>1
    <3>2. CASE m \in pool
      <4>1. PICK i \in 1..Len(ranked) : ranked[i] = m
        BY <1>6, <3>2
      <4>2. i + 1 \in 1..Len(c) /\ c[i + 1] = m
        BY <2>3, <2>4, <4>1
      <4> QED
        BY <4>2
    <3> QED
      BY <1>4, <3>1, <3>2
  <2> QED
    BY <1>3, <1>7, <2>3, <2>4, <2>5, <2>6
<1> QED
  BY <1>8, <1>9

-----------------------------------------------------------------------------
\* Which models a request calls

Calling == {"call", "record", "open", "stream", "recordStream"}
Health == [Models -> 0..MaxClock + Cooldown]

\* Every call, charged or not, uses up a candidate, and the last recordUsage
\* comes when none is left.
Room(h) ==
    /\ Len(h.queue) <= Len(Ranking) /\ h.charges <= Len(Ranking) + 1
    /\ h.pc \in Calling => h.queue # <<>> /\ h.charges + Len(h.queue) <= Len(Ranking)
    /\ h.pc = "last" => h.queue = <<>> /\ h.charges <= Len(Ranking)

\* A candidate that was in cooldown was asked for, or nothing better was to be
\* had; and no model that was not is missing.
Chosen(h) ==
    h.pc \in Calling \cup {"last"} =>
        /\ \A i \in 1..Len(h.queue) :
               \/ h.queue[i] = h.sent.model
               \/ Pool(h.sent.vision) \ {h.sent.model} \subseteq h.cool
               \/ h.queue[i] \notin h.cool
        /\ \A m \in Pool(h.sent.vision) \ h.cool : \E i \in 1..Len(h.first) : h.first[i] = m

CandidateInv ==
    /\ failedUntil \in Health
    /\ clock \in 0..MaxClock
    /\ req \in [Reqs -> Locals]
    /\ \A r \in Reqs : Room(req[r]) /\ Chosen(req[r])

(* A request that is not in the handler is a record of its type. *)
LEMMA IdleType == Idle \in Locals /\ Room(Idle) /\ Chosen(Idle)
<1>1. <<>> \in Seq(Models) /\ Len(<<>>) = 0 /\ {} \in SUBSET Models /\ 0 \in Nat
  OBVIOUS
<1>2. PICK seqs : seqs = Seq(Models)
  OBVIOUS
<1>3. PICK sets : sets = SUBSET Models
  OBVIOUS
<1>4. <<>> \in seqs /\ {} \in sets /\ EmptyBody \in Bodies \cup {EmptyBody}
  BY <1>1, <1>2, <1>3
<1>5. Idle \in Locals
  BY <1>1, <1>2, <1>3, <1>4 DEF Idle, Locals
<1>6. Idle.pc = "idle" /\ Idle.queue = <<>> /\ Idle.charges = 0
  BY DEF Idle
<1>7. Len(Ranking) \in Nat
  BY GatewayAssumption
<1> QED
  BY <1>1, <1>5, <1>6, <1>7 DEF Room, Chosen, Calling

(* Marking a model keeps the cooldowns what they are. *)
LEMMA Marked ==
    ASSUME CandidateInv, NEW m, MarkFailure(m) \/ MarkSuccess(m)
    PROVE  failedUntil' \in Health
<1>1. failedUntil \in Health /\ clock \in 0..MaxClock /\ MaxClock \in Nat /\ Cooldown \in Nat
  BY GatewayAssumption DEF CandidateInv
<1>2. clock + Cooldown \in 0..MaxClock + Cooldown /\ 0 \in 0..MaxClock + Cooldown
  BY <1>1
<1>3. PICK e \in 0..MaxClock + Cooldown : failedUntil' = [failedUntil EXCEPT ![m] = e]
  BY <1>2 DEF MarkFailure, MarkSuccess
<1> QED
  BY <1>1, <1>3 DEF Health

(* A step of one request keeps the invariant if what it leaves of the request
   is sound. *)
LEMMA RequestMoves ==
    ASSUME CandidateInv, NEW r \in Reqs, NEW h \in Locals, Room(h), Chosen(h),
           req' = [req EXCEPT ![r] = h], failedUntil' \in Health, UNCHANGED clock
    PROVE  CandidateInv'
<1>1. req' \in [Reqs -> Locals] /\ req'[r] = h /\ \A s \in Reqs \ {r} : req'[s] = req[s]
  BY DEF CandidateInv
<1>2. \A s \in Reqs : Room(req'[s]) /\ Chosen(req'[s])
  BY <1>1 DEF CandidateInv
<1>3. clock' \in 0..MaxClock
  BY DEF CandidateInv
<1> QED
  BY <1>1, <1>2, <1>3 DEF CandidateInv, Health

(* What Left leaves is sound if the handler was still at work. *)
LEMMA LeftIsSound ==
    ASSUME CandidateInv, NEW r \in Reqs, req[r].pc \in Calling \cup {"last"},
           NEW pc \in {"done", "hung"}, NEW outcome \in {"none", "served", "failed", "broken"},
           NEW charged \in {0, 1}, NEW failed \in {0, 1}
    PROVE  LET h == Left(r, pc, outcome, charged, failed) IN h \in Locals /\ Room(h) /\ Chosen(h)
<1>1. PICK a \in Locals : a = Idle
  BY IdleType
<1>2. req[r] \in Locals /\ Room(req[r])
  BY DEF CandidateInv
<1>3. req[r].charges \in Nat /\ req[r].errors \in Nat /\ Len(Ranking) \in Nat /\ Len(req[r].queue) \in Nat
  BY <1>2, GatewayAssumption DEF Locals
<1>4. PICK c \in Nat : c = req[r].charges + charged
  BY <1>3
<1>5. PICK e \in Nat : e = req[r].errors + failed
  BY <1>3
<1>6. c <= Len(Ranking) + 1
  BY <1>2, <1>3, <1>4 DEF Room, Calling
<1>7. PICK h : h = Left(r, pc, outcome, charged, failed)
  OBVIOUS
<1>8. h = [a EXCEPT !.pc = pc, !.outcome = outcome, !.charges = c, !.errors = e]
  BY <1>1, <1>4, <1>5, <1>7 DEF Left
<1>9. h \in Locals
  BY <1>8 DEF Locals
<1>10. h.pc = pc /\ h.queue = a.queue /\ h.charges = c
  BY <1>8 DEF Locals
<1>11. a.queue = <<>> /\ Len(a.queue) = 0
  BY <1>1 DEF Idle
<1>12. Room(h)
  BY <1>3, <1>6, <1>10, <1>11 DEF Room, Calling
<1>13. Chosen(h)
  BY <1>10 DEF Chosen, Calling
<1> QED
  BY <1>7, <1>9, <1>12, <1>13

(* And so is what a step of the loop leaves, whatever it charged. *)
LEMMA NextIsSound ==
    ASSUME CandidateInv, NEW r \in Reqs, req[r].pc \in {"call", "record"},
           NEW h \in Locals, h.queue = Tail(req[r].queue), h.sent = req[r].sent,
           h.first = req[r].first, h.cool = req[r].cool,
           h.pc = IF Tail(req[r].queue) = <<>> THEN "last" ELSE "call",
           h.charges \in {req[r].charges, req[r].charges + 1}
    PROVE  Room(h) /\ Chosen(h)
<1>1. PICK q \in Seq(Models) : q = req[r].queue
  BY DEF CandidateInv, Locals
<1>2. Room(req[r]) /\ Chosen(req[r]) /\ req[r].charges \in Nat /\ Len(Ranking) \in Nat
  BY GatewayAssumption DEF CandidateInv, Locals
<1>3. q # <<>> /\ req[r].charges + Len(q) <= Len(Ranking)
  BY <1>1, <1>2 DEF Room, Calling
<1>4. /\ h.queue \in Seq(Models) /\ Len(h.queue) = Len(q) - 1
      /\ \A i \in 1..Len(h.queue) : h.queue[i] = q[i + 1] /\ i + 1 \in 1..Len(q)
  BY <1>1, <1>3
<1>5. Len(q) \in Nat /\ Len(h.queue) \in Nat
  BY <1>1, <1>4
<1>6. h.charges \in Nat /\ h.charges + Len(h.queue) <= Len(Ranking)
  <2>1. PICK n \in Nat : n = req[r].charges
    BY <1>2
  <2>2. h.charges = n \/ h.charges = n + 1
    BY <2>1
  <2>3. n + Len(q) <= Len(Ranking)
    BY <1>3, <2>1
  <2>4. PICK k \in Nat : k = Len(h.queue)
    BY <1>5
  <2>5. k = Len(q) - 1
    BY <1>4, <2>4
  <2>6. PICK l \in Nat : l = Len(q)
    BY <1>5
  <2>7. PICK top \in Nat : top = Len(Ranking)
    BY <1>2
  <2>8. n + l <= top /\ k = l - 1
    BY <2>3, <2>5, <2>6, <2>7
  <2>9. n + k <= top /\ n + 1 + k <= top /\ n + 1 \in Nat
    BY <2>8
  <2>10. h.charges \in Nat /\ h.charges + k <= top
    BY <2>2, <2>9
  <2> QED
    BY <2>4, <2>7, <2>10
<1>7. h.pc = (IF h.queue = <<>> THEN "last" ELSE "call")
  OBVIOUS
<1>8. Len(h.queue) <= Len(Ranking) /\ h.charges <= Len(Ranking) + 1 /\ h.charges <= Len(Ranking)
  BY <1>2, <1>5, <1>6
<1>9. Room(h)
  BY <1>6, <1>7, <1>8 DEF Room, Calling
<1>10. /\ \A i \in 1..Len(q) :
              q[i] = h.sent.model \/ Pool(h.sent.vision) \ {h.sent.model} \subseteq h.cool \/ q[i] \notin h.cool
       /\ \A m \in Pool(h.sent.vision) \ h.cool : \E i \in 1..Len(h.first) : h.first[i] = m
  BY <1>1, <1>2 DEF Chosen, Calling
<1>11. \A i \in 1..Len(h.queue) :
          \/ h.queue[i] = h.sent.model
          \/ Pool(h.sent.vision) \ {h.sent.model} \subseteq h.cool
          \/ h.queue[i] \notin h.cool
  BY <1>4, <1>10
<1>12. Chosen(h)
  BY <1>10, <1>11 DEF Chosen
<1> QED
  BY <1>9, <1>12

(* A request that only moves on keeps its candidates. *)
LEMMA OnIsSound ==
    ASSUME CandidateInv, NEW r \in Reqs, req[r].pc \in Calling, NEW pc \in Calling,
           req' = [req EXCEPT ![r].pc = pc], failedUntil' \in Health, UNCHANGED clock
    PROVE  CandidateInv'
<1>1. PICK a \in Locals : a = req[r] /\ Room(a) /\ Chosen(a)
  BY DEF CandidateInv
<1>2. PICK h : h = [a EXCEPT !.pc = pc]
  OBVIOUS
<1>3. h \in Locals
  BY <1>2 DEF Locals, Calling
<1>4. /\ h.pc = pc /\ h.queue = a.queue /\ h.charges = a.charges
      /\ h.sent = a.sent /\ h.first = a.first /\ h.cool = a.cool
  BY <1>2 DEF Locals
<1>5. a.pc \in Calling /\ pc # "last"
  BY <1>1 DEF Calling
<1>6. Room(h)
  BY <1>1, <1>4, <1>5 DEF Room
<1>7. Chosen(h)
  BY <1>1, <1>4, <1>5 DEF Chosen
<1>8. req' = [req EXCEPT ![r] = h]
  BY <1>1, <1>2
<1> QED
  BY <1>3, <1>6, <1>7, <1>8, RequestMoves

(* The candidates of a new request are sound. *)
LEMMA SubmitKeeps ==
    ASSUME CandidateInv, NEW r \in Reqs, NEW body \in Bodies, Submit(r, body)
    PROVE  CandidateInv'
<1>1. PICK c : c = PickCandidates(Parsed(body))
  OBVIOUS
<1>2. /\ c \in Seq(Models) /\ Len(c) <= Len(Ranking)
      /\ \A i \in 1..Len(c) :
            \/ c[i] = body.model \/ Healthy(c[i])
            \/ \A m \in Pool(body.vision) \ {body.model} : ~Healthy(m)
      /\ \A m \in Pool(body.vision) : Healthy(m) => \E i \in 1..Len(c) : c[i] = m
  BY <1>1, PickFacts
<1>3. PICK cool \in SUBSET Models : cool = {m \in Models : ~Healthy(m)}
  OBVIOUS
<1>4. PICK pc \in {"done", "open", "call"} :
         pc = (IF c = <<>> THEN "done" ELSE IF body.stream THEN "open" ELSE "call")
  OBVIOUS
<1>5. PICK a \in Locals : a = Idle
  BY IdleType
<1>6. PICK h : h = [a EXCEPT !.pc = pc, !.queue = c, !.sent = body, !.first = c, !.cool = cool]
  OBVIOUS
<1>7. req' = [req EXCEPT ![r] = h] /\ UNCHANGED <<failedUntil, clock>>
  BY <1>1, <1>3, <1>4, <1>5, <1>6 DEF Submit
<1>8. body \in Bodies \cup {EmptyBody}
  OBVIOUS
<1>9. h \in Locals
  BY <1>2, <1>6, <1>8 DEF Locals
<1>10. /\ h.pc = pc /\ h.queue = c /\ h.sent = body /\ h.first = c /\ h.cool = cool /\ h.charges = a.charges
  BY <1>6 DEF Locals
<1>11. a.charges = 0
  BY <1>5 DEF Idle
<1>12. Len(c) \in Nat /\ Len(Ranking) \in Nat
  BY <1>2, GatewayAssumption
<1>13. pc # "last" /\ (pc \in Calling => c # <<>>)
  BY <1>4 DEF Calling
<1>14. Room(h)
  BY <1>2, <1>10, <1>11, <1>12, <1>13 DEF Room
<1>15. Pool(body.vision) \subseteq Models
  BY GatewayAssumption DEF Pool
<1>16. \A m \in Models : m \in cool <=> ~Healthy(m)
  BY <1>3
<1>17. \A i \in 1..Len(c) :
          c[i] = body.model \/ Pool(body.vision) \ {body.model} \subseteq cool \/ c[i] \notin cool
  <2> TAKE i \in 1..Len(c)
  <2>1. c[i] \in Models
    BY <1>2
  <2> QED
    BY <1>2, <1>15, <1>16, <2>1
<1>18. \A m \in Pool(body.vision) \ cool : \E i \in 1..Len(c) : c[i] = m
  BY <1>2, <1>15, <1>16
<1>19. Chosen(h)
  BY <1>10, <1>17, <1>18 DEF Chosen
<1>20. failedUntil' \in Health
  BY <1>7 DEF CandidateInv
<1> QED
  BY <1>7, <1>9, <1>14, <1>19, <1>20, RequestMoves

(* A call that fails, and a recordUsage that does, go on with the loop. *)
LEMMA LoopKeeps ==
    ASSUME CandidateInv, NEW r \in Reqs,
           CallFails(r) \/ \E charged \in {0, 1} : RecordFails(r, charged)
    PROVE  CandidateInv'
<1>1. PICK a \in Locals : a = req[r]
  BY DEF CandidateInv
<1>2. a.queue \in Seq(Models) /\ a.charges \in Nat /\ a.errors \in Nat
  BY DEF Locals
<1>3. PICK pc \in {"last", "call"} : pc = (IF Tail(a.queue) = <<>> THEN "last" ELSE "call")
  OBVIOUS
<1>4. PICK b : b = [a EXCEPT !.queue = Tail(@), !.pc = pc]
  OBVIOUS
<1>5. NextCandidate(r) = b
  BY <1>1, <1>3, <1>4 DEF NextCandidate
<1>6. a.pc \in {"call", "record"} => Tail(a.queue) \in Seq(Models)
  <2>1. a.pc \in {"call", "record"} => a.queue # <<>>
    BY <1>1 DEF CandidateInv, Room, Calling
  <2> QED
    BY <1>2, <2>1
<1>7. a.pc \in {"call", "record"} =>
        /\ b \in Locals /\ b.queue = Tail(a.queue) /\ b.pc = pc /\ b.sent = a.sent
        /\ b.first = a.first /\ b.cool = a.cool /\ b.charges = a.charges
  BY <1>4, <1>6 DEF Locals
<1>8. UNCHANGED clock /\ failedUntil' \in Health
  BY Marked DEF CallFails, RecordFails
<1>9. CASE CallFails(r)
  <2>1. a.pc \in {"call", "record"} /\ req' = [req EXCEPT ![r] = b]
    BY <1>1, <1>5, <1>9 DEF CallFails, At
  <2>2. b \in Locals /\ Room(b) /\ Chosen(b)
    BY <1>1, <1>3, <1>7, <2>1, NextIsSound
  <2> QED
    BY <1>8, <2>1, <2>2, RequestMoves
<1>10. ASSUME NEW charged \in {0, 1}, RecordFails(r, charged) PROVE CandidateInv'
  <2>1. /\ a.pc \in {"call", "record"}
        /\ req' = [req EXCEPT ![r] = [b EXCEPT !.charges = @ + charged, !.errors = @ + 1]]
    BY <1>1, <1>5, <1>10 DEF RecordFails, At
  <2>2. b \in Locals /\ b.charges = a.charges /\ b.errors \in Nat
    BY <1>7, <2>1 DEF Locals
  <2>3. PICK n \in Nat : n = a.charges + charged
    BY <1>2
  <2>4. PICK e \in Nat : e = b.errors + 1
    BY <2>2
  <2>5. PICK h : h = [b EXCEPT !.charges = n, !.errors = e]
    OBVIOUS
  <2>6. req' = [req EXCEPT ![r] = h]
    BY <2>1, <2>2, <2>3, <2>4, <2>5
  <2>7. h \in Locals
    BY <2>2, <2>5 DEF Locals
  <2>8. /\ h.queue = b.queue /\ h.pc = b.pc /\ h.sent = b.sent /\ h.first = b.first /\ h.cool = b.cool
        /\ h.charges = n
    BY <2>2, <2>5 DEF Locals
  <2>9. n \in {a.charges, a.charges + 1}
    BY <1>2, <2>3
  <2>10. Room(h) /\ Chosen(h)
    BY <1>1, <1>3, <1>7, <2>1, <2>7, <2>8, <2>9, NextIsSound
  <2> QED
    BY <1>8, <2>6, <2>7, <2>10, RequestMoves
<1> QED
  BY <1>9, <1>10

LEMMA CandidateInit == Init => CandidateInv
<1> SUFFICES ASSUME Init PROVE CandidateInv
  OBVIOUS
<1>1. MaxClock \in Nat \ {0} /\ Cooldown \in Nat \ {0}
  BY GatewayAssumption
<1>2. 0 \in 0..MaxClock + Cooldown /\ 1 \in 0..MaxClock
  BY <1>1
<1>3. failedUntil \in Health
  BY <1>2 DEF Init, Health
<1>4. \A r \in Reqs : req[r] \in Locals /\ Room(req[r]) /\ Chosen(req[r])
  BY IdleType DEF Init
<1>5. req \in [Reqs -> Locals]
  BY IdleType DEF Init
<1> QED
  BY <1>2, <1>3, <1>4, <1>5 DEF Init, CandidateInv

LEMMA CandidateNext == CandidateInv /\ [Next]_vars => CandidateInv'
<1> SUFFICES ASSUME CandidateInv, [Next]_vars PROVE CandidateInv'
  OBVIOUS
<1>1. CASE UNCHANGED vars
  BY <1>1 DEF vars, CandidateInv, Health
<1>2. CASE Tick
  <2>1. MaxClock \in Nat /\ clock \in 0..MaxClock /\ clock < MaxClock /\ clock' = clock + 1
    BY <1>2, GatewayAssumption DEF Tick, CandidateInv
  <2>2. clock' \in 0..MaxClock
    BY <2>1
  <2> QED
    BY <1>2, <2>2 DEF Tick, CandidateInv, Health
<1>3. ASSUME NEW r \in Reqs, Serve(r) PROVE CandidateInv'
  <2>1. failedUntil \in Health
    BY DEF CandidateInv
  <2>2. \A m : MarkFailure(m) \/ MarkSuccess(m) => failedUntil' \in Health
    BY Marked
  <2>3. CASE CallOk(r) \/ StreamOpens(r) \/ StreamEnds(r)
    <3>1. req[r].pc \in Calling
      BY <2>3 DEF CallOk, StreamOpens, StreamEnds, At, Calling
    <3>2. PICK pc \in Calling : req' = [req EXCEPT ![r].pc = pc]
      BY <2>3 DEF CallOk, StreamOpens, StreamEnds, Calling
    <3>3. failedUntil' \in Health /\ UNCHANGED clock
      BY <2>1, <2>2, <2>3 DEF CallOk, StreamOpens, StreamEnds
    <3> QED
      BY <3>1, <3>2, <3>3, OnIsSound
  <2>4. ASSUME NEW pc \in {"done", "hung"}, NEW outcome \in {"none", "served", "failed", "broken"},
               NEW charged \in {0, 1}, NEW failed \in {0, 1}, req[r].pc \in Calling \cup {"last"},
               req' = [req EXCEPT ![r] = Left(r, pc, outcome, charged, failed)],
               failedUntil' \in Health, UNCHANGED clock
        PROVE  CandidateInv'
    <3>1. PICK h : h = Left(r, pc, outcome, charged, failed)
      OBVIOUS
    <3>2. h \in Locals /\ Room(h) /\ Chosen(h)
      BY <2>4, <3>1, LeftIsSound
    <3> QED
      BY <2>4, <3>1, <3>2, RequestMoves
  <2>5. CASE RecordOk(r)
    BY <2>1, <2>4, <2>5 DEF RecordOk, At, Calling
  <2>6. CASE LastRecordOk(r)
    BY <2>1, <2>4, <2>6 DEF LastRecordOk, At, Calling
  <2>7. CASE StreamRecordOk(r)
    BY <2>1, <2>4, <2>7 DEF StreamRecordOk, At, Calling
  <2>8. ASSUME NEW charged \in {0, 1}, LastRecordFails(r, charged) PROVE CandidateInv'
    BY <2>1, <2>4, <2>8 DEF LastRecordFails, At, Calling
  <2>9. ASSUME NEW charged \in {0, 1}, StreamRecordFails(r, charged) PROVE CandidateInv'
    BY <2>1, <2>4, <2>9 DEF StreamRecordFails, At, Calling
  <2>10. CASE StreamBreaks(r)
    BY <2>2, <2>4, <2>10 DEF StreamBreaks, At, Calling
  <2>11. CASE ClientLeaves(r)
    BY <2>1, <2>4, <2>11 DEF ClientLeaves, At, Calling
  <2>12. CASE Answered(r)
    BY <2>1, <2>12, IdleType, RequestMoves DEF Answered
  <2>13. ASSUME NEW body \in Bodies, Submit(r, body) PROVE CandidateInv'
    BY <2>13, SubmitKeeps
  <2>14. CASE CallFails(r) \/ \E charged \in {0, 1} : RecordFails(r, charged)
    BY <2>14, LoopKeeps
  <2> QED
    BY <1>3, <2>3, <2>5, <2>6, <2>7, <2>8, <2>9, <2>10, <2>11, <2>12, <2>13, <2>14 DEF Serve
<1> QED
  BY <1>1, <1>2, <1>3 DEF Next

(* The candidates of every request in flight are sound in every reachable
   state. *)
THEOREM Candidates == Spec => []CandidateInv
BY CandidateInit, CandidateNext, PTL DEF Spec

(* The locals of the handler and the health of the models have their types; the
   loop (routes/gateway.js:76-80) has a candidate at every call, never more
   candidates than there are models, and never charges more than each of them
   and the last recordUsage once. *)
THEOREM TypeCorrect == Spec => []TypeOK
<1>1. CandidateInv => TypeOK
  BY DEF CandidateInv, Room, Calling, Health, TypeOK
<1> QED
  BY <1>1, Candidates, PTL

(* A request calls a model in cooldown only if it asked for it, if nothing
   else was healthy, or if the model got sick after the request arrived
   (lib/gateway/router.js:27-28). *)
THEOREM CooldownsRespected == Spec => []CooldownRespected
<1>1. ASSUME CandidateInv, NEW r \in Reqs, req[r].pc \in {"call", "open"}
      PROVE  LET m == Head(req[r].queue)
             IN  m = req[r].sent.model \/ Usable(r) \subseteq req[r].cool \/ m \notin req[r].cool
  <2>1. PICK q \in Seq(Models) : q = req[r].queue
    BY <1>1 DEF CandidateInv, Locals
  <2>2. q # <<>> /\ Chosen(req[r]) /\ req[r].pc \in Calling
    BY <1>1, <2>1 DEF CandidateInv, Room, Calling
  <2>3. 1 \in 1..Len(q) /\ Head(q) = q[1]
    BY <2>1, <2>2
  <2> QED
    BY <2>1, <2>2, <2>3 DEF Chosen, Usable
<1>2. CandidateInv => CooldownRespected
  BY <1>1 DEF CooldownRespected
<1> QED
  BY <1>2, Candidates, PTL

(* When the loop is through (routes/gateway.js:108), every model that is usable
   and was not in cooldown when the request arrived has been called. *)
THEOREM NobodyLeftOut == Spec => []NoCandidateLeftOut
<1>1. ASSUME CandidateInv, NEW r \in Reqs, At(r, "last")
      PROVE  Pool(req[r].sent.vision) \ req[r].cool \subseteq {Given(r)[i] : i \in 1..Len(Given(r))}
  <2>1. PICK f \in Seq(Models) : f = req[r].first
    BY <1>1 DEF CandidateInv, Locals
  <2>2. req[r].queue = <<>> /\ Chosen(req[r]) /\ req[r].pc = "last"
    BY <1>1 DEF CandidateInv, Room, At
  <2>3. Len(f) \in Nat /\ Len(<<>>) = 0
    BY <2>1
  <2>4. Given(r) = SubSeq(f, 1, Len(f))
    BY <2>1, <2>2, <2>3 DEF Given
  <2>5. Given(r) = f
    BY <2>1, <2>4
  <2>6. \A m \in Pool(req[r].sent.vision) \ req[r].cool : \E i \in 1..Len(f) : f[i] = m
    BY <2>1, <2>2 DEF Chosen
  <2> QED
    BY <2>5, <2>6
<1>2. CandidateInv => NoCandidateLeftOut
  BY <1>1 DEF NoCandidateLeftOut
<1> QED
  BY <1>2, Candidates, PTL

-----------------------------------------------------------------------------
\* The account of a request

Fields == {"pc", "queue", "outcome", "sent", "first", "cool", "charges", "errors"}

\* What the account of a request says at each place of the handler.
Account(r) ==
    /\ req[r].charges \in Nat /\ req[r].errors \in Nat
    /\ req[r].pc \notin {"done", "hung"} => req[r].outcome = "none" /\ req[r].charges <= req[r].errors
    /\ req[r].pc \in {"done", "hung"} =>
           LET owed == IF req[r].outcome \in {"served", "failed"} THEN 1 ELSE 0
           IN  owed <= req[r].charges /\ req[r].charges <= owed + req[r].errors

IInv ==
    /\ DOMAIN req = Reqs
    /\ \A r \in Reqs : DOMAIN req[r] = Fields
    /\ \A r \in Reqs : Account(r)

\* What every action of a request does to its account: it moves on with the
\* charges and failures it adds, and touches no other request.
Moves(r, pc, outcome, charged, failed) ==
    /\ DOMAIN req' = Reqs
    /\ \A s \in Reqs \ {r} : req'[s] = req[s]
    /\ DOMAIN req'[r] = Fields
    /\ req'[r].pc = pc /\ req'[r].outcome = outcome
    /\ req'[r].charges = req[r].charges + charged /\ req'[r].errors = req[r].errors + failed

-----------------------------------------------------------------------------

(* A request that moves on without an answer, and is charged no more often
   than recordUsage fails, keeps its account in order. *)
LEMMA KeepsGoing ==
    ASSUME IInv, NEW r \in Reqs, NEW pc, NEW charged \in {0, 1}, NEW failed \in {0, 1}, charged <= failed,
           req[r].pc \notin {"done", "hung"}, pc # "done", Moves(r, pc, req[r].outcome, charged, failed)
    PROVE  IInv'
<1>1. Account(r)'
  BY DEF IInv, Account, Moves
<1>2. \A s \in Reqs \ {r} : Account(s)'
  BY DEF IInv, Account, Moves
<1>. QED
  BY <1>1, <1>2 DEF IInv, Moves

(* A request that is answered or left hanging keeps its account in order if
   it is charged what it owes, or what the failing recordUsage charged. *)
LEMMA Ends ==
    ASSUME IInv, NEW r \in Reqs, NEW pc \in {"done", "hung"}, NEW outcome,
           NEW charged \in {0, 1}, NEW failed \in {0, 1},
           req[r].pc \notin {"done", "hung"}, Moves(r, pc, outcome, charged, failed),
           IF outcome \in {"served", "failed"} THEN charged = 1 ELSE charged <= failed
    PROVE  IInv'
<1>1. Account(r)'
  BY DEF IInv, Account, Moves
<1>2. \A s \in Reqs \ {r} : Account(s)'
  BY DEF IInv, Account, Moves
<1>. QED
  BY <1>1, <1>2 DEF IInv, Moves

(* Left is a move of its request. *)
LEMMA LeftMoves ==
    ASSUME IInv, NEW r \in Reqs, NEW pc, NEW outcome, NEW charged, NEW failed,
           req' = [req EXCEPT ![r] = Left(r, pc, outcome, charged, failed)]
    PROVE  Moves(r, pc, outcome, charged, failed)
<1>1. /\ req'[r] = Left(r, pc, outcome, charged, failed)
      /\ DOMAIN req' = Reqs /\ \A s \in Reqs \ {r} : req'[s] = req[s]
  BY DEF IInv
<1>. QED
  BY <1>1 DEF Left, Idle, Moves, Fields

(* A step of the loop, too. *)
LEMMA NextCandidateMoves ==
    ASSUME IInv, NEW r \in Reqs,
           req' = [req EXCEPT ![r] = NextCandidate(r)]
    PROVE  Moves(r, req'[r].pc, req[r].outcome, 0, 0) /\ req'[r].pc \in {"last", "call"}
<1>1. req'[r] = NextCandidate(r) /\ DOMAIN req' = Reqs /\ \A s \in Reqs \ {r} : req'[s] = req[s]
  BY DEF IInv
<1>2. DOMAIN req[r] = Fields /\ req[r].charges \in Nat /\ req[r].errors \in Nat
  BY DEF IInv, Account
<1>. QED
  BY <1>1, <1>2 DEF NextCandidate, Moves, Fields

-----------------------------------------------------------------------------

LEMMA InitInv == Init => IInv
BY DEF Init, Idle, IInv, Account, Fields

LEMMA NextInv == IInv /\ [Next]_vars => IInv'
<1>. SUFFICES ASSUME IInv, [Next]_vars PROVE IInv'
  OBVIOUS
<1>1. CASE UNCHANGED vars
  BY <1>1 DEF vars, IInv, Account
<1>2. CASE Tick
  BY <1>2 DEF Tick, IInv, Account
<1>3. ASSUME NEW r \in Reqs, Serve(r) PROVE IInv'
  <2>0. DOMAIN req = Reqs /\ DOMAIN req[r] = Fields /\ req[r].charges \in Nat /\ req[r].errors \in Nat
    BY DEF IInv, Account
  <2>1. ASSUME NEW body \in Bodies, Submit(r, body) PROVE IInv'
    <3>. DEFINE candidates == PickCandidates(Parsed(body))
                pc == IF candidates = <<>> THEN "done" ELSE IF body.stream THEN "open" ELSE "call"
    <3>1. req[r].pc = "idle" /\ DOMAIN req' = Reqs /\ \A s \in Reqs \ {r} : req'[s] = req[s]
      BY <2>0, <2>1 DEF Submit, At
    <3>2. req'[r] = [Idle EXCEPT !.pc = pc, !.queue = candidates, !.sent = body, !.first = candidates,
                                 !.cool = {m \in Models : ~Healthy(m)}]
      BY <2>0, <2>1 DEF Submit
    <3>3. /\ DOMAIN req'[r] = Fields /\ req'[r].outcome = "none"
          /\ req'[r].charges = 0 /\ req'[r].errors = 0
      BY <3>2 DEF Idle, Fields
    <3>4. Account(r)'
      BY <3>3 DEF Account
    <3>5. \A s \in Reqs \ {r} : Account(s)'
      BY <3>1 DEF IInv, Account
    <3>. QED
      BY <3>1, <3>3, <3>4, <3>5 DEF IInv
  <2>2. CASE CallOk(r)
    <3>1. req[r].pc = "call" /\ Moves(r, "record", req[r].outcome, 0, 0)
      BY <2>0, <2>2 DEF CallOk, At, Moves, Fields, IInv
    <3>. QED
      BY <3>1, KeepsGoing
  <2>3. CASE CallFails(r)
    <3>1. req[r].pc = "call" /\ Moves(r, req'[r].pc, req[r].outcome, 0, 0) /\ req'[r].pc \in {"last", "call"}
      BY <2>3, NextCandidateMoves DEF CallFails, At
    <3>2. PICK pc \in {"last", "call"} : req'[r].pc = pc
      BY <3>1
    <3>3. Moves(r, pc, req[r].outcome, 0, 0)
      BY <3>1, <3>2
    <3>4. 0 <= 0 /\ 0 \in {0, 1}
      OBVIOUS
    <3>5. req[r].pc \notin {"done", "hung"} /\ pc # "done"
      BY <3>1
    <3>. QED
      BY <3>3, <3>4, <3>5, KeepsGoing, Zenon
  <2>4. CASE RecordOk(r)
    <3>1. req[r].pc = "record" /\ Moves(r, "done", "served", 1, 0)
      BY <2>4, LeftMoves DEF RecordOk, At
    <3>. QED
      BY <3>1, Ends
  <2>5. ASSUME NEW charged \in {0, 1}, RecordFails(r, charged) PROVE IInv'
    <3>1. /\ req[r].pc = "record" /\ DOMAIN req' = Reqs /\ \A s \in Reqs \ {r} : req'[s] = req[s]
          /\ req'[r] = [NextCandidate(r) EXCEPT !.charges = @ + charged, !.errors = @ + 1]
      BY <2>0, <2>5 DEF RecordFails, At
    <3>2. Moves(r, req'[r].pc, req[r].outcome, charged, 1) /\ req'[r].pc \in {"last", "call"}
      BY <2>0, <3>1 DEF NextCandidate, Moves, Fields
    <3>3. PICK pc \in {"last", "call"} : req'[r].pc = pc
      BY <3>2
    <3>4. Moves(r, pc, req[r].outcome, charged, 1)
      BY <3>2, <3>3
    <3>5. charged <= 1 /\ 1 \in {0, 1}
      OBVIOUS
    <3>6. req[r].pc \notin {"done", "hung"} /\ pc # "done"
      BY <3>1
    <3>. QED
      BY <3>4, <3>5, <3>6, KeepsGoing, Zenon
  <2>6. CASE LastRecordOk(r)
    <3>1. req[r].pc = "last" /\ Moves(r, "done", "failed", 1, 0)
      BY <2>6, LeftMoves DEF LastRecordOk, At
    <3>. QED
      BY <3>1, Ends
  <2>7. ASSUME NEW charged \in {0, 1}, LastRecordFails(r, charged) PROVE IInv'
    <3>1. req[r].pc = "last" /\ Moves(r, "hung", "none", charged, 1)
      BY <2>7, LeftMoves DEF LastRecordFails, At
    <3>. QED
      BY <3>1, Ends
  <2>8. CASE StreamOpens(r)
    <3>1. req[r].pc = "open" /\ Moves(r, "stream", req[r].outcome, 0, 0)
      BY <2>0, <2>8 DEF StreamOpens, At, Moves, Fields, IInv
    <3>. QED
      BY <3>1, KeepsGoing
  <2>9. CASE StreamBreaks(r) \/ ClientLeaves(r)
    <3>1. req[r].pc \in {"open", "stream"} /\ Moves(r, "done", "broken", 0, 0)
      BY <2>9, LeftMoves DEF StreamBreaks, ClientLeaves, At
    <3>. QED
      BY <3>1, Ends
  <2>10. CASE StreamEnds(r)
    <3>1. req[r].pc = "stream" /\ Moves(r, "recordStream", req[r].outcome, 0, 0)
      BY <2>0, <2>10 DEF StreamEnds, At, Moves, Fields, IInv
    <3>. QED
      BY <3>1, KeepsGoing
  <2>11. CASE StreamRecordOk(r)
    <3>1. req[r].pc = "recordStream" /\ Moves(r, "done", "served", 1, 0)
      BY <2>11, LeftMoves DEF StreamRecordOk, At
    <3>. QED
      BY <3>1, Ends
  <2>12. ASSUME NEW charged \in {0, 1}, StreamRecordFails(r, charged) PROVE IInv'
    <3>1. req[r].pc = "recordStream" /\ Moves(r, "hung", "none", charged, 1)
      BY <2>12, LeftMoves DEF StreamRecordFails, At
    <3>. QED
      BY <3>1, Ends
  <2>13. CASE Answered(r)
    <3>1. req'[r] = Idle /\ DOMAIN req' = Reqs /\ \A s \in Reqs \ {r} : req'[s] = req[s]
      BY <2>0, <2>13 DEF Answered
    <3>2. \A s \in Reqs \ {r} : Account(s)'
      BY <3>1 DEF IInv, Account
    <3>3. Account(r)' /\ DOMAIN req'[r] = Fields
      BY <3>1 DEF Account, Idle, Fields
    <3>. QED
      BY <3>1, <3>2, <3>3 DEF IInv
  <2>. QED
    BY <1>3, <2>1, <2>2, <2>3, <2>4, <2>5, <2>6, <2>7, <2>8, <2>9, <2>10, <2>11, <2>12, <2>13 DEF Serve
<1>. QED
  BY <1>1, <1>2, <1>3 DEF Next

(* The account of every request is in order in every reachable state. *)
THEOREM Inductive == Spec => []IInv
BY InitInv, NextInv, PTL DEF Spec

(* A chat completion is charged once when it is served or fails, not at all
   when its stream breaks, and every charge more or less than that is one
   failure of recordUsage (routes/gateway.js:99, 108, 172). *)
THEOREM Once == Spec => []ChargedOnce
<1>1. IInv => ChargedOnce
  BY DEF IInv, Account, ChargedOnce, At
<1>. QED
  BY <1>1, Inductive, PTL
=============================================================================

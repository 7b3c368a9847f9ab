----------------------------- MODULE BillingProofs -----------------------------
(***************************************************************************)
(* Of billing, for any number of requests, plans, customers, orders and    *)
(* events: an event answered is an event written, no plan without payment, *)
(* and, with the events applied in order, the plan of the one purchase.    *)
(***************************************************************************)
EXTENDS Billing, FiniteSetTheorems, SequenceTheorems, TLAPS

-----------------------------------------------------------------------------
\* Types

\* What a request in flight holds is what its next step needs.
TaskSound(t) ==
    /\ At(t, "apply") => tasks[t].event \in 1..Len(log) /\ PlanOf(log[tasks[t].event]) \in Plans
    /\ At(t, "saveCustomer") \/ At(t, "session") => tasks[t].id \in 1..MaxCustomers
    /\ At(t, "saveUser") => tasks[t].id \in 1..MaxPayUsers
    /\ At(t, "saveOrder") => tasks[t].id \in 1..Len(paymenter.orders)
    /\ At(t, "idle") \/ At(t, "apply") \/ tasks[t].plan \in PaidPlans

TypeInv ==
    /\ TypeOK
    /\ \A t \in Tasks : TaskSound(t)
    /\ IsFiniteSet(stripe.sessions)
    /\ Cardinality(stripe.sessions) + Len(stripe.subs) <= MaxSubs
    /\ hist.applied \subseteq 1..Len(log)
    /\ hist.missed \subseteq 1..Len(log)
    /\ \A i \in 1..Len(log) : log[i].kind = "completed" => log[i].plan \in PaidPlans

(* Events and orders are only added, so that a step of one request leaves what
   the others hold as sound as it was. *)
LEMMA OthersSound ==
    ASSUME TypeInv, NEW t \in Tasks, TaskSound(t)',
           \A u \in Tasks \ {t} : tasks'[u] = tasks[u],
           1..Len(log) \subseteq 1..Len(log'), \A i \in 1..Len(log) : log'[i] = log[i],
           1..Len(paymenter.orders) \subseteq 1..Len(paymenter'.orders)
    PROVE  \A u \in Tasks : TaskSound(u)'
  BY DEF TypeInv, TaskSound, At

(* The step of a checkout that only awaits. *)
LEMMA AwaitTypes ==
    ASSUME TypeInv, NEW t \in Tasks, tasks' \in [Tasks -> Locals],
           \A u \in Tasks \ {t} : tasks'[u] = tasks[u], TaskSound(t)',
           UNCHANGED <<user, stripe, paymenter, log, sends, hist>>
    PROVE  TypeInv'
<1>1. \A u \in Tasks : TaskSound(u)'
  BY OthersSound
<1>2. TypeOK'
  BY DEF TypeInv, TypeOK
<1>3. QED
  BY <1>1, <1>2 DEF TypeInv

(* The row, as every step that reads it finds it. *)
LEMMA RowFacts ==
    ASSUME TypeInv
    PROVE  /\ user.plan \in Plans
           /\ user.provider \in {"none", "stripe", "paymenter"}
           /\ user.customer \in 0..MaxCustomers
           /\ user.payUser \in 0..MaxPayUsers
           /\ user.order \in 0..MaxOrders
  BY DEF TypeInv, TypeOK, UserRow

(* The records, as every step that changes a field of them finds them. *)
LEMMA Shapes ==
    ASSUME TypeInv
    PROVE  /\ user \in UserRow /\ hist \in History
           /\ stripe \in StripeState /\ paymenter \in PaymenterState
  BY DEF TypeInv, TypeOK

(* The sequences, as every step that appends to them finds them. *)
LEMMA LogFacts ==
    ASSUME TypeInv
    PROVE  /\ log \in Seq(Event) /\ Len(log) \in Nat /\ Len(log) <= MaxEvents
           /\ sends \in Seq([n : 0..MaxSends, acked : BOOLEAN]) /\ Len(sends) = Len(log)
           /\ stripe.subs \in Seq(Subscription) /\ Len(stripe.subs) \in Nat
           /\ paymenter.orders \in Seq(Order) /\ Len(paymenter.orders) \in Nat
           /\ Len(paymenter.orders) <= MaxOrders
           /\ {MaxCustomers, MaxPayUsers, MaxSubs, MaxOrders, MaxEvents, MaxSends} \subseteq Nat
  BY BillingAssumption, LenProperties DEF TypeInv, TypeOK, StripeState, PaymenterState

LEMMA TaskFacts ==
    ASSUME TypeInv, NEW t \in Tasks
    PROVE  /\ tasks \in [Tasks -> Locals] /\ tasks[t] \in Locals
           /\ tasks[t].plan \in Plans
           /\ tasks[t].id \in Nat
           /\ tasks[t].event \in 0..MaxEvents
           /\ TaskSound(t)
  BY DEF TypeInv, TypeOK, Locals

LEMMA IdleTyped == Idle \in Locals
  BY BillingAssumption DEF Idle, Locals, Plans, None

(* A request that is done holds nothing. *)
LEMMA IdleFacts ==
    ASSUME TypeInv, NEW t \in Tasks, End(t)
    PROVE  /\ tasks' \in [Tasks -> Locals]
           /\ tasks'[t] = Idle
           /\ \A u \in Tasks \ {t} : tasks'[u] = tasks[u]
           /\ TaskSound(t)'
<1>1. Idle \in Locals
  BY IdleTyped
<1>2. tasks' = [tasks EXCEPT ![t] = Idle] /\ tasks \in [Tasks -> Locals]
  BY TaskFacts DEF End
<1>3. tasks' \in [Tasks -> Locals] /\ tasks'[t] = Idle /\ \A u \in Tasks \ {t} : tasks'[u] = tasks[u]
  BY <1>1, <1>2
<1>4. QED
  BY <1>3 DEF TaskSound, At, Idle

LEMMA CheckoutStripeTypes ==
    ASSUME TypeInv, NEW t \in Tasks, NEW plan \in PaidPlans, CheckoutStripe(t, plan)
    PROVE  TypeInv'
<1> DEFINE l == [pc |-> IF user.customer = None THEN "customer" ELSE "session", plan |-> plan,
                 id |-> user.customer, event |-> None]
<1>1. /\ tasks' = [tasks EXCEPT ![t] = l]
      /\ UNCHANGED <<user, stripe, paymenter, log, sends, hist>>
  BY DEF CheckoutStripe
<1>2. l \in Locals
  BY RowFacts, LogFacts DEF Locals, Plans, None
<1>3. tasks' \in [Tasks -> Locals] /\ tasks'[t] = l /\ \A u \in Tasks \ {t} : tasks'[u] = tasks[u]
  BY <1>1, <1>2, TaskFacts
<1>4. TaskSound(t)'
  BY <1>3, RowFacts, LogFacts DEF TaskSound, At, None
<1>5. QED
  BY <1>1, <1>3, <1>4, AwaitTypes

LEMMA CheckoutPaymenterTypes ==
    ASSUME TypeInv, NEW t \in Tasks, NEW plan \in PaidPlans, CheckoutPaymenter(t, plan)
    PROVE  TypeInv'
<1> DEFINE l == [pc |-> IF user.payUser = None THEN "findUser" ELSE "order", plan |-> plan,
                 id |-> user.payUser, event |-> None]
<1>1. /\ tasks' = [tasks EXCEPT ![t] = l]
      /\ UNCHANGED <<user, stripe, paymenter, log, sends, hist>>
  BY DEF CheckoutPaymenter
<1>2. l \in Locals
  BY RowFacts, LogFacts DEF Locals, Plans, None
<1>3. tasks' \in [Tasks -> Locals] /\ tasks'[t] = l /\ \A u \in Tasks \ {t} : tasks'[u] = tasks[u]
  BY <1>1, <1>2, TaskFacts
<1>4. TaskSound(t)'
  BY <1>3, RowFacts, LogFacts DEF TaskSound, At, None
<1>5. QED
  BY <1>1, <1>3, <1>4, AwaitTypes

(* What moving a request on does to its locals. *)
LEMMA GotoFacts ==
    ASSUME TypeInv, NEW t \in Tasks, NEW pc \in {"saveCustomer", "session", "createUser", "saveUser",
                                                 "order", "saveOrder"},
           NEW id \in Nat,
           \/ Goto(t, pc) /\ id = tasks[t].id
           \/ GotoWith(t, pc, id)
    PROVE  /\ tasks' \in [Tasks -> Locals]
           /\ tasks'[t].pc = pc /\ tasks'[t].id = id
           /\ tasks'[t].plan = tasks[t].plan
           /\ \A u \in Tasks \ {t} : tasks'[u] = tasks[u]
<1>1. tasks' = [tasks EXCEPT ![t] = [tasks[t] EXCEPT !.pc = pc, !.id = id]]
  BY TaskFacts DEF Goto, GotoWith, Locals
<1>2. [tasks[t] EXCEPT !.pc = pc, !.id = id] \in Locals
  BY TaskFacts DEF Locals
<1>3. QED
  BY <1>1, <1>2, TaskFacts DEF Locals

\* A request that has moved on with an id.
Went(t, pc, id) ==
    /\ tasks' \in [Tasks -> Locals]
    /\ tasks'[t].pc = pc /\ tasks'[t].id = id
    /\ tasks'[t].plan = tasks[t].plan
    /\ \A u \in Tasks \ {t} : tasks'[u] = tasks[u]

LEMMA GotoWithFacts ==
    ASSUME TypeInv, NEW t \in Tasks, NEW pc \in {"saveCustomer", "saveUser", "saveOrder"},
           NEW id \in Nat, GotoWith(t, pc, id)
    PROVE  Went(t, pc, id)
  BY GotoFacts DEF Went

LEMMA CreateCustomerTypes ==
    ASSUME TypeInv, NEW t \in Tasks, CreateCustomer(t)
    PROVE  TypeInv'
<1>1. /\ At(t, "customer")
      /\ stripe.customers < MaxCustomers
      /\ stripe' = [stripe EXCEPT !.customers = @ + 1]
      /\ GotoWith(t, "saveCustomer", stripe.customers + 1)
      /\ UNCHANGED <<user, paymenter, log, sends, hist>>
  BY DEF CreateCustomer
<1>2. stripe.customers \in Nat /\ stripe.customers + 1 \in 1..MaxCustomers
  BY <1>1, Shapes, LogFacts DEF StripeState, PaymenterState
<1>3. /\ stripe' \in StripeState
      /\ stripe'.sessions = stripe.sessions /\ stripe'.subs = stripe.subs
  <2>1. PICK n \in 1..MaxCustomers : n = stripe.customers + 1
    BY <1>2
  <2>2. stripe \in StripeState /\ n \in 0..MaxCustomers
    BY Shapes, LogFacts
  <2>3. stripe' = [stripe EXCEPT !.customers = n]
    BY <1>1, <2>1
  <2>4. QED
    BY <2>2, <2>3 DEF StripeState
<1>4. /\ tasks' \in [Tasks -> Locals]
      /\ tasks'[t].pc = "saveCustomer" /\ tasks'[t].id = stripe.customers + 1
      /\ tasks'[t].plan = tasks[t].plan
      /\ \A u \in Tasks \ {t} : tasks'[u] = tasks[u]
  BY <1>1, <1>2, GotoFacts
<1>5. TaskSound(t)'
  BY <1>1, <1>2, <1>4, TaskFacts DEF TaskSound, At
<1>6. \A u \in Tasks : TaskSound(u)'
  BY <1>1, <1>4, <1>5, OthersSound
<1>7. TypeOK'
  BY <1>1, <1>3, <1>4 DEF TypeInv, TypeOK
<1>8. QED
  BY <1>1, <1>3, <1>6, <1>7 DEF TypeInv

LEMMA SaveCustomerTypes ==
    ASSUME TypeInv, NEW t \in Tasks, SaveCustomer(t)
    PROVE  TypeInv'
<1>1. /\ At(t, "saveCustomer")
      /\ user' = [user EXCEPT !.customer = tasks[t].id]
      /\ hist' = [hist EXCEPT !.lost = @ \/ user.customer # None]
      /\ Goto(t, "session")
      /\ UNCHANGED <<stripe, paymenter, log, sends>>
  BY DEF SaveCustomer
<1>2. /\ tasks[t].id \in 1..MaxCustomers
      /\ tasks[t].id \in 0..MaxCustomers /\ tasks[t].id \in Nat
  BY <1>1, TaskFacts, LogFacts DEF TaskSound
<1>3. user' \in UserRow
  BY <1>1, <1>2, Shapes DEF UserRow
<1>4. hist' \in History /\ hist'.applied = hist.applied /\ hist'.missed = hist.missed
  BY <1>1, Shapes DEF History
<1>5. /\ tasks' \in [Tasks -> Locals]
      /\ tasks'[t].pc = "session" /\ tasks'[t].id = tasks[t].id
      /\ tasks'[t].plan = tasks[t].plan
      /\ \A u \in Tasks \ {t} : tasks'[u] = tasks[u]
  BY <1>1, <1>2, GotoFacts
<1>6. TaskSound(t)'
  BY <1>1, <1>2, <1>5, TaskFacts DEF TaskSound, At
<1>7. \A u \in Tasks : TaskSound(u)'
  BY <1>1, <1>5, <1>6, OthersSound
<1>8. TypeOK'
  BY <1>1, <1>3, <1>4, <1>5 DEF TypeInv, TypeOK
<1>9. QED
  BY <1>1, <1>4, <1>7, <1>8 DEF TypeInv

LEMMA CreateSessionTypes ==
    ASSUME TypeInv, NEW t \in Tasks, CreateSession(t)
    PROVE  TypeInv'
<1> DEFINE s == [customer |-> tasks[t].id, plan |-> tasks[t].plan]
<1>1. /\ At(t, "session")
      /\ Unsold
      /\ stripe' = [stripe EXCEPT !.sessions = @ \cup {s}]
      /\ End(t)
      /\ UNCHANGED <<user, paymenter, log, sends, hist>>
  BY DEF CreateSession
<1>2. s \in [customer : 1..MaxCustomers, plan : PaidPlans]
  BY <1>1, TaskFacts DEF TaskSound, At
<1>3. /\ stripe' \in StripeState
      /\ stripe'.sessions = stripe.sessions \cup {s} /\ stripe'.subs = stripe.subs
  BY <1>1, <1>2, Shapes, LogFacts DEF StripeState
<1>4. /\ IsFiniteSet(stripe'.sessions)
      /\ Cardinality(stripe.sessions) \in Nat
      /\ Cardinality(stripe'.sessions) \in Nat
      /\ Cardinality(stripe'.sessions) <= Cardinality(stripe.sessions) + 1
  <2>1. IsFiniteSet(stripe.sessions)
    BY DEF TypeInv
  <2>2. /\ IsFiniteSet(stripe.sessions \cup {s})
        /\ \/ Cardinality(stripe.sessions \cup {s}) = Cardinality(stripe.sessions)
           \/ Cardinality(stripe.sessions \cup {s}) = Cardinality(stripe.sessions) + 1
    BY <2>1, FS_AddElement
  <2>3. Cardinality(stripe.sessions) \in Nat
    BY <2>1, FS_CardinalityType
  <2>4. QED
    BY <1>3, <2>2, <2>3
<1>5. Cardinality(stripe'.sessions) + Len(stripe'.subs) <= MaxSubs
  BY <1>1, <1>3, <1>4, LogFacts DEF Unsold
<1>6. TypeOK'
  BY <1>1, <1>3, IdleFacts DEF TypeInv, TypeOK
<1>7. \A u \in Tasks : TaskSound(u)'
  BY <1>1, IdleFacts, OthersSound
<1>8. QED
  BY <1>1, <1>4, <1>5, <1>6, <1>7 DEF TypeInv

LEMMA FindUserTypes ==
    ASSUME TypeInv, NEW t \in Tasks, FindUser(t)
    PROVE  TypeInv'
<1>1. At(t, "findUser") /\ UNCHANGED <<user, stripe, paymenter, log, sends, hist>>
  BY DEF FindUser
<1>2. paymenter.users \in 0..MaxPayUsers
  BY Shapes DEF PaymenterState
<1>3. CASE paymenter.users > 0
  <2>1. GotoWith(t, "saveUser", 1)
    BY <1>3 DEF FindUser
  <2>2. /\ tasks' \in [Tasks -> Locals]
        /\ tasks'[t].pc = "saveUser" /\ tasks'[t].id = 1
        /\ tasks'[t].plan = tasks[t].plan
        /\ \A u \in Tasks \ {t} : tasks'[u] = tasks[u]
    BY <2>1, GotoFacts
  <2>3. TaskSound(t)'
    BY <1>1, <1>2, <1>3, <2>2, TaskFacts, LogFacts DEF TaskSound, At
  <2>4. QED
    BY <1>1, <2>2, <2>3, AwaitTypes
<1>4. CASE ~(paymenter.users > 0)
  <2>1. Goto(t, "createUser")
    BY <1>4 DEF FindUser
  <2>2. /\ tasks' \in [Tasks -> Locals]
        /\ tasks'[t].pc = "createUser"
        /\ tasks'[t].plan = tasks[t].plan
        /\ \A u \in Tasks \ {t} : tasks'[u] = tasks[u]
    BY <2>1, TaskFacts, GotoFacts
  <2>3. TaskSound(t)'
    BY <1>1, <2>2, TaskFacts DEF TaskSound, At
  <2>4. QED
    BY <1>1, <2>2, <2>3, AwaitTypes
<1>5. QED
  BY <1>3, <1>4

LEMMA CreateUserTypes ==
    ASSUME TypeInv, NEW t \in Tasks, CreateUser(t)
    PROVE  TypeInv'
<1>1. PICK id \in Nat : id = paymenter.users + 1 /\ id \in 1..MaxPayUsers
  <2>1. paymenter.users < MaxPayUsers
    BY DEF CreateUser
  <2>2. paymenter.users + 1 \in 1..MaxPayUsers /\ paymenter.users + 1 \in Nat
    BY <2>1, Shapes, LogFacts DEF StripeState, PaymenterState
  <2>3. QED
    BY <2>2
<1>2. /\ At(t, "createUser")
      /\ paymenter' = [paymenter EXCEPT !.users = id]
      /\ GotoWith(t, "saveUser", id) \/ Goto(t, "order")
      /\ UNCHANGED <<user, stripe, log, sends, hist>>
  BY <1>1 DEF CreateUser
<1>3. paymenter' \in PaymenterState /\ paymenter'.orders = paymenter.orders
  <2>1. paymenter \in PaymenterState /\ id \in 0..MaxPayUsers
    BY <1>1, Shapes, LogFacts
  <2>2. QED
    BY <1>2, <2>1 DEF PaymenterState
<1>4. /\ tasks' \in [Tasks -> Locals] /\ TaskSound(t)'
      /\ \A u \in Tasks \ {t} : tasks'[u] = tasks[u]
  <2>1. tasks[t].plan \in PaidPlans
    BY <1>2, TaskFacts DEF TaskSound, At
  <2>2. CASE GotoWith(t, "saveUser", id)
    <3>1. Went(t, "saveUser", id)
      BY <2>2, GotoWithFacts
    <3>2. QED
      BY <1>1, <2>1, <3>1 DEF TaskSound, At, Went
  <2>3. CASE Goto(t, "order")
    <3>1. /\ tasks' \in [Tasks -> Locals]
          /\ tasks'[t].pc = "order" /\ tasks'[t].plan = tasks[t].plan
          /\ \A u \in Tasks \ {t} : tasks'[u] = tasks[u]
      BY <2>3, TaskFacts, GotoFacts
    <3>2. QED
      BY <2>1, <3>1 DEF TaskSound, At
  <2>4. QED
    BY <1>2, <2>2, <2>3
<1>5. \A u \in Tasks : TaskSound(u)'
  BY <1>2, <1>3, <1>4, OthersSound
<1>6. TypeOK'
  BY <1>2, <1>3, <1>4 DEF TypeInv, TypeOK
<1>7. QED
  BY <1>2, <1>5, <1>6 DEF TypeInv

LEMMA SaveUserTypes ==
    ASSUME TypeInv, NEW t \in Tasks, SaveUser(t)
    PROVE  TypeInv'
<1>1. /\ At(t, "saveUser")
      /\ user' = [user EXCEPT !.payUser = tasks[t].id]
      /\ Goto(t, "order")
      /\ UNCHANGED <<stripe, paymenter, log, sends, hist>>
  BY DEF SaveUser
<1>2. tasks[t].id \in 0..MaxPayUsers
  BY <1>1, TaskFacts, LogFacts DEF TaskSound
<1>3. user' \in UserRow
  BY <1>1, <1>2, Shapes DEF UserRow
<1>4. /\ tasks' \in [Tasks -> Locals]
      /\ tasks'[t].pc = "order"
      /\ tasks'[t].plan = tasks[t].plan
      /\ \A u \in Tasks \ {t} : tasks'[u] = tasks[u]
  BY <1>1, TaskFacts, GotoFacts
<1>5. TaskSound(t)'
  BY <1>1, <1>4, TaskFacts DEF TaskSound, At
<1>6. \A u \in Tasks : TaskSound(u)'
  BY <1>1, <1>4, <1>5, OthersSound
<1>7. TypeOK'
  BY <1>1, <1>3, <1>4 DEF TypeInv, TypeOK
<1>8. QED
  BY <1>1, <1>6, <1>7 DEF TypeInv

\* A completed checkout names a plan.
NamedNow == log'[Len(log) + 1].kind = "completed" => log'[Len(log) + 1].plan \in PaidPlans

(* What becomes of the log when an event is emitted. *)
LEMMA EmitFacts ==
    ASSUME TypeInv, NEW kind \in {"completed", "updated", "deleted", "paid"}, NEW of \in Nat,
           NEW plan \in Items, Emit(kind, of, plan)
    PROVE  /\ log' \in Seq(Event) /\ Len(log') = Len(log) + 1 /\ Len(log') <= MaxEvents
           /\ sends' \in Seq([n : 0..MaxSends, acked : BOOLEAN]) /\ Len(sends') = Len(log')
           /\ \A i \in 1..Len(log) : log'[i] = log[i] /\ sends'[i] = sends[i]
           /\ log'[Len(log) + 1] = [kind |-> kind, of |-> of, plan |-> plan]
           /\ kind # "completed" \/ plan \in PaidPlans => NamedNow
           /\ ~sends'[Len(log) + 1].acked
<1> DEFINE e == [kind |-> kind, of |-> of, plan |-> plan]
<1> DEFINE f == [n |-> 0, acked |-> FALSE]
<1>1. Len(log) < MaxEvents /\ log' = Append(log, e) /\ sends' = Append(sends, f)
  BY DEF Emit
<1>2. e \in Event /\ f \in [n : 0..MaxSends, acked : BOOLEAN]
  BY LogFacts DEF Event
<1>3. /\ log' \in Seq(Event) /\ Len(log') = Len(log) + 1
      /\ \A i \in 1..Len(log) : log'[i] = log[i]
      /\ log'[Len(log) + 1] = e
  BY <1>1, <1>2, LogFacts, AppendProperties
<1>4. /\ sends' \in Seq([n : 0..MaxSends, acked : BOOLEAN]) /\ Len(sends') = Len(log) + 1
      /\ \A i \in 1..Len(log) : sends'[i] = sends[i]
      /\ sends'[Len(log) + 1] = f
  BY <1>1, <1>2, LogFacts, AppendProperties
<1>5. kind # "completed" \/ plan \in PaidPlans => NamedNow
  BY <1>3 DEF NamedNow
<1>6. QED
  BY <1>1, <1>3, <1>4, <1>5, LogFacts

(* A new order is one more, and not paid. *)
LEMMA NewOrder ==
    ASSUME TypeInv, NEW t \in Tasks, CreateOrder(t)
    PROVE  /\ paymenter' \in PaymenterState
           /\ Len(paymenter'.orders) = Len(paymenter.orders) + 1 /\ Len(paymenter'.orders) <= MaxOrders
           /\ \A o \in 1..Len(paymenter.orders) : paymenter'.orders[o] = paymenter.orders[o]
           /\ ~paymenter'.orders[Len(paymenter.orders) + 1].paid
           /\ UNCHANGED <<user, stripe, log, sends, hist>>
<1> DEFINE o == [plan |-> tasks[t].plan, paid |-> FALSE]
<1>1. /\ At(t, "order")
      /\ Len(paymenter.orders) < MaxOrders
      /\ paymenter' = [paymenter EXCEPT !.orders = Append(@, o)]
      /\ UNCHANGED <<user, stripe, log, sends, hist>>
  BY DEF CreateOrder
<1>2. o \in Order
  BY <1>1, TaskFacts DEF TaskSound, At, Order
<1>3. Append(paymenter.orders, o) \in Seq(Order)
  BY <1>2, LogFacts, AppendProperties
<1>4. paymenter' \in PaymenterState /\ paymenter'.orders = Append(paymenter.orders, o)
  BY <1>1, <1>3, Shapes DEF PaymenterState
<1>5. /\ Len(paymenter'.orders) = Len(paymenter.orders) + 1
      /\ \A q \in 1..Len(paymenter.orders) : paymenter'.orders[q] = paymenter.orders[q]
      /\ paymenter'.orders[Len(paymenter.orders) + 1] = o
  BY <1>2, <1>4, LogFacts, AppendProperties
<1>6. Len(paymenter'.orders) <= MaxOrders
  BY <1>1, <1>5, LogFacts
<1>7. QED
  BY <1>1, <1>4, <1>5, <1>6

LEMMA CreateOrderTypes ==
    ASSUME TypeInv, NEW t \in Tasks, CreateOrder(t)
    PROVE  TypeInv'
<1>1. PICK id \in Nat : id = Len(paymenter.orders) + 1
  BY LogFacts
<1>2. At(t, "order") /\ (GotoWith(t, "saveOrder", id) \/ End(t))
  BY <1>1 DEF CreateOrder
<1>3. /\ paymenter' \in PaymenterState
      /\ Len(paymenter'.orders) = id /\ Len(paymenter'.orders) <= MaxOrders
      /\ UNCHANGED <<user, stripe, log, sends, hist>>
  BY <1>1, NewOrder
<1>4. 1..Len(paymenter.orders) \subseteq 1..Len(paymenter'.orders) /\ id \in 1..Len(paymenter'.orders)
  BY <1>1, <1>3, LogFacts
<1>5. /\ tasks' \in [Tasks -> Locals] /\ TaskSound(t)'
      /\ \A u \in Tasks \ {t} : tasks'[u] = tasks[u]
  <2>1. CASE GotoWith(t, "saveOrder", id)
    <3>1. Went(t, "saveOrder", id)
      BY <2>1, GotoWithFacts
    <3>2. tasks'[t].plan \in PaidPlans
      BY <1>2, <3>1, TaskFacts DEF TaskSound, At, Went
    <3>3. QED
      BY <1>4, <3>1, <3>2 DEF TaskSound, At, Went
  <2>2. CASE End(t)
    BY <2>2, IdleFacts
  <2>3. QED
    BY <1>2, <2>1, <2>2
<1>6. \A u \in Tasks : TaskSound(u)'
  BY <1>3, <1>4, <1>5, OthersSound
<1>7. TypeOK'
  BY <1>3, <1>5 DEF TypeInv, TypeOK
<1>8. QED
  BY <1>3, <1>6, <1>7 DEF TypeInv

LEMMA SaveOrderTypes ==
    ASSUME TypeInv, NEW t \in Tasks, SaveOrder(t)
    PROVE  TypeInv'
<1>1. /\ At(t, "saveOrder")
      /\ user' = [user EXCEPT !.order = tasks[t].id, !.provider = "paymenter"]
      /\ End(t)
      /\ UNCHANGED <<stripe, paymenter, log, sends, hist>>
  BY DEF SaveOrder
<1>2. tasks[t].id \in 0..MaxOrders
  BY <1>1, TaskFacts, LogFacts DEF TaskSound
<1>3. user' \in UserRow
  BY <1>1, <1>2, Shapes DEF UserRow
<1>4. \A u \in Tasks : TaskSound(u)'
  BY <1>1, IdleFacts, OthersSound
<1>5. TypeOK'
  BY <1>1, <1>3, IdleFacts DEF TypeInv, TypeOK
<1>6. QED
  BY <1>1, <1>4, <1>5 DEF TypeInv

\* A purchase is only noted.
Noted ==
    /\ hist' \in History
    /\ hist'.applied = hist.applied /\ hist'.missed = hist.missed
    /\ hist'.disorder = hist.disorder /\ hist'.lost = hist.lost
    /\ hist'.granted = hist.granted
    /\ hist.early => hist'.early
    /\ ~hist'.doubled => ~hist.doubled /\ LiveSubs = {} /\ PaidOrders = {}

LEMMA SessionNoted == ASSUME TypeInv, NEW s, PaySession(s) PROVE Noted
<1>1. PICK d \in BOOLEAN : d <=> (hist.doubled \/ LiveSubs # {} \/ PaidOrders # {})
  OBVIOUS
<1>2. hist' = [hist EXCEPT !.doubled = d]
  <2>1. Doubled = d
    BY <1>1 DEF Doubled
  <2>2. QED
    BY <2>1 DEF PaySession
<1>3. hist' \in History /\ hist'.doubled = d
  BY <1>2, Shapes DEF History
<1>4. /\ hist'.applied = hist.applied /\ hist'.missed = hist.missed
      /\ hist'.disorder = hist.disorder /\ hist'.lost = hist.lost
      /\ hist'.granted = hist.granted /\ hist'.early = hist.early
  BY <1>2, Shapes DEF History
<1>5. QED
  BY <1>1, <1>3, <1>4 DEF Noted

LEMMA OrderNoted ==
    ASSUME TypeInv, NEW o, NEW item, PayOrder(o, item)
    PROVE  Noted /\ (~hist'.early => user.order = o)
<1>1. PICK d \in BOOLEAN : d <=> (hist.doubled \/ LiveSubs # {} \/ PaidOrders # {})
  OBVIOUS
<1>2. PICK early \in BOOLEAN : early <=> hist.early \/ user.order # o
  OBVIOUS
<1>3. hist.early \in BOOLEAN
  BY Shapes DEF History
<1>4. hist' = [hist EXCEPT !.doubled = d, !.early = early]
  <2>1. Doubled = d /\ (hist.early \/ user.order # o) = early
    BY <1>1, <1>2 DEF Doubled
  <2>2. hist' = [hist EXCEPT !.doubled = Doubled, !.early = hist.early \/ user.order # o]
    BY DEF PayOrder
  <2>3. QED
    BY <2>1, <2>2
<1>5. hist' \in History /\ hist'.doubled = d /\ hist'.early = early
  BY <1>4, Shapes DEF History
<1>6. /\ hist'.applied = hist.applied /\ hist'.missed = hist.missed
      /\ hist'.disorder = hist.disorder /\ hist'.lost = hist.lost
      /\ hist'.granted = hist.granted
  BY <1>4, Shapes DEF History
<1>7. QED
  BY <1>1, <1>2, <1>5, <1>6 DEF Noted

(* The step of a gateway that sells. *)
LEMMA SaleTypes ==
    ASSUME TypeInv, UNCHANGED <<user, tasks>>,
           log' \in Seq(Event), Len(log') = Len(log) + 1, Len(log') <= MaxEvents,
           \A i \in 1..Len(log) : log'[i] = log[i],
           NamedNow,
           sends' \in Seq([n : 0..MaxSends, acked : BOOLEAN]), Len(sends') = Len(log'),
           stripe' \in StripeState, IsFiniteSet(stripe'.sessions),
           Cardinality(stripe'.sessions) + Len(stripe'.subs) <= MaxSubs,
           Len(stripe'.subs) <= MaxSubs,
           paymenter' \in PaymenterState, Len(paymenter'.orders) = Len(paymenter.orders),
           hist' \in History, hist'.applied = hist.applied, hist'.missed = hist.missed
    PROVE  TypeInv'
<1>1. 1..Len(log) \subseteq 1..Len(log')
  BY LogFacts
<1>2. \A t \in Tasks : TaskSound(t)'
  BY <1>1 DEF TypeInv, TaskSound, At
<1>3. TypeOK'
  BY DEF TypeInv, TypeOK
<1>4. \A i \in 1..Len(log') : log'[i].kind = "completed" => log'[i].plan \in PaidPlans
  <2>1. \A i \in 1..Len(log') : i \in 1..Len(log) \/ i = Len(log) + 1
    BY LogFacts
  <2>2. QED
    BY <2>1 DEF TypeInv, NamedNow
<1>5. QED
  BY <1>1, <1>2, <1>3, <1>4 DEF TypeInv

LEMMA PaySessionTypes ==
    ASSUME TypeInv, NEW s \in stripe.sessions, PaySession(s)
    PROVE  TypeInv'
<1> DEFINE b == [customer |-> s.customer, plan |-> s.plan, live |-> TRUE]
<1>1. /\ stripe' = [stripe EXCEPT !.sessions = @ \ {s}, !.subs = Append(@, b)]
      /\ Emit("completed", s.customer, s.plan)
      /\ UNCHANGED <<user, tasks, paymenter>>
  BY DEF PaySession
<1>2. s \in [customer : 1..MaxCustomers, plan : PaidPlans]
  BY Shapes DEF StripeState
<1>3. s.customer \in Nat /\ s.plan \in Items /\ b \in Subscription
  BY <1>2, LogFacts DEF Subscription, OnSale, Items, Plans
<1>4. /\ Append(stripe.subs, b) \in Seq(Subscription)
      /\ Len(Append(stripe.subs, b)) = Len(stripe.subs) + 1
  BY <1>3, LogFacts, AppendProperties
<1>5. /\ stripe' \in StripeState
      /\ stripe'.sessions = stripe.sessions \ {s} /\ stripe'.subs = Append(stripe.subs, b)
  BY <1>1, <1>4, Shapes DEF StripeState
<1>6. IsFiniteSet(stripe.sessions) /\ Cardinality(stripe.sessions) + Len(stripe.subs) <= MaxSubs
  BY DEF TypeInv
<1>7. /\ IsFiniteSet(stripe.sessions \ {s})
      /\ Cardinality(stripe.sessions \ {s}) = Cardinality(stripe.sessions) - 1
      /\ Cardinality(stripe.sessions) \in Nat /\ Cardinality(stripe.sessions \ {s}) \in Nat
  BY <1>6, FS_RemoveElement, FS_CardinalityType
<1>8. /\ Cardinality(stripe'.sessions) + Len(stripe'.subs) <= MaxSubs
      /\ Len(stripe'.subs) <= MaxSubs
  BY <1>4, <1>5, <1>6, <1>7, LogFacts
<1>9. /\ log' \in Seq(Event) /\ Len(log') = Len(log) + 1 /\ Len(log') <= MaxEvents
      /\ \A i \in 1..Len(log) : log'[i] = log[i]
      /\ NamedNow
      /\ sends' \in Seq([n : 0..MaxSends, acked : BOOLEAN]) /\ Len(sends') = Len(log')
  BY <1>1, <1>2, <1>3, EmitFacts
<1>10. hist' \in History /\ hist'.applied = hist.applied /\ hist'.missed = hist.missed
  BY SessionNoted DEF Noted
<1>11. QED
  BY <1>1, <1>5, <1>7, <1>8, <1>9, <1>10, Shapes, SaleTypes

(* What becomes of the subscriptions when one of them changes. *)
LEMMA SubFacts ==
    ASSUME TypeInv, NEW s \in 1..Len(stripe.subs), NEW b \in Subscription,
           stripe' = [stripe EXCEPT !.subs[s] = b]
    PROVE  /\ stripe' \in StripeState
           /\ stripe'.sessions = stripe.sessions
           /\ Len(stripe'.subs) = Len(stripe.subs)
           /\ \A q \in 1..Len(stripe.subs) : stripe'.subs[q] = IF q = s THEN b ELSE stripe.subs[q]
<1> DEFINE subs == [stripe.subs EXCEPT ![s] = b]
<1>1. /\ subs \in Seq(Subscription) /\ Len(subs) = Len(stripe.subs)
      /\ \A q \in 1..Len(stripe.subs) : subs[q] = IF q = s THEN b ELSE stripe.subs[q]
  BY LogFacts, ExceptSeq
<1>2. stripe' = [stripe EXCEPT !.subs = subs]
  OBVIOUS
<1> HIDE DEF subs
<1>3. stripe' \in StripeState /\ stripe'.sessions = stripe.sessions /\ stripe'.subs = subs
  BY <1>1, <1>2, Shapes DEF StripeState
<1>4. QED
  BY <1>1, <1>3

LEMMA UpdateSubTypes ==
    ASSUME TypeInv, NEW s \in 1..Len(stripe.subs), NEW item \in OnSale, UpdateSub(s, item)
    PROVE  TypeInv'
<1> DEFINE b == [stripe.subs[s] EXCEPT !.plan = item]
<1>1. /\ stripe' = [stripe EXCEPT !.subs[s] = b]
      /\ Emit("updated", stripe.subs[s].customer, item)
      /\ UNCHANGED <<user, tasks, paymenter, hist>>
  BY Shapes DEF UpdateSub, StripeState
<1>2. stripe.subs[s] \in Subscription
  BY LogFacts, ElementOfSeq
<1>3. b \in Subscription /\ stripe.subs[s].customer \in Nat /\ item \in Items
  BY <1>2 DEF Subscription, OnSale, Items, Plans
<1>4. /\ stripe' \in StripeState /\ stripe'.sessions = stripe.sessions
      /\ Len(stripe'.subs) = Len(stripe.subs)
  BY <1>1, <1>3, SubFacts
<1>5. /\ log' \in Seq(Event) /\ Len(log') = Len(log) + 1 /\ Len(log') <= MaxEvents
      /\ \A i \in 1..Len(log) : log'[i] = log[i]
      /\ NamedNow
      /\ sends' \in Seq([n : 0..MaxSends, acked : BOOLEAN]) /\ Len(sends') = Len(log')
  BY <1>1, <1>3, EmitFacts
<1>6. /\ IsFiniteSet(stripe.sessions) /\ Len(stripe.subs) <= MaxSubs
      /\ Cardinality(stripe.sessions) + Len(stripe.subs) <= MaxSubs
  BY DEF TypeInv, TypeOK
<1>7. QED
  BY <1>1, <1>4, <1>5, <1>6, Shapes, SaleTypes

LEMMA CancelSubTypes ==
    ASSUME TypeInv, NEW s \in 1..Len(stripe.subs), CancelSub(s)
    PROVE  TypeInv'
<1> DEFINE b == [stripe.subs[s] EXCEPT !.live = FALSE]
<1>1. /\ stripe' = [stripe EXCEPT !.subs[s] = b]
      /\ Emit("deleted", stripe.subs[s].customer, stripe.subs[s].plan)
      /\ UNCHANGED <<user, tasks, paymenter, hist>>
  BY Shapes DEF CancelSub, StripeState
<1>2. stripe.subs[s] \in Subscription
  BY LogFacts, ElementOfSeq
<1>3. b \in Subscription /\ stripe.subs[s].customer \in Nat /\ stripe.subs[s].plan \in Items
  <2>1. b \in Subscription
    BY <1>2 DEF Subscription
  <2>2. stripe.subs[s].customer \in Nat /\ stripe.subs[s].plan \in Items
    BY <1>2 DEF Subscription, OnSale, Items, Plans
  <2>3. QED
    BY <2>1, <2>2
<1>4. /\ stripe' \in StripeState /\ stripe'.sessions = stripe.sessions
      /\ Len(stripe'.subs) = Len(stripe.subs)
  BY <1>1, <1>3, SubFacts
<1>5. /\ log' \in Seq(Event) /\ Len(log') = Len(log) + 1 /\ Len(log') <= MaxEvents
      /\ \A i \in 1..Len(log) : log'[i] = log[i]
      /\ NamedNow
      /\ sends' \in Seq([n : 0..MaxSends, acked : BOOLEAN]) /\ Len(sends') = Len(log')
  BY <1>1, <1>3, EmitFacts
<1>6. /\ IsFiniteSet(stripe.sessions) /\ Len(stripe.subs) <= MaxSubs
      /\ Cardinality(stripe.sessions) + Len(stripe.subs) <= MaxSubs
  BY DEF TypeInv, TypeOK
<1>7. QED
  BY <1>1, <1>4, <1>5, <1>6, Shapes, SaleTypes

(* What becomes of the orders when one of them changes. *)
LEMMA OrderFacts ==
    ASSUME TypeInv, NEW o \in 1..Len(paymenter.orders), NEW b \in Order,
           paymenter' = [paymenter EXCEPT !.orders[o] = b]
    PROVE  /\ paymenter' \in PaymenterState
           /\ Len(paymenter'.orders) = Len(paymenter.orders)
           /\ \A q \in 1..Len(paymenter.orders) :
                 paymenter'.orders[q] = IF q = o THEN b ELSE paymenter.orders[q]
<1> DEFINE orders == [paymenter.orders EXCEPT ![o] = b]
<1>1. /\ orders \in Seq(Order) /\ Len(orders) = Len(paymenter.orders)
      /\ \A q \in 1..Len(paymenter.orders) : orders[q] = IF q = o THEN b ELSE paymenter.orders[q]
  BY LogFacts, ExceptSeq
<1>2. paymenter' = [paymenter EXCEPT !.orders = orders]
  OBVIOUS
<1> HIDE DEF orders
<1>3. paymenter' \in PaymenterState /\ paymenter'.orders = orders
  BY <1>1, <1>2, Shapes DEF PaymenterState
<1>4. QED
  BY <1>1, <1>3

LEMMA PayOrderTypes ==
    ASSUME TypeInv, NEW o \in 1..Len(paymenter.orders), NEW item \in Items,
           PayOrder(o, item)
    PROVE  TypeInv'
<1> DEFINE b == [paymenter.orders[o] EXCEPT !.paid = TRUE]
<1>1. /\ paymenter' = [paymenter EXCEPT !.orders[o] = b]
      /\ Emit("paid", o, item)
      /\ UNCHANGED <<user, tasks, stripe>>
  BY Shapes DEF PayOrder, PaymenterState
<1>2. paymenter.orders[o] \in Order
  BY LogFacts, ElementOfSeq
<1>3. b \in Order /\ o \in Nat
  <2>1. b \in Order
    BY <1>2 DEF Order
  <2>2. o \in Nat
    BY LogFacts
  <2>3. QED
    BY <2>1, <2>2
<1>4. paymenter' \in PaymenterState /\ Len(paymenter'.orders) = Len(paymenter.orders)
  BY <1>1, <1>3, OrderFacts
<1>5. /\ log' \in Seq(Event) /\ Len(log') = Len(log) + 1 /\ Len(log') <= MaxEvents
      /\ \A i \in 1..Len(log) : log'[i] = log[i]
      /\ NamedNow
      /\ sends' \in Seq([n : 0..MaxSends, acked : BOOLEAN]) /\ Len(sends') = Len(log')
  BY <1>1, <1>3, EmitFacts
<1>6. /\ IsFiniteSet(stripe.sessions) /\ Len(stripe.subs) <= MaxSubs
      /\ Cardinality(stripe.sessions) + Len(stripe.subs) <= MaxSubs
  BY DEF TypeInv, TypeOK
<1>7. hist' \in History /\ hist'.applied = hist.applied /\ hist'.missed = hist.missed
  BY OrderNoted DEF Noted
<1>8. QED
  BY <1>1, <1>4, <1>5, <1>6, <1>7, Shapes, SaleTypes

Delivery == [n : 0..MaxSends, acked : BOOLEAN]

(* What becomes of the deliveries when one event is delivered or answered. *)
LEMMA SendFacts ==
    ASSUME TypeInv, NEW i \in 1..Len(log), NEW d \in Delivery, sends' = [sends EXCEPT ![i] = d]
    PROVE  /\ sends' \in Seq(Delivery) /\ Len(sends') = Len(log)
           /\ \A j \in 1..Len(log) : sends'[j] = IF j = i THEN d ELSE sends[j]
<1>1. sends \in Seq(Delivery) /\ Len(sends) = Len(log)
  BY LogFacts DEF Delivery
<1>2. i \in 1..Len(sends)
  BY <1>1
<1>3. QED
  BY <1>1, <1>2, ExceptSeq

(* The step of a webhook. *)
LEMMA WebhookTypes ==
    ASSUME TypeInv, NEW t \in Tasks, user' \in UserRow, UNCHANGED <<stripe, paymenter, log>>,
           tasks' \in [Tasks -> Locals], \A u \in Tasks \ {t} : tasks'[u] = tasks[u], TaskSound(t)',
           sends' \in Seq(Delivery), Len(sends') = Len(log),
           hist' \in History, hist'.applied \subseteq 1..Len(log), hist'.missed \subseteq 1..Len(log)
    PROVE  TypeInv'
<1>1. \A u \in Tasks : TaskSound(u)'
  BY OthersSound
<1>2. TypeOK'
  BY DEF TypeInv, TypeOK, Delivery
<1>3. QED
  BY <1>1, <1>2 DEF TypeInv

(* The price and the product of a plan are found again, on some plan. *)
LEMMA PriceFound ==
    ASSUME NEW item \in Items
    PROVE  /\ \/ PlanByPrice(item) \in Plans /\ Price[PlanByPrice(item)] = Price[item]
              \/ PlanByPrice(item) = "none" /\ item = "other"
           /\ \/ PlanByProduct(item) \in Plans /\ Product[PlanByProduct(item)] = Product[item]
              \/ PlanByProduct(item) = "none" /\ item = "other"
<1>1. item \in Plans \/ item = "other"
  BY DEF Items
<1>2. \/ PlanByPrice(item) \in Plans /\ Price[PlanByPrice(item)] = Price[item]
      \/ PlanByPrice(item) = "none" /\ item = "other"
  <2>1. CASE \E p \in Plans : Price[p] = Price[item]
    BY <2>1 DEF PlanByPrice
  <2>2. CASE ~\E p \in Plans : Price[p] = Price[item]
    BY <1>1, <2>2 DEF PlanByPrice
  <2>3. QED
    BY <2>1, <2>2
<1>3. \/ PlanByProduct(item) \in Plans /\ Product[PlanByProduct(item)] = Product[item]
      \/ PlanByProduct(item) = "none" /\ item = "other"
  <2>1. CASE \E p \in Plans : Product[p] = Product[item]
    BY <2>1 DEF PlanByProduct
  <2>2. CASE ~\E p \in Plans : Product[p] = Product[item]
    BY <1>1, <2>2 DEF PlanByProduct
  <2>3. QED
    BY <2>1, <2>2
<1>4. QED
  BY <1>2, <1>3

(* An event asks for a plan, or is a change to or a sale of what is none. *)
LEMMA PlanAsked ==
    ASSUME TypeInv, NEW i \in 1..Len(log)
    PROVE  /\ log[i] \in Event
           /\ PlanOf(log[i]) # "none" => PlanOf(log[i]) \in Plans
           /\ PlanOf(log[i]) = "none" => log[i].kind \in {"updated", "paid"} /\ log[i].plan = "other"
<1>1. log[i] \in Event
  BY LogFacts, ElementOfSeq
<1>2. log[i].plan \in Items /\ log[i].kind \in {"completed", "updated", "deleted", "paid"}
  BY <1>1 DEF Event
<1>3. "none" \notin Plans /\ "free" \in Plans
  BY BillingAssumption DEF Plans
<1>4. CASE log[i].kind = "completed"
  BY <1>1, <1>3, <1>4 DEF TypeInv, PlanOf, Plans
<1>5. CASE log[i].kind = "updated"
  BY <1>1, <1>2, <1>3, <1>5, PriceFound DEF PlanOf
<1>6. CASE log[i].kind = "deleted"
  BY <1>1, <1>3, <1>6 DEF PlanOf
<1>7. CASE log[i].kind = "paid"
  BY <1>1, <1>2, <1>3, <1>7, PriceFound DEF PlanOf
<1>8. QED
  BY <1>2, <1>4, <1>5, <1>6, <1>7

\* The event goes on to its UPDATE.
Taken(t, i) ==
    /\ Matches(log[i]) /\ PlanOf(log[i]) # "none"
    /\ tasks' = [tasks EXCEPT ![t] = [pc |-> "apply", plan |-> "free", id |-> None, event |-> i]]
    /\ hist' = hist
    /\ \A j \in 1..Len(log) : sends'[j].acked = sends[j].acked

\* It is answered at once, and missed if there is no account.
Answered(i) ==
    /\ ~Matches(log[i]) \/ PlanOf(log[i]) = "none"
    /\ UNCHANGED tasks
    /\ hist' \in History
    /\ hist'.missed = IF Matches(log[i]) THEN hist.missed ELSE hist.missed \cup {i}
    /\ hist'.applied = hist.applied /\ hist'.disorder = hist.disorder
    /\ hist'.lost = hist.lost /\ hist'.early = hist.early
    /\ hist'.doubled = hist.doubled /\ hist'.granted = hist.granted
    /\ \A j \in 1..Len(log) \ {i} : sends'[j].acked = sends[j].acked

LEMMA DeliverFacts ==
    ASSUME TypeInv, NEW t \in Tasks, NEW i \in 1..Len(log), Deliver(t, i)
    PROVE  /\ UNCHANGED <<user, stripe, paymenter, log>>
           /\ sends' \in Seq(Delivery) /\ Len(sends') = Len(log)
           /\ Taken(t, i) \/ Answered(i)
<1>1. sends[i].n < MaxSends /\ UNCHANGED <<user, stripe, paymenter, log>>
  BY DEF Deliver
<1>2. sends[i] \in Delivery
  BY LogFacts, ElementOfSeq DEF Delivery
<1>3. sends[i].n + 1 \in 0..MaxSends
  <2>1. MaxSends \in Nat /\ sends[i].n \in 0..MaxSends
    BY <1>2, BillingAssumption DEF Delivery
  <2>2. QED
    BY <1>1, <2>1
<1>4. CASE Matches(log[i]) /\ PlanOf(log[i]) # "none"
  <2> DEFINE d == [sends[i] EXCEPT !.n = sends[i].n + 1]
  <2>1. /\ tasks' = [tasks EXCEPT ![t] = [pc |-> "apply", plan |-> "free", id |-> None, event |-> i]]
        /\ sends' = [sends EXCEPT ![i] = d]
        /\ hist' = hist
    BY <1>4 DEF Deliver
  <2>2. d \in Delivery /\ d.acked = sends[i].acked
    BY <1>2, <1>3 DEF Delivery
  <2> HIDE DEF d
  <2>3. /\ sends' \in Seq(Delivery) /\ Len(sends') = Len(log)
        /\ \A j \in 1..Len(log) : sends'[j] = IF j = i THEN d ELSE sends[j]
    BY <2>1, <2>2, SendFacts
  <2>4. \A j \in 1..Len(log) : sends'[j].acked = sends[j].acked
    <3>1. ASSUME NEW j \in 1..Len(log) PROVE sends'[j].acked = sends[j].acked
      <4>1. CASE j = i
        BY <2>2, <2>3, <4>1
      <4>2. CASE j # i
        BY <2>3, <4>2
      <4>3. QED
        BY <4>1, <4>2
    <3>2. QED
      BY <3>1
  <2>5. Taken(t, i)
    BY <1>4, <2>1, <2>4 DEF Taken
  <2>6. QED
    BY <1>1, <2>3, <2>5
<1>5. CASE ~(Matches(log[i]) /\ PlanOf(log[i]) # "none")
  <2> DEFINE d == [n |-> sends[i].n + 1, acked |-> TRUE]
  <2>1. /\ sends' = [sends EXCEPT ![i] = d]
        /\ hist' = IF Matches(log[i]) THEN hist ELSE [hist EXCEPT !.missed = @ \cup {i}]
        /\ UNCHANGED tasks
    BY <1>5 DEF Deliver
  <2>2. d \in Delivery
    BY <1>3 DEF Delivery
  <2> HIDE DEF d
  <2>3. /\ sends' \in Seq(Delivery) /\ Len(sends') = Len(log)
        /\ \A j \in 1..Len(log) \ {i} : sends'[j].acked = sends[j].acked
    <3>1. /\ sends' \in Seq(Delivery) /\ Len(sends') = Len(log)
          /\ \A j \in 1..Len(log) : sends'[j] = IF j = i THEN d ELSE sends[j]
      BY <2>1, <2>2, SendFacts
    <3>2. QED
      BY ONLY <3>1
  <2>4. i \in 1..MaxEvents
    <3>1. Len(log) \in Nat /\ Len(log) <= MaxEvents /\ MaxEvents \in Nat
      BY LogFacts
    <3>2. QED
      BY ONLY <3>1, i \in 1..Len(log)
  <2>5. CASE Matches(log[i])
    <3>1. hist' = hist
      BY <2>1, <2>5
    <3>2. hist' \in History
      BY <3>1, Shapes
    <3>3. /\ hist'.missed = hist.missed /\ hist'.applied = hist.applied
          /\ hist'.disorder = hist.disorder
          /\ hist'.lost = hist.lost /\ hist'.early = hist.early
          /\ hist'.doubled = hist.doubled /\ hist'.granted = hist.granted
      BY <3>1
    <3>4. Answered(i)
      BY <1>5, <2>1, <2>3, <2>5, <3>2, <3>3 DEF Answered
    <3>5. QED
      BY <1>1, <2>3, <3>4
  <2>6. CASE ~Matches(log[i])
    <3>1. hist' = [hist EXCEPT !.missed = @ \cup {i}]
      BY <2>1, <2>6
    <3>2. hist' \in History /\ hist'.applied = hist.applied /\ hist'.missed = hist.missed \cup {i}
      BY <3>1, <2>4, Shapes DEF History
    <3>3. /\ hist'.disorder = hist.disorder
          /\ hist'.lost = hist.lost /\ hist'.early = hist.early
          /\ hist'.doubled = hist.doubled /\ hist'.granted = hist.granted
      BY <3>1, Shapes DEF History
    <3>4. Answered(i)
      BY <1>5, <2>1, <2>3, <2>6, <3>2, <3>3 DEF Answered
    <3>5. QED
      BY <1>1, <2>3, <3>4
  <2>7. QED
    BY <2>5, <2>6
<1>6. QED
  BY <1>4, <1>5

LEMMA DeliverTypes ==
    ASSUME TypeInv, NEW t \in Tasks, NEW i \in 1..Len(log), Deliver(t, i)
    PROVE  TypeInv'
<1>1. /\ At(t, "idle")
      /\ UNCHANGED <<user, stripe, paymenter, log>>
      /\ sends' \in Seq(Delivery) /\ Len(sends') = Len(log)
      /\ Taken(t, i) \/ Answered(i)
  BY DeliverFacts DEF Deliver
<1>2. i \in 0..MaxEvents
  BY LogFacts
<1>3. hist.applied \subseteq 1..Len(log) /\ hist.missed \subseteq 1..Len(log)
  BY DEF TypeInv
<1>4. CASE Taken(t, i)
  <2> DEFINE l == [pc |-> "apply", plan |-> "free", id |-> None, event |-> i]
  <2>1. tasks' = [tasks EXCEPT ![t] = l] /\ UNCHANGED hist
    BY <1>4 DEF Taken
  <2>2. l \in Locals
    BY <1>2 DEF Locals, Plans, None
  <2>3. tasks' \in [Tasks -> Locals] /\ tasks'[t] = l /\ \A u \in Tasks \ {t} : tasks'[u] = tasks[u]
    BY <2>1, <2>2, TaskFacts
  <2>4. PlanOf(log[i]) \in Plans
    BY <1>4, PlanAsked DEF Taken
  <2>5. TaskSound(t)'
    BY <1>1, <2>3, <2>4 DEF TaskSound, At
  <2>6. QED
    BY <1>1, <1>3, <2>1, <2>3, <2>5, Shapes, WebhookTypes
<1>5. CASE Answered(i)
  <2>1. /\ UNCHANGED tasks /\ hist' \in History
        /\ hist'.applied \subseteq 1..Len(log) /\ hist'.missed \subseteq 1..Len(log)
    BY <1>3, <1>5 DEF Answered
  <2>2. TaskSound(t)' /\ tasks' \in [Tasks -> Locals]
    BY <1>1, <2>1, TaskFacts DEF TaskSound, At
  <2>3. QED
    BY <1>1, <2>1, <2>2, Shapes, WebhookTypes
<1>6. QED
  BY <1>1, <1>4, <1>5

(* An event is written to the plan and the provider, and leaves the ids. *)
LEMMA WrittenFacts ==
    ASSUME TypeInv, NEW e \in Event, PlanOf(e) \in Plans
    PROVE  /\ Written(e) \in UserRow
           /\ Written(e).plan = PlanOf(e)
           /\ Written(e).customer = user.customer
           /\ Written(e).order = user.order
<1>1. PICK plan \in Plans : plan = PlanOf(e)
  OBVIOUS
<1>2. /\ OnPlan(plan) \in UserRow
      /\ OnPlan(plan).plan = plan
      /\ OnPlan(plan).customer = user.customer /\ OnPlan(plan).order = user.order
  BY Shapes DEF OnPlan, UserRow
<1>3. PICK row : row = OnPlan(plan)
  OBVIOUS
<1>4. Written(e) \in {row, [row EXCEPT !.provider = "stripe"], [row EXCEPT !.provider = "paymenter"]}
  BY <1>1, <1>3 DEF Written
<1>5. QED
  BY <1>1, <1>2, <1>3, <1>4 DEF UserRow

(* What becomes of the history when an event is applied. *)
LEMMA ApplyFacts ==
    ASSUME TypeInv, NEW t \in Tasks, Apply(t)
    PROVE  LET i == tasks[t].event
           IN  /\ i \in 1..Len(log) /\ log[i] \in Event /\ PlanOf(log[i]) \in Plans
               /\ user' = Written(log[i])
               /\ sends' \in Seq(Delivery) /\ Len(sends') = Len(log)
               /\ \A j \in 1..Len(log) \ {i} : sends'[j] = sends[j]
               /\ hist' \in History
               /\ hist'.applied = hist.applied \cup {i} /\ hist'.missed = hist.missed
               /\ hist'.lost = hist.lost /\ hist'.early = hist.early
               /\ hist'.doubled = hist.doubled /\ hist'.granted = hist.granted
               /\ ~hist'.disorder => ~hist.disorder /\ \A j \in hist.applied : ~(j > i)
               /\ End(t) /\ UNCHANGED <<stripe, paymenter, log>>
<1> DEFINE i == tasks[t].event
<1> DEFINE d == [sends[i] EXCEPT !.acked = TRUE]
<1>1. /\ At(t, "apply")
      /\ user' = Written(log[i])
      /\ sends' = [sends EXCEPT ![i] = d]
      /\ hist' = [hist EXCEPT !.applied = @ \cup {i},
                              !.disorder = @ \/ \E j \in hist.applied : j > i]
      /\ End(t)
      /\ UNCHANGED <<stripe, paymenter, log>>
  BY DEF Apply
<1>2. i \in 1..Len(log) /\ PlanOf(log[i]) \in Plans
  BY <1>1, TaskFacts DEF TaskSound
<1>3. log[i] \in Event /\ sends[i] \in Delivery
  BY <1>2, LogFacts, ElementOfSeq DEF Delivery
<1>4. d \in Delivery
  BY <1>3 DEF Delivery
<1>5. /\ sends' \in Seq(Delivery) /\ Len(sends') = Len(log)
      /\ \A j \in 1..Len(log) \ {i} : sends'[j] = sends[j]
  BY <1>1, <1>2, <1>4, SendFacts
<1>6. PICK late \in BOOLEAN : late = (hist.disorder \/ \E j \in hist.applied : j > i)
  OBVIOUS
<1>7. hist' = [hist EXCEPT !.applied = @ \cup {i}, !.disorder = late]
  BY <1>1, <1>6
<1>8. i \in 1..MaxEvents
  BY <1>2, LogFacts
<1>9. /\ hist' \in History
      /\ hist'.applied = hist.applied \cup {i} /\ hist'.missed = hist.missed
      /\ hist'.lost = hist.lost /\ hist'.early = hist.early
      /\ hist'.doubled = hist.doubled
      /\ hist'.granted = hist.granted /\ hist'.disorder = late
  BY <1>7, <1>8, Shapes DEF History
<1>10. ~hist'.disorder => ~hist.disorder /\ \A j \in hist.applied : ~(j > i)
  BY <1>6, <1>9
<1>11. QED
  BY <1>1, <1>2, <1>3, <1>5, <1>9, <1>10

LEMMA ApplyTypes ==
    ASSUME TypeInv, NEW t \in Tasks, Apply(t)
    PROVE  TypeInv'
<1>1. PICK i \in 1..Len(log) :
         /\ i = tasks[t].event /\ log[i] \in Event /\ PlanOf(log[i]) \in Plans
         /\ user' = Written(log[i])
         /\ sends' \in Seq(Delivery) /\ Len(sends') = Len(log)
         /\ hist' \in History
         /\ hist'.applied = hist.applied \cup {i} /\ hist'.missed = hist.missed
         /\ End(t) /\ UNCHANGED <<stripe, paymenter, log>>
  BY ApplyFacts
<1>2. user' \in UserRow
  BY <1>1, WrittenFacts
<1>3. hist'.applied \subseteq 1..Len(log) /\ hist'.missed \subseteq 1..Len(log)
  BY <1>1 DEF TypeInv
<1>4. QED
  BY <1>1, <1>2, <1>3, IdleFacts, WebhookTypes

LEMMA FailTypes ==
    ASSUME TypeInv, NEW t \in Tasks, Fail(t)
    PROVE  TypeInv'
<1>1. End(t) /\ UNCHANGED <<user, stripe, paymenter, log, sends, hist>>
  BY DEF Fail
<1>2. QED
  BY <1>1, IdleFacts, AwaitTypes

LEMMA AdminPlanTypes ==
    ASSUME TypeInv, NEW plan \in Plans, AdminPlan(plan)
    PROVE  TypeInv'
<1>1. /\ user' = [user EXCEPT !.plan = plan]
      /\ hist' = [hist EXCEPT !.granted = TRUE]
      /\ UNCHANGED <<tasks, stripe, paymenter, log, sends>>
  BY DEF AdminPlan, OnPlan
<1>2. user' \in UserRow
  BY <1>1, Shapes DEF UserRow
<1>3. hist' \in History /\ hist'.applied = hist.applied /\ hist'.missed = hist.missed
  BY <1>1, Shapes DEF History
<1>4. TypeOK'
  BY <1>1, <1>2, <1>3 DEF TypeInv, TypeOK
<1>5. QED
  BY <1>1, <1>3, <1>4 DEF TypeInv, TaskSound, At

LEMMA TypesStep == ASSUME TypeInv, [Next]_vars PROVE TypeInv'
<1>1. CASE UNCHANGED vars
  BY <1>1 DEF vars, TypeInv, TypeOK, TaskSound, At
<1>2. ASSUME NEW t \in Tasks, Serve(t) PROVE TypeInv'
  BY <1>2, CheckoutStripeTypes, CheckoutPaymenterTypes, CreateCustomerTypes, SaveCustomerTypes,
     CreateSessionTypes, FindUserTypes, CreateUserTypes, SaveUserTypes, CreateOrderTypes,
     SaveOrderTypes, DeliverTypes, ApplyTypes, FailTypes DEF Serve
<1>3. CASE Sell
  BY <1>3, PaySessionTypes, CancelSubTypes, UpdateSubTypes, PayOrderTypes DEF Sell
<1>4. QED
  BY <1>1, <1>2, <1>3, AdminPlanTypes DEF Next

LEMMA TypesInit == ASSUME Init PROVE TypeInv
<1>1. /\ user \in UserRow /\ hist \in History
      /\ \A t \in Tasks : tasks[t] = Idle
  BY BillingAssumption DEF Init, UserRow, History, Plans, None
<1>2. tasks \in [Tasks -> Locals]
  BY IdleTyped DEF Init
<1>3. stripe \in StripeState /\ paymenter \in PaymenterState
  BY BillingAssumption, EmptySeq DEF Init, StripeState, PaymenterState
<1>4. /\ stripe.sessions = {} /\ Len(stripe.subs) = 0 /\ Len(paymenter.orders) = 0
      /\ Len(log) = 0 /\ Len(sends) = 0
      /\ log \in Seq(Event) /\ sends \in Seq([n : 0..MaxSends, acked : BOOLEAN])
  BY EmptySeq DEF Init
<1>5. TypeOK
  BY <1>1, <1>2, <1>3, <1>4, BillingAssumption DEF TypeOK
<1>6. IsFiniteSet(stripe.sessions) /\ Cardinality(stripe.sessions) = 0
  BY <1>4, FS_EmptySet
<1>7. \A t \in Tasks : TaskSound(t)
  BY <1>1 DEF TaskSound, At, Idle
<1>8. hist.applied = {} /\ hist.missed = {}
  BY DEF Init
<1>9. QED
  BY <1>4, <1>5, <1>6, <1>7, <1>8, BillingAssumption DEF TypeInv

(* Every variable of Billing keeps its type, and every request in flight holds
   what its next step needs (routes/billing.js, lib/payments). *)
THEOREM TypeCorrect == Spec => []TypeOK
<1>1. TypeInv => TypeOK
  BY DEF TypeInv
<1>2. QED
  BY <1>1, TypesInit, TypesStep, PTL DEF Spec

-----------------------------------------------------------------------------
\* Events and the plan

\* A step that neither emits nor handles an event, and leaves the plan.
Quiet ==
    /\ UNCHANGED <<log, sends>>
    /\ user'.plan = user.plan
    /\ hist'.applied = hist.applied /\ hist'.missed = hist.missed
    /\ hist'.disorder = hist.disorder /\ hist'.doubled = hist.doubled
    /\ hist'.granted = hist.granted

\* The steps of a checkout, and a request that fails.
CheckoutStep(t) ==
    \/ \E plan \in PaidPlans : CheckoutStripe(t, plan) \/ CheckoutPaymenter(t, plan)
    \/ CreateCustomer(t) \/ SaveCustomer(t) \/ CreateSession(t)
    \/ FindUser(t) \/ CreateUser(t) \/ SaveUser(t) \/ CreateOrder(t) \/ SaveOrder(t)
    \/ Fail(t)

LEMMA CheckoutQuiet == ASSUME TypeInv, NEW t \in Tasks, CheckoutStep(t) PROVE Quiet
<1>1. ASSUME UNCHANGED <<user, log, sends, hist>> PROVE Quiet
  BY <1>1 DEF Quiet
<1>2. CASE SaveCustomer(t)
  <2>1. PICK lost : hist' = [hist EXCEPT !.lost = lost]
    BY <1>2 DEF SaveCustomer
  <2>2. /\ hist'.applied = hist.applied /\ hist'.missed = hist.missed
        /\ hist'.disorder = hist.disorder /\ hist'.doubled = hist.doubled
        /\ hist'.granted = hist.granted
    BY <2>1, Shapes DEF History
  <2>3. user'.plan = user.plan /\ UNCHANGED <<log, sends>>
    BY <1>2, Shapes DEF SaveCustomer, UserRow
  <2>4. QED
    BY <2>2, <2>3 DEF Quiet
<1>3. CASE SaveUser(t)
  <2>1. user'.plan = user.plan /\ UNCHANGED <<log, sends, hist>>
    BY <1>3, Shapes DEF SaveUser, UserRow
  <2>2. QED
    BY <2>1 DEF Quiet
<1>4. CASE SaveOrder(t)
  <2>1. user'.plan = user.plan /\ UNCHANGED <<log, sends, hist>>
    BY <1>4, Shapes DEF SaveOrder, UserRow
  <2>2. QED
    BY <2>1 DEF Quiet
<1>5. QED
  BY <1>1, <1>2, <1>3, <1>4
  DEF CheckoutStep, CheckoutStripe, CheckoutPaymenter, CreateCustomer, CreateSession, FindUser,
      CreateUser, CreateOrder, Fail

(* A sale adds one event, which nobody has answered yet. *)
LEMMA SaleEmits ==
    ASSUME TypeInv, Sell
    PROVE  /\ Len(log') = Len(log) + 1 /\ Len(sends') = Len(log')
           /\ \A i \in 1..Len(log) : log'[i] = log[i] /\ sends'[i] = sends[i]
           /\ ~sends'[Len(log) + 1].acked
           /\ UNCHANGED <<user, tasks>>
           /\ hist'.applied = hist.applied /\ hist'.missed = hist.missed
           /\ hist'.disorder = hist.disorder /\ hist'.granted = hist.granted
           /\ hist'.lost = hist.lost
<1> DEFINE Goal ==
        /\ Len(log') = Len(log) + 1 /\ Len(sends') = Len(log')
        /\ \A i \in 1..Len(log) : log'[i] = log[i] /\ sends'[i] = sends[i]
        /\ ~sends'[Len(log) + 1].acked
        /\ UNCHANGED <<user, tasks>>
        /\ hist'.applied = hist.applied /\ hist'.missed = hist.missed
        /\ hist'.disorder = hist.disorder /\ hist'.granted = hist.granted
        /\ hist'.lost = hist.lost
<1>1. ASSUME NEW s \in stripe.sessions, PaySession(s) PROVE Goal
  <2>1. Emit("completed", s.customer, s.plan) /\ UNCHANGED <<user, tasks>>
    BY <1>1 DEF PaySession
  <2>2. s.customer \in Nat /\ s.plan \in Items
    BY Shapes DEF StripeState, Items, Plans
  <2>3. Noted
    BY <1>1, SessionNoted
  <2>4. QED
    BY <2>1, <2>2, <2>3, EmitFacts DEF Noted
<1>2. ASSUME NEW s \in 1..Len(stripe.subs), NEW item \in OnSale, UpdateSub(s, item) PROVE Goal
  <2>1. Emit("updated", stripe.subs[s].customer, item) /\ UNCHANGED <<user, tasks, hist>>
    BY <1>2 DEF UpdateSub
  <2>2. stripe.subs[s] \in Subscription
    BY LogFacts, ElementOfSeq
  <2>3. stripe.subs[s].customer \in Nat /\ item \in Items
    BY <2>2 DEF Subscription, OnSale, Items, Plans
  <2>4. QED
    BY <2>1, <2>3, EmitFacts
<1>3. ASSUME NEW s \in 1..Len(stripe.subs), CancelSub(s) PROVE Goal
  <2>1. Emit("deleted", stripe.subs[s].customer, stripe.subs[s].plan) /\ UNCHANGED <<user, tasks, hist>>
    BY <1>3 DEF CancelSub
  <2>2. stripe.subs[s] \in Subscription
    BY LogFacts, ElementOfSeq
  <2>3. stripe.subs[s].customer \in Nat /\ stripe.subs[s].plan \in Items
    BY <2>2 DEF Subscription, OnSale, Items, Plans
  <2>4. QED
    BY <2>1, <2>3, EmitFacts
<1>4. ASSUME NEW o \in 1..Len(paymenter.orders), NEW item \in Items, PayOrder(o, item) PROVE Goal
  <2>1. Emit("paid", o, item) /\ UNCHANGED <<user, tasks>>
    BY <1>4 DEF PayOrder
  <2>2. Noted
    BY <1>4, OrderNoted
  <2>3. o \in Nat
    BY LogFacts
  <2>4. QED
    BY <2>1, <2>2, <2>3, EmitFacts DEF Noted
<1>5. QED
  BY <1>1, <1>2, <1>3, <1>4 DEF Sell

\* The plan is the last event's, as long as events are applied in order.
LastApplied ==
    ~hist.disorder /\ ~hist.granted =>
        \/ hist.applied = {} /\ user.plan = "free"
        \/ \E i \in hist.applied : (\A j \in hist.applied : j <= i) /\ user.plan = PlanOf(log[i])

\* Whatever the order, a paid plan is that of some event.
PlanOfSomeEvent ==
    user.plan \in PaidPlans => hist.granted \/ \E i \in hist.applied : user.plan = PlanOf(log[i])

EventInv == TypeInv /\ AnsweredIsWritten /\ LastApplied /\ PlanOfSomeEvent

LEMMA EventInit == ASSUME Init PROVE EventInv
<1>1. Acked = {} /\ hist.applied = {} /\ user.plan = "free"
  BY EmptySeq DEF Init, Acked
<1>2. QED
  BY <1>1, TypesInit, BillingAssumption DEF EventInv, AnsweredIsWritten, LastApplied, PlanOfSomeEvent

LEMMA QuietKeepsEvents == ASSUME EventInv, Quiet, TypeInv' PROVE EventInv'
  BY DEF EventInv, Quiet, AnsweredIsWritten, Acked, LastApplied, PlanOfSomeEvent

LEMMA SaleKeepsEvents == ASSUME EventInv, Sell, TypeInv' PROVE EventInv'
<1>1. hist.applied \subseteq 1..Len(log) /\ TypeInv
  BY DEF EventInv, TypeInv
<1>2. /\ Len(log') = Len(log) + 1
      /\ \A i \in 1..Len(log) : log'[i] = log[i] /\ sends'[i] = sends[i]
      /\ ~sends'[Len(log) + 1].acked
      /\ user' = user
      /\ hist'.applied = hist.applied /\ hist'.missed = hist.missed
      /\ hist'.disorder = hist.disorder /\ hist'.granted = hist.granted
  BY <1>1, SaleEmits
<1>3. Acked' = Acked
  <2>1. Len(log) \in Nat
    BY <1>1, LogFacts
  <2>2. 1..Len(log') = (1..Len(log)) \cup {Len(log) + 1}
    BY <1>2, <2>1
  <2>3. QED
    BY <1>2, <2>1, <2>2 DEF Acked
<1>4. AnsweredIsWritten'
  <2>1. Acked \subseteq 1..Len(log)
    BY DEF Acked
  <2>2. QED
    BY <1>2, <1>3, <2>1 DEF EventInv, AnsweredIsWritten
<1>5. \A i \in hist.applied : PlanOf(log'[i]) = PlanOf(log[i])
  BY <1>1, <1>2
<1>6. LastApplied' /\ PlanOfSomeEvent'
  BY <1>2, <1>5 DEF EventInv, LastApplied, PlanOfSomeEvent
<1>7. QED
  BY <1>4, <1>6 DEF EventInv

LEMMA DeliverKeepsEvents ==
    ASSUME EventInv, NEW t \in Tasks, NEW i \in 1..Len(log), Deliver(t, i), TypeInv'
    PROVE  EventInv'
<1>1. UNCHANGED <<user, log>> /\ TypeInv /\ (Taken(t, i) \/ Answered(i))
  BY DeliverFacts DEF EventInv
<1>2. CASE Taken(t, i)
  <2>1. hist' = hist /\ \A j \in 1..Len(log) : sends'[j].acked = sends[j].acked
    BY <1>2 DEF Taken
  <2>2. Acked' = Acked
    BY <1>1, <2>1 DEF Acked
  <2>3. QED
    BY <1>1, <2>1, <2>2 DEF EventInv, AnsweredIsWritten, LastApplied, PlanOfSomeEvent
<1>3. CASE Answered(i)
  <2>1. Acked' \subseteq Acked \cup {i}
    BY <1>1, <1>3 DEF Answered, Acked
  <2>2. /\ hist'.applied = hist.applied
        /\ hist.missed \subseteq hist'.missed
        /\ i \in hist'.missed \/ PlanOf(log[i]) = "none"
        /\ hist'.disorder = hist.disorder /\ hist'.granted = hist.granted
    BY <1>3 DEF Answered
  <2>3. PlanOf(log[i]) = "none" => log[i].kind \in {"updated", "paid"} /\ log[i].plan = "other"
    BY <1>1, PlanAsked
  <2>4. AnsweredIsWritten'
    BY <1>1, <2>1, <2>2, <2>3 DEF EventInv, AnsweredIsWritten
  <2>5. QED
    BY <1>1, <2>2, <2>4 DEF EventInv, LastApplied, PlanOfSomeEvent
<1>4. QED
  BY <1>1, <1>2, <1>3

LEMMA ApplyKeepsEvents == ASSUME EventInv, NEW t \in Tasks, Apply(t), TypeInv' PROVE EventInv'
<1>1. TypeInv /\ hist.applied \subseteq 1..Len(log)
  BY DEF EventInv, TypeInv
<1>2. PICK i \in 1..Len(log) :
         /\ log[i] \in Event /\ PlanOf(log[i]) \in Plans
         /\ user' = Written(log[i])
         /\ \A j \in 1..Len(log) \ {i} : sends'[j] = sends[j]
         /\ hist'.applied = hist.applied \cup {i} /\ hist'.missed = hist.missed
         /\ hist'.granted = hist.granted
         /\ ~hist'.disorder => ~hist.disorder /\ \A j \in hist.applied : ~(j > i)
         /\ log' = log
  BY <1>1, ApplyFacts
<1>3. user'.plan = PlanOf(log'[i])
  BY <1>1, <1>2, WrittenFacts
<1>4. AnsweredIsWritten'
  <2>1. Acked' \subseteq Acked \cup {i}
    BY <1>2 DEF Acked
  <2>2. QED
    BY <1>2, <2>1 DEF EventInv, AnsweredIsWritten
<1>5. LastApplied'
  <2>1. \A j \in hist.applied : j \in Int
    BY <1>1, LogFacts
  <2>2. ~hist'.disorder => \A j \in hist'.applied : j <= i
    BY <1>2, <2>1
  <2>3. QED
    BY <1>2, <1>3, <2>2 DEF LastApplied
<1>6. PlanOfSomeEvent'
  BY <1>2, <1>3 DEF PlanOfSomeEvent
<1>7. QED
  BY <1>4, <1>5, <1>6 DEF EventInv

LEMMA AdminKeepsEvents == ASSUME EventInv, NEW plan \in Plans, AdminPlan(plan), TypeInv' PROVE EventInv'
<1>1. hist' = [hist EXCEPT !.granted = TRUE] /\ UNCHANGED <<log, sends>>
  BY DEF AdminPlan
<1>2. hist'.granted /\ hist'.applied = hist.applied /\ hist'.missed = hist.missed
  BY <1>1, Shapes DEF EventInv, History
<1>3. QED
  BY <1>1, <1>2 DEF EventInv, AnsweredIsWritten, Acked, LastApplied, PlanOfSomeEvent

LEMMA EventStep == ASSUME EventInv, [Next]_vars PROVE EventInv'
<1>1. TypeInv /\ TypeInv'
  BY TypesStep DEF EventInv
<1>2. CASE UNCHANGED vars
  <2>1. Quiet
    BY <1>2 DEF vars, Quiet
  <2>2. QED
    BY <1>1, <2>1, QuietKeepsEvents
<1>3. ASSUME NEW t \in Tasks, Serve(t) PROVE EventInv'
  <2>1. CASE CheckoutStep(t)
    BY <1>1, <2>1, CheckoutQuiet, QuietKeepsEvents
  <2>2. QED
    BY <1>1, <1>3, <2>1, DeliverKeepsEvents, ApplyKeepsEvents DEF Serve, CheckoutStep
<1>4. QED
  BY <1>1, <1>2, <1>3, SaleKeepsEvents, AdminKeepsEvents DEF Next

(* An event answered with 200 was written, or matched no account, or was of
   something that is no plan: none is forgotten because a statement failed or
   others wrote the account meanwhile (routes/billing.js:95, 118-122, 152-166). *)
THEOREM AnsweredWritten == Spec => []AnsweredIsWritten
<1>1. EventInv => AnsweredIsWritten
  BY DEF EventInv
<1>2. QED
  BY <1>1, EventInit, EventStep, PTL DEF Spec

(* With prices shared by several plans the plan written may not be the one that
   was sold, but it is always one an event asks for (config/plans.js:32-38). *)
THEOREM PlanOfEvent == Spec => []PlanOfSomeEvent
<1>1. EventInv => PlanOfSomeEvent
  BY DEF EventInv
<1>2. QED
  BY <1>1, EventInit, EventStep, PTL DEF Spec

\* Every plan has a price and a product of its own, as the deployment is meant
\* to be configured (.env.example:53-54, 62-63), and nothing else has them.
OwnPrices ==
    \A p, q \in Items : Price[p] = Price[q] \/ Product[p] = Product[q] => p = q

(* An event that asks for a paid plan names it, and is not a cancellation. *)
LEMMA OwnPlan ==
    ASSUME OwnPrices, NEW e \in Event
    PROVE  /\ PlanOf(e) \in PaidPlans => e.plan = PlanOf(e)
           /\ e.plan \in PaidPlans /\ e.kind # "deleted" => PlanOf(e) = e.plan
           /\ e.kind = "deleted" => PlanOf(e) = "free"
<1>1. e.plan \in Items /\ e.kind \in {"completed", "updated", "deleted", "paid"}
  BY DEF Event
<1>2. Plans \subseteq Items /\ PaidPlans \subseteq Plans
  BY DEF Items, Plans
<1>3. "none" \notin PaidPlans /\ "other" \notin PaidPlans /\ "free" \notin PaidPlans
  BY BillingAssumption
<1>4. PICK item \in Items : item = e.plan
  BY <1>1
<1>5. PlanByPrice(item) = item \/ (PlanByPrice(item) = "none" /\ item = "other")
  BY <1>2, PriceFound DEF OwnPrices
<1>6. PlanByProduct(item) = item \/ (PlanByProduct(item) = "none" /\ item = "other")
  BY <1>2, PriceFound DEF OwnPrices
<1>7. QED
  BY <1>1, <1>3, <1>4, <1>5, <1>6 DEF PlanOf

(* No plan without payment: a paid plan was the plan of an event, or an admin's
   choice (routes/billing.js:81, 96, 153; routes/admin.js:61). *)
THEOREM PlanPaid == ASSUME OwnPrices PROVE Spec => []PlanWasPaid
<1>1. ASSUME EventInv PROVE PlanWasPaid
  <2>1. hist.applied \subseteq 1..Len(log) /\ log \in Seq(Event)
    BY <1>1, LogFacts DEF EventInv, TypeInv
  <2>2. \A i \in hist.applied : log[i] \in Event
    BY <2>1, ElementOfSeq
  <2>3. \A i \in hist.applied : PlanOf(log[i]) \in PaidPlans => log[i].plan = PlanOf(log[i])
    BY <2>2, OwnPlan, BillingAssumption
  <2>4. QED
    BY <1>1, <2>3 DEF EventInv, PlanOfSomeEvent, PlanWasPaid
<1>2. EventInv => PlanWasPaid
  BY <1>1
<1>3. QED
  BY <1>2, EventInit, EventStep, PTL DEF Spec

-----------------------------------------------------------------------------
\* One purchase at a time

\* What the last event of all is about: the order it names, or the plan.
LastEvent == log[Len(log)]
LastIsOrder == Len(log) # 0 /\ LastEvent.kind = "paid"
Wanted ==
    IF Len(log) = 0 \/ LastEvent.kind = "deleted" THEN {}
    ELSE IF LastIsOrder THEN {paymenter.orders[LastEvent.of].plan}
    ELSE {LastEvent.plan}

\* With one purchase at a time, the last event tells what is paid for.
OneSale ==
    ~hist.doubled =>
        /\ \A s, q \in LiveSubs : s = q
        /\ LiveSubs = {} \/ PaidOrders = {}
        /\ LastIsOrder => LastEvent.of \in PaidOrders
        /\ Purchased = Wanted

SaleInv == EventInv /\ OneSale

LEMMA SaleInit == ASSUME Init PROVE SaleInv
<1>1. Len(log) = 0 /\ Len(stripe.subs) = 0 /\ Len(paymenter.orders) = 0
  BY EmptySeq DEF Init
<1>2. LiveSubs = {} /\ PaidOrders = {}
  BY <1>1 DEF LiveSubs, PaidOrders
<1>3. Purchased = {} /\ Wanted = {} /\ ~LastIsOrder
  BY <1>1, <1>2 DEF Purchased, Wanted, LastIsOrder
<1>4. QED
  BY <1>2, <1>3, EventInit DEF SaleInv, OneSale

(* A step that emits nothing leaves what is paid for. *)
LEMMA SalesKept ==
    ASSUME SaleInv, EventInv', UNCHANGED log, hist'.doubled = hist.doubled,
           stripe'.subs = stripe.subs,
           \A o \in 1..Len(paymenter'.orders) :
              paymenter'.orders[o].paid =>
                 /\ o \in 1..Len(paymenter.orders) /\ paymenter.orders[o].paid
                 /\ paymenter'.orders[o].plan = paymenter.orders[o].plan,
           \A o \in PaidOrders : o \in 1..Len(paymenter'.orders) /\ paymenter'.orders[o].paid
    PROVE  SaleInv'
<1>1. LiveSubs' = LiveSubs
  BY DEF LiveSubs
<1>2. PaidOrders' = PaidOrders
  BY DEF PaidOrders
<1>3. \A o \in PaidOrders : paymenter'.orders[o].plan = paymenter.orders[o].plan
  BY DEF PaidOrders
<1>4. Purchased' = Purchased
  BY <1>1, <1>2, <1>3 DEF Purchased
<1>5. LastEvent' = LastEvent /\ (LastIsOrder' <=> LastIsOrder)
  BY DEF LastEvent, LastIsOrder
<1>6. (LastIsOrder => LastEvent.of \in PaidOrders) => Wanted' = Wanted
  BY <1>3, <1>5 DEF Wanted
<1>7. QED
  BY <1>1, <1>2, <1>4, <1>5, <1>6 DEF SaleInv, OneSale

(* After a sale, what is paid for is what its event says. *)
LEMMA WantedNow ==
    ASSUME TypeInv, NEW kind \in {"completed", "updated", "deleted", "paid"}, NEW of \in Nat,
           NEW plan \in Items, Emit(kind, of, plan)
    PROVE  /\ LastIsOrder' <=> kind = "paid"
           /\ LastEvent'.of = of
           /\ kind = "deleted" => Wanted' = {}
           /\ kind = "paid" => Wanted' = {paymenter'.orders[of].plan}
           /\ kind \in {"completed", "updated"} => Wanted' = {plan}
<1>1. /\ Len(log') = Len(log) + 1 /\ Len(log) \in Nat
      /\ log'[Len(log) + 1] = [kind |-> kind, of |-> of, plan |-> plan]
  BY EmitFacts, LogFacts
<1>2. Len(log') # 0 /\ log'[Len(log')] = [kind |-> kind, of |-> of, plan |-> plan]
  BY <1>1
<1>3. LastEvent' = [kind |-> kind, of |-> of, plan |-> plan]
  BY <1>2 DEF LastEvent
<1>4. LastIsOrder' <=> kind = "paid"
  BY <1>2, <1>3 DEF LastIsOrder
<1>5. QED
  BY <1>2, <1>3, <1>4 DEF Wanted

LEMMA PaySessionSale ==
    ASSUME SaleInv, NEW s \in stripe.sessions, PaySession(s)
    PROVE  OneSale'
<1> USE DEF SaleInv, EventInv
<1> DEFINE b == [customer |-> s.customer, plan |-> s.plan, live |-> TRUE]
<1>1. /\ stripe' = [stripe EXCEPT !.sessions = @ \ {s}, !.subs = Append(@, b)]
      /\ Emit("completed", s.customer, s.plan)
      /\ UNCHANGED paymenter
  BY DEF PaySession
<1>2. s \in [customer : 1..MaxCustomers, plan : PaidPlans]
  BY Shapes DEF StripeState
<1>3. s.customer \in Nat /\ s.plan \in Items /\ b \in Subscription
  BY <1>2 DEF Subscription, OnSale, Items, Plans
<1>4. stripe'.subs = Append(stripe.subs, b)
  BY <1>1, Shapes DEF StripeState
<1>5. /\ Len(stripe'.subs) = Len(stripe.subs) + 1 /\ Len(stripe.subs) \in Nat
      /\ \A q \in 1..Len(stripe.subs) : stripe'.subs[q] = stripe.subs[q]
      /\ stripe'.subs[Len(stripe.subs) + 1] = b
  BY <1>3, <1>4, LogFacts, AppendProperties
<1>6. SUFFICES ASSUME ~hist'.doubled
               PROVE  /\ \A q, p \in LiveSubs' : q = p
                      /\ LiveSubs' = {} \/ PaidOrders' = {}
                      /\ LastIsOrder' => LastEvent'.of \in PaidOrders'
                      /\ Purchased' = Wanted'
  BY DEF OneSale
<1>7. LiveSubs = {} /\ PaidOrders = {}
  BY <1>6, SessionNoted DEF Noted
<1>8. LiveSubs' = {Len(stripe.subs) + 1}
  BY <1>5, <1>7 DEF LiveSubs
<1>9. PaidOrders' = {}
  BY <1>1, <1>7 DEF PaidOrders
<1>10. stripe'.subs[Len(stripe.subs) + 1].plan = s.plan
  BY <1>5
<1>11. Purchased' = {s.plan}
  BY <1>8, <1>9, <1>10 DEF Purchased
<1>12. Wanted' = {s.plan} /\ ~LastIsOrder'
  BY <1>1, <1>3, WantedNow
<1>13. QED
  BY <1>8, <1>9, <1>11, <1>12

LEMMA UpdateSubSale ==
    ASSUME SaleInv, NEW s \in 1..Len(stripe.subs), NEW item \in OnSale, UpdateSub(s, item)
    PROVE  OneSale'
<1> USE DEF SaleInv, EventInv
<1> DEFINE b == [stripe.subs[s] EXCEPT !.plan = item]
<1>1. /\ stripe.subs[s].live
      /\ stripe' = [stripe EXCEPT !.subs[s] = b]
      /\ Emit("updated", stripe.subs[s].customer, item)
      /\ UNCHANGED <<paymenter, hist>>
  BY Shapes DEF UpdateSub, StripeState
<1>2. stripe.subs[s] \in Subscription
  BY LogFacts, ElementOfSeq
<1>3. /\ b \in Subscription /\ b.plan = item /\ b.live = stripe.subs[s].live
      /\ stripe.subs[s].customer \in Nat /\ item \in Items
  BY <1>2 DEF Subscription, OnSale, Items, Plans
<1>4. /\ Len(stripe'.subs) = Len(stripe.subs)
      /\ \A q \in 1..Len(stripe.subs) : stripe'.subs[q] = IF q = s THEN b ELSE stripe.subs[q]
  BY <1>1, <1>3, SubFacts
<1> HIDE DEF b
<1>5. SUFFICES ASSUME ~hist.doubled
               PROVE  /\ \A q, p \in LiveSubs' : q = p
                      /\ LiveSubs' = {} \/ PaidOrders' = {}
                      /\ LastIsOrder' => LastEvent'.of \in PaidOrders'
                      /\ Purchased' = Wanted'
  BY <1>1 DEF OneSale
<1>6. s \in LiveSubs
  BY <1>1 DEF LiveSubs
<1>7. LiveSubs = {s} /\ PaidOrders = {}
  BY <1>5, <1>6 DEF OneSale
<1>8. \A q \in 1..Len(stripe.subs) : stripe'.subs[q].live <=> stripe.subs[q].live
  <2>1. ASSUME NEW q \in 1..Len(stripe.subs) PROVE stripe'.subs[q].live <=> stripe.subs[q].live
    <3>1. CASE q = s
      BY <1>3, <1>4, <3>1
    <3>2. CASE q # s
      BY <1>4, <3>2
    <3>3. QED
      BY <3>1, <3>2
  <2>2. QED
    BY <2>1
<1>9. LiveSubs' = LiveSubs
  BY <1>4, <1>8 DEF LiveSubs
<1>10. PaidOrders' = {}
  BY <1>1, <1>7 DEF PaidOrders
<1>11. stripe'.subs[s].plan = item
  BY <1>3, <1>4
<1>12. Purchased' = {item}
  BY <1>7, <1>9, <1>10, <1>11 DEF Purchased
<1>13. Wanted' = {item} /\ ~LastIsOrder'
  BY <1>1, <1>3, WantedNow
<1>14. QED
  BY <1>7, <1>9, <1>10, <1>12, <1>13

LEMMA CancelSubSale ==
    ASSUME SaleInv, NEW s \in 1..Len(stripe.subs), CancelSub(s)
    PROVE  OneSale'
<1> USE DEF SaleInv, EventInv
<1> DEFINE b == [stripe.subs[s] EXCEPT !.live = FALSE]
<1>1. /\ stripe.subs[s].live
      /\ stripe' = [stripe EXCEPT !.subs[s] = b]
      /\ Emit("deleted", stripe.subs[s].customer, stripe.subs[s].plan)
      /\ UNCHANGED <<paymenter, hist>>
  BY Shapes DEF CancelSub, StripeState
<1>2. stripe.subs[s] \in Subscription
  BY LogFacts, ElementOfSeq
<1>3. b \in Subscription /\ ~b.live
  BY <1>2 DEF Subscription
<1>4. stripe.subs[s].customer \in Nat /\ stripe.subs[s].plan \in Items
  BY <1>2 DEF Subscription, OnSale, Items, Plans
<1>5. /\ Len(stripe'.subs) = Len(stripe.subs)
      /\ \A q \in 1..Len(stripe.subs) : stripe'.subs[q] = IF q = s THEN b ELSE stripe.subs[q]
  BY <1>1, <1>3, SubFacts
<1> HIDE DEF b
<1>6. SUFFICES ASSUME ~hist.doubled
               PROVE  /\ \A q, p \in LiveSubs' : q = p
                      /\ LiveSubs' = {} \/ PaidOrders' = {}
                      /\ LastIsOrder' => LastEvent'.of \in PaidOrders'
                      /\ Purchased' = Wanted'
  BY <1>1 DEF OneSale
<1>7. s \in LiveSubs
  BY <1>1 DEF LiveSubs
<1>8. LiveSubs = {s} /\ PaidOrders = {}
  BY <1>6, <1>7 DEF OneSale
<1>9. \A q \in 1..Len(stripe.subs) : ~stripe'.subs[q].live
  <2>1. ASSUME NEW q \in 1..Len(stripe.subs) PROVE ~stripe'.subs[q].live
    <3>1. CASE q = s
      BY <1>3, <1>5, <3>1
    <3>2. CASE q # s
      <4>1. q \notin LiveSubs
        BY <1>8, <3>2
      <4>2. ~stripe.subs[q].live
        BY <4>1 DEF LiveSubs
      <4>3. QED
        BY <1>5, <3>2, <4>2
    <3>3. QED
      BY <3>1, <3>2
  <2>2. QED
    BY <2>1
<1>10. LiveSubs' = {}
  BY <1>5, <1>9 DEF LiveSubs
<1>11. PaidOrders' = {}
  BY <1>1, <1>8 DEF PaidOrders
<1>12. Purchased' = {}
  BY <1>10, <1>11 DEF Purchased
<1>13. Wanted' = {} /\ ~LastIsOrder'
  BY <1>1, <1>4, WantedNow
<1>14. QED
  BY <1>10, <1>11, <1>12, <1>13

LEMMA PayOrderSale ==
    ASSUME SaleInv, NEW o \in 1..Len(paymenter.orders), NEW item \in Items,
           PayOrder(o, item)
    PROVE  OneSale'
<1> USE DEF SaleInv, EventInv
<1> DEFINE b == [paymenter.orders[o] EXCEPT !.paid = TRUE]
<1>1. /\ paymenter' = [paymenter EXCEPT !.orders[o] = b]
      /\ Emit("paid", o, item)
      /\ UNCHANGED stripe
  BY Shapes DEF PayOrder, PaymenterState
<1>2. paymenter.orders[o] \in Order
  BY LogFacts, ElementOfSeq
<1>3. b \in Order /\ b.paid = TRUE /\ b.plan = paymenter.orders[o].plan
  BY <1>2 DEF Order
<1>4. o \in Nat
  BY LogFacts
<1>5. /\ Len(paymenter'.orders) = Len(paymenter.orders)
      /\ \A q \in 1..Len(paymenter.orders) :
            paymenter'.orders[q] = IF q = o THEN b ELSE paymenter.orders[q]
  BY <1>1, <1>3, OrderFacts
<1> HIDE DEF b
<1>6. SUFFICES ASSUME ~hist'.doubled
               PROVE  /\ \A q, p \in LiveSubs' : q = p
                      /\ LiveSubs' = {} \/ PaidOrders' = {}
                      /\ LastIsOrder' => LastEvent'.of \in PaidOrders'
                      /\ Purchased' = Wanted'
  BY DEF OneSale
<1>7. LiveSubs = {} /\ PaidOrders = {}
  BY <1>6, OrderNoted DEF Noted
<1>8. LiveSubs' = {}
  BY <1>1, <1>7 DEF LiveSubs
<1>9. \A q \in 1..Len(paymenter.orders) : paymenter'.orders[q].paid <=> q = o
  <2>1. ASSUME NEW q \in 1..Len(paymenter.orders) PROVE paymenter'.orders[q].paid <=> q = o
    <3>1. CASE q = o
      BY <1>3, <1>5, <3>1
    <3>2. CASE q # o
      <4>1. ~paymenter.orders[q].paid
        BY <1>7 DEF PaidOrders
      <4>2. QED
        BY <1>5, <3>2, <4>1
    <3>3. QED
      BY <3>1, <3>2
  <2>2. QED
    BY <2>1
<1>10. PaidOrders' = {o}
  BY <1>5, <1>9 DEF PaidOrders
<1>11. paymenter'.orders[o].plan = paymenter.orders[o].plan
  BY <1>3, <1>5
<1>12. Purchased' = {paymenter.orders[o].plan}
  BY <1>8, <1>10, <1>11 DEF Purchased
<1>13. Wanted' = {paymenter.orders[o].plan} /\ LastEvent'.of = o
  BY <1>1, <1>4, <1>11, WantedNow
<1>14. QED
  BY <1>8, <1>10, <1>12, <1>13

LEMMA SaleStep == ASSUME SaleInv, [Next]_vars PROVE SaleInv'
<1> USE DEF SaleInv
<1>1. EventInv' /\ TypeInv
  BY EventStep DEF EventInv
<1>2. ASSUME UNCHANGED <<log, paymenter>>, stripe'.subs = stripe.subs, hist'.doubled = hist.doubled
      PROVE  SaleInv'
  BY <1>1, <1>2, SalesKept DEF PaidOrders
<1>3. CASE UNCHANGED vars
  BY <1>2, <1>3 DEF vars
<1>4. ASSUME NEW t \in Tasks, Serve(t) PROVE SaleInv'
  <2>1. CASE CreateOrder(t)
    <3>1. /\ Len(paymenter'.orders) = Len(paymenter.orders) + 1 /\ Len(paymenter.orders) \in Nat
          /\ \A o \in 1..Len(paymenter.orders) : paymenter'.orders[o] = paymenter.orders[o]
          /\ ~paymenter'.orders[Len(paymenter.orders) + 1].paid
          /\ UNCHANGED <<stripe, log, hist>>
      BY <1>1, <2>1, NewOrder, LogFacts
    <3>2. \A o \in 1..Len(paymenter'.orders) :
             paymenter'.orders[o].paid =>
                /\ o \in 1..Len(paymenter.orders) /\ paymenter.orders[o].paid
                /\ paymenter'.orders[o].plan = paymenter.orders[o].plan
      BY <3>1
    <3>3. \A o \in PaidOrders : o \in 1..Len(paymenter'.orders) /\ paymenter'.orders[o].paid
      BY <3>1 DEF PaidOrders
    <3>4. QED
      BY <1>1, <3>1, <3>2, <3>3, SalesKept
  <2>2. CASE SaveOrder(t)
    BY <1>2, <2>2 DEF SaveOrder
  <2>3. CASE CreateCustomer(t) \/ CreateSession(t)
    <3>1. stripe'.subs = stripe.subs /\ UNCHANGED <<log, paymenter, hist>>
      BY <1>1, <2>3, Shapes DEF CreateCustomer, CreateSession, StripeState
    <3>2. QED
      BY <1>2, <3>1
  <2>4. CASE CreateUser(t)
    <3>1. paymenter'.orders = paymenter.orders /\ UNCHANGED <<log, stripe, hist>>
      BY <1>1, <2>4, Shapes DEF CreateUser, PaymenterState
    <3>2. QED
      BY <1>1, <3>1, SalesKept DEF PaidOrders
  <2>5. CASE SaveCustomer(t)
    <3>1. Quiet /\ UNCHANGED <<log, stripe, paymenter>>
      BY <1>1, <2>5, CheckoutQuiet DEF CheckoutStep, SaveCustomer
    <3>2. QED
      BY <1>2, <3>1 DEF Quiet
  <2>6. CASE Apply(t)
    <3>1. hist'.doubled = hist.doubled /\ UNCHANGED <<log, stripe, paymenter>>
      BY <1>1, <2>6, ApplyFacts
    <3>2. QED
      BY <1>2, <3>1
  <2>7. ASSUME NEW i \in 1..Len(log), Deliver(t, i) PROVE SaleInv'
    <3>1. hist'.doubled = hist.doubled
      BY <1>1, <2>7, Shapes DEF Deliver, History
    <3>2. UNCHANGED <<log, stripe, paymenter>>
      BY <2>7 DEF Deliver
    <3>3. QED
      BY <1>2, <3>1, <3>2
  <2>8. ASSUME UNCHANGED <<log, stripe, paymenter, hist>> PROVE SaleInv'
    BY <1>2, <2>8
  <2>9. QED
    BY <1>4, <2>1, <2>2, <2>3, <2>4, <2>5, <2>6, <2>7, <2>8
    DEF Serve, CheckoutStripe, CheckoutPaymenter, FindUser, SaveUser, Fail
<1>5. CASE Sell
  BY <1>1, <1>5, PaySessionSale, CancelSubSale, UpdateSubSale, PayOrderSale DEF Sell
<1>6. ASSUME NEW plan \in Plans, AdminPlan(plan) PROVE SaleInv'
  <2>1. hist'.doubled = hist.doubled /\ UNCHANGED <<log, stripe, paymenter>>
    BY <1>1, <1>6, Shapes DEF AdminPlan, History
  <2>2. QED
    BY <1>2, <2>1
<1>7. QED
  BY <1>3, <1>4, <1>5, <1>6 DEF Next

(* What was bought is what the account gets: with every event answered, the
   plan is that of the one purchase alive, and free without one, as long as what
   was bought is a plan and the event of an order says which, the events were
   applied in order and found the account, one purchase was alive at a time, and
   no admin stepped in (routes/billing.js:75-114, 148-157). *)
THEOREM PlanFollows == ASSUME OwnPrices PROVE Spec => []PlanFollowsPurchase
<1>1. ASSUME SaleInv, Drained, Purchased \subseteq PaidPlans, OrdersNamed,
             ~hist.disorder, hist.missed = {}, ~hist.doubled, ~hist.granted
      PROVE  {user.plan} = IF Purchased = {} THEN {"free"} ELSE Purchased
  <2>1. TypeInv /\ AnsweredIsWritten /\ LastApplied /\ Purchased = Wanted
    BY <1>1 DEF SaleInv, EventInv, OneSale
  <2>2. hist.applied \subseteq 1..Len(log) /\ Len(log) \in Nat
    BY <2>1, LogFacts DEF TypeInv
  <2>3. CASE Len(log) = 0
    <3>1. hist.applied = {}
      BY <2>2, <2>3
    <3>2. user.plan = "free"
      BY <1>1, <2>1, <3>1 DEF LastApplied
    <3>3. Wanted = {}
      BY <2>3 DEF Wanted
    <3>4. QED
      BY <2>1, <3>2, <3>3
  <2>4. CASE Len(log) # 0
    <3>1. PICK n \in 1..Len(log) : n = Len(log)
      BY <2>2, <2>4
    <3>2. log[n] = LastEvent /\ LastEvent \in Event
      BY <2>1, <3>1, LogFacts, ElementOfSeq DEF LastEvent
    <3>3. LastEvent.kind # "deleted" => LastEvent.plan \in PaidPlans /\ Wanted = {LastEvent.plan}
      <4>1. LastEvent.kind = "paid" => LastEvent.plan = paymenter.orders[LastEvent.of].plan
        BY <1>1, <3>1, <3>2 DEF OrdersNamed
      <4>2. LastEvent.kind # "deleted" => Wanted = {LastEvent.plan}
        BY <2>4, <4>1 DEF Wanted, LastIsOrder
      <4>3. QED
        BY <1>1, <2>1, <4>2
    <3>4. n \in hist.applied
      <4>1. n \in Acked
        BY <1>1, <3>1 DEF Drained
      <4>2. "other" \notin PaidPlans
        BY BillingAssumption
      <4>3. QED
        BY <1>1, <2>1, <3>2, <3>3, <4>1, <4>2 DEF AnsweredIsWritten
    <3>5. PICK i \in hist.applied : (\A j \in hist.applied : j <= i) /\ user.plan = PlanOf(log[i])
      BY <1>1, <2>1, <3>4 DEF LastApplied
    <3>6. i = n
      BY <2>2, <3>1, <3>4, <3>5
    <3>7. user.plan = PlanOf(LastEvent)
      BY <3>2, <3>5, <3>6
    <3>8. CASE LastEvent.kind = "deleted"
      <4>1. Wanted = {}
        BY <3>8 DEF Wanted
      <4>2. QED
        BY <1>1, <2>1, <3>2, <3>7, <3>8, <4>1, OwnPlan
    <3>9. CASE LastEvent.kind # "deleted"
      BY <1>1, <2>1, <3>2, <3>3, <3>7, <3>9, OwnPlan
    <3>10. QED
      BY <3>8, <3>9
  <2>5. QED
    BY <2>3, <2>4
<1>2. SaleInv => PlanFollowsPurchase
  BY <1>1 DEF PlanFollowsPurchase
<1>3. QED
  BY <1>2, SaleInit, SaleStep, PTL DEF Spec

-----------------------------------------------------------------------------
\* Events that find no account

\* While the customer of the row was never overwritten, everything that names a
\* customer names that one.
CustomerKept ==
    ~hist.lost =>
        /\ \A t \in Tasks : At(t, "session") => tasks[t].id = user.customer
        /\ \A s \in stripe.sessions : s.customer = user.customer
        /\ \A q \in 1..Len(stripe.subs) : stripe.subs[q].customer = user.customer
        /\ \A i \in 1..Len(log) : log[i].kind \in {"updated", "deleted"} => log[i].of = user.customer

\* An event names a customer, or an order that was paid.
EventsNamed ==
    \A i \in 1..Len(log) :
        /\ log[i].kind \in {"updated", "deleted"} => log[i].of \in 1..MaxCustomers
        /\ log[i].kind = "paid" =>
              log[i].of \in 1..Len(paymenter.orders) /\ paymenter.orders[log[i].of].paid

\* An only order that was the row's when it was paid still is.
FirstOrderKept ==
    Len(paymenter.orders) = 1 /\ paymenter.orders[1].paid /\ ~hist.early => user.order = 1

LinkInv == TypeInv /\ CustomerKept /\ EventsNamed /\ FirstOrderKept /\ MissedExplained

LEMMA LinkInit == ASSUME Init PROVE LinkInv
<1>1. /\ Len(log) = 0 /\ Len(stripe.subs) = 0 /\ Len(paymenter.orders) = 0
      /\ stripe.sessions = {} /\ hist.missed = {}
  BY EmptySeq DEF Init
<1>2. \A t \in Tasks : ~At(t, "session")
  BY DEF Init, At, Idle
<1>3. QED
  BY <1>1, <1>2, TypesInit DEF LinkInv, CustomerKept, EventsNamed, FirstOrderKept, MissedExplained

(* A step that neither sells nor saves. *)
LEMMA LinksKept ==
    ASSUME LinkInv, TypeInv', UNCHANGED log, paymenter'.orders = paymenter.orders,
           user'.customer = user.customer, user'.order = user.order,
           hist'.lost = hist.lost, hist'.early = hist.early, hist'.missed = hist.missed,
           stripe'.sessions = stripe.sessions, stripe'.subs = stripe.subs,
           \A t \in Tasks : At(t, "session")' =>
              \/ At(t, "session") /\ tasks'[t].id = tasks[t].id
              \/ tasks'[t].id = user.customer
    PROVE  LinkInv'
<1>1. CustomerKept'
  BY DEF LinkInv, CustomerKept
<1>2. EventsNamed' /\ FirstOrderKept' /\ MissedExplained'
  BY DEF LinkInv, EventsNamed, FirstOrderKept, MissedExplained
<1>3. QED
  BY <1>1, <1>2 DEF LinkInv

LEMMA CheckoutStripeLinks ==
    ASSUME LinkInv, TypeInv', NEW t \in Tasks, NEW plan \in PaidPlans, CheckoutStripe(t, plan)
    PROVE  LinkInv'
<1>1. /\ tasks' = [tasks EXCEPT ![t] =
                      [pc |-> IF user.customer = None THEN "customer" ELSE "session",
                       plan |-> plan, id |-> user.customer, event |-> None]]
      /\ UNCHANGED <<user, stripe, paymenter, log, sends, hist>>
  BY DEF CheckoutStripe
<1>2. tasks'[t].id = user.customer /\ \A u \in Tasks \ {t} : tasks'[u] = tasks[u]
  BY <1>1, TaskFacts DEF LinkInv
<1>3. \A u \in Tasks : At(u, "session")' =>
         \/ At(u, "session") /\ tasks'[u].id = tasks[u].id
         \/ tasks'[u].id = user.customer
  BY <1>2 DEF At
<1>4. QED
  BY <1>1, <1>3, LinksKept

(* The steps of a checkout that neither make a session or an order nor save. *)
LEMMA AwaitLinks ==
    ASSUME LinkInv, TypeInv', NEW t \in Tasks,
           \/ \E plan \in PaidPlans : CheckoutPaymenter(t, plan)
           \/ CreateCustomer(t) \/ FindUser(t) \/ CreateUser(t) \/ SaveUser(t) \/ Fail(t)
    PROVE  LinkInv'
<1>1. TypeInv
  BY DEF LinkInv
<1>2. /\ UNCHANGED <<log, hist>> /\ paymenter'.orders = paymenter.orders
      /\ stripe'.sessions = stripe.sessions /\ stripe'.subs = stripe.subs
      /\ user'.customer = user.customer /\ user'.order = user.order
  <2>1. CASE CreateCustomer(t)
    BY <1>1, <2>1, Shapes DEF CreateCustomer, StripeState
  <2>2. CASE CreateUser(t)
    BY <1>1, <2>2, Shapes DEF CreateUser, PaymenterState
  <2>3. CASE SaveUser(t)
    BY <1>1, <2>3, Shapes DEF SaveUser, UserRow
  <2>4. QED
    BY <2>1, <2>2, <2>3 DEF CheckoutPaymenter, FindUser, Fail
<1>3. /\ \A u \in Tasks \ {t} : tasks'[u] = tasks[u]
      /\ tasks'[t].pc # "session"
  <2>1. ASSUME NEW plan \in PaidPlans, CheckoutPaymenter(t, plan)
        PROVE  /\ \A u \in Tasks \ {t} : tasks'[u] = tasks[u]
               /\ tasks'[t].pc # "session"
    BY <1>1, <2>1, TaskFacts DEF CheckoutPaymenter
  <2>2. CASE Fail(t)
    BY <1>1, <2>2, IdleFacts DEF Fail, Idle
  <2>3. CASE CreateCustomer(t)
    <3>1. GotoWith(t, "saveCustomer", stripe.customers + 1) /\ stripe.customers + 1 \in Nat
      BY <1>1, <2>3, Shapes, LogFacts DEF CreateCustomer, StripeState
    <3>2. QED
      BY <1>1, <3>1, GotoFacts
  <2>4. CASE CreateUser(t)
    <3>1. PICK id \in Nat : id = paymenter.users + 1
      BY <1>1, <2>4, Shapes, LogFacts DEF PaymenterState
    <3>2. GotoWith(t, "saveUser", id) \/ Goto(t, "order")
      BY <2>4, <3>1 DEF CreateUser
    <3>3. QED
      BY <1>1, <3>2, TaskFacts, GotoFacts
  <2>5. CASE FindUser(t)
    <3>1. GotoWith(t, "saveUser", 1) \/ Goto(t, "createUser")
      BY <2>5 DEF FindUser
    <3>2. QED
      BY <1>1, <3>1, TaskFacts, GotoFacts
  <2>6. CASE SaveUser(t)
    <3>1. Goto(t, "order")
      BY <2>6 DEF SaveUser
    <3>2. QED
      BY <1>1, <3>1, TaskFacts, GotoFacts
  <2>7. QED
    BY <2>1, <2>2, <2>3, <2>4, <2>5, <2>6
<1>4. \A u \in Tasks : At(u, "session")' => At(u, "session") /\ tasks'[u].id = tasks[u].id
  BY <1>3 DEF At
<1>5. QED
  BY <1>2, <1>4, LinksKept

(* The first customer is saved, or one takes the place of another. *)
LEMMA SaveCustomerLinks ==
    ASSUME LinkInv, TypeInv', NEW t \in Tasks, SaveCustomer(t)
    PROVE  LinkInv'
<1> USE DEF LinkInv
<1>1. /\ At(t, "saveCustomer")
      /\ user' = [user EXCEPT !.customer = tasks[t].id]
      /\ hist' = [hist EXCEPT !.lost = @ \/ user.customer # None]
      /\ Goto(t, "session")
      /\ UNCHANGED <<stripe, paymenter, log, sends>>
  BY DEF SaveCustomer
<1>2. user'.customer = tasks[t].id /\ user'.order = user.order
  BY <1>1, Shapes DEF UserRow
<1>3. /\ hist'.missed = hist.missed /\ hist'.early = hist.early
      /\ ~hist'.lost => ~hist.lost /\ user.customer = None
      /\ hist.lost => hist'.lost
  <2>1. PICK lost \in BOOLEAN : lost = (hist.lost \/ user.customer # None)
    OBVIOUS
  <2>2. hist' = [hist EXCEPT !.lost = lost]
    BY <1>1, <2>1
  <2>3. hist'.missed = hist.missed /\ hist'.early = hist.early /\ hist'.lost = lost
    BY <2>2, Shapes DEF History
  <2>4. QED
    BY <2>1, <2>3
<1>4. /\ tasks'[t].id = tasks[t].id
      /\ \A u \in Tasks \ {t} : tasks'[u] = tasks[u]
  BY <1>1, TaskFacts, GotoFacts
<1>5. /\ \A u \in Tasks : At(u, "session") => tasks[u].id # None
      /\ \A s \in stripe.sessions : s.customer # None
  BY Shapes DEF TypeInv, TaskSound, StripeState, None
<1>6. \A q \in 1..Len(stripe.subs) : stripe.subs[q].customer # None
  <2>1. \A q \in 1..Len(stripe.subs) : stripe.subs[q] \in Subscription
    BY LogFacts, ElementOfSeq
  <2>2. QED
    BY <2>1 DEF Subscription, None
<1>7. \A i \in 1..Len(log) : log[i].kind \in {"updated", "deleted"} => log[i].of # None
  BY DEF EventsNamed, None
<1>8. CustomerKept'
  <2>1. SUFFICES ASSUME ~hist'.lost
                 PROVE  /\ \A u \in Tasks : At(u, "session")' => tasks'[u].id = user'.customer
                        /\ \A s \in stripe'.sessions : s.customer = user'.customer
                        /\ \A q \in 1..Len(stripe'.subs) : stripe'.subs[q].customer = user'.customer
                        /\ \A i \in 1..Len(log') :
                              log'[i].kind \in {"updated", "deleted"} => log'[i].of = user'.customer
    BY DEF CustomerKept
  <2>2. ~hist.lost /\ user.customer = None
    BY <1>3, <2>1
  <2>3. \A u \in Tasks : ~At(u, "session")
    BY <1>5, <2>2 DEF CustomerKept
  <2>4. \A u \in Tasks : At(u, "session")' => u = t
    BY <1>4, <2>3 DEF At
  <2>5. QED
    BY <1>1, <1>2, <1>4, <1>5, <1>6, <1>7, <2>2, <2>4 DEF CustomerKept
<1>9. EventsNamed' /\ FirstOrderKept' /\ MissedExplained'
  BY <1>1, <1>2, <1>3 DEF EventsNamed, FirstOrderKept, MissedExplained
<1>10. QED
  BY <1>8, <1>9

LEMMA CreateSessionLinks ==
    ASSUME LinkInv, TypeInv', NEW t \in Tasks, CreateSession(t)
    PROVE  LinkInv'
<1> USE DEF LinkInv
<1> DEFINE s == [customer |-> tasks[t].id, plan |-> tasks[t].plan]
<1>1. /\ At(t, "session") /\ End(t)
      /\ UNCHANGED <<user, paymenter, log, sends, hist>>
  BY DEF CreateSession
<1>2. stripe'.sessions = stripe.sessions \cup {s} /\ stripe'.subs = stripe.subs
  BY Shapes DEF CreateSession, StripeState
<1>3. tasks'[t] = Idle /\ \A u \in Tasks \ {t} : tasks'[u] = tasks[u]
  BY <1>1, IdleFacts
<1>4. \A u \in Tasks : At(u, "session")' => At(u, "session") /\ tasks'[u].id = tasks[u].id
  BY <1>3 DEF At, Idle
<1>5. CustomerKept'
  BY <1>1, <1>2, <1>4 DEF CustomerKept
<1>6. EventsNamed' /\ FirstOrderKept' /\ MissedExplained'
  BY <1>1 DEF EventsNamed, FirstOrderKept, MissedExplained
<1>7. QED
  BY <1>5, <1>6

LEMMA CreateOrderLinks ==
    ASSUME LinkInv, TypeInv', NEW t \in Tasks, CreateOrder(t)
    PROVE  LinkInv'
<1> USE DEF LinkInv
<1>1. /\ Len(paymenter'.orders) = Len(paymenter.orders) + 1 /\ Len(paymenter.orders) \in Nat
      /\ \A o \in 1..Len(paymenter.orders) : paymenter'.orders[o] = paymenter.orders[o]
      /\ ~paymenter'.orders[Len(paymenter.orders) + 1].paid
      /\ UNCHANGED <<user, stripe, log, sends, hist>>
  BY NewOrder, LogFacts
<1>2. /\ tasks'[t].pc # "session"
      /\ \A u \in Tasks \ {t} : tasks'[u] = tasks[u]
  <2>1. PICK id \in Nat : id = Len(paymenter.orders) + 1
    BY <1>1
  <2>2. GotoWith(t, "saveOrder", id) \/ End(t)
    BY <2>1 DEF CreateOrder
  <2>3. CASE GotoWith(t, "saveOrder", id)
    BY <2>3, GotoWithFacts DEF Went
  <2>4. CASE End(t)
    BY <2>4, IdleFacts DEF Idle
  <2>5. QED
    BY <2>2, <2>3, <2>4
<1>3. \A u \in Tasks : At(u, "session")' => At(u, "session") /\ tasks'[u].id = tasks[u].id
  BY <1>2 DEF At
<1>4. CustomerKept'
  BY <1>1, <1>3 DEF CustomerKept
<1>5. EventsNamed'
  BY <1>1 DEF EventsNamed
<1>6. FirstOrderKept'
  BY <1>1 DEF FirstOrderKept
<1>7. MissedExplained'
  BY <1>1 DEF MissedExplained
<1>8. QED
  BY <1>4, <1>5, <1>6, <1>7

LEMMA SaveOrderLinks ==
    ASSUME LinkInv, TypeInv', NEW t \in Tasks, SaveOrder(t)
    PROVE  LinkInv'
<1> USE DEF LinkInv
<1>1. /\ At(t, "saveOrder")
      /\ user' = [user EXCEPT !.order = tasks[t].id, !.provider = "paymenter"]
      /\ End(t)
      /\ UNCHANGED <<stripe, paymenter, log, sends, hist>>
  BY DEF SaveOrder
<1>2. /\ tasks[t].id \in 1..Len(paymenter.orders)
      /\ user'.order = tasks[t].id /\ user'.customer = user.customer
  BY <1>1, TaskFacts, Shapes DEF TaskSound, UserRow
<1>3. tasks'[t] = Idle /\ \A u \in Tasks \ {t} : tasks'[u] = tasks[u]
  BY <1>1, IdleFacts
<1>4. \A u \in Tasks : At(u, "session")' => At(u, "session") /\ tasks'[u].id = tasks[u].id
  BY <1>3 DEF At, Idle
<1>5. CustomerKept'
  BY <1>1, <1>2, <1>4 DEF CustomerKept
<1>6. FirstOrderKept'
  BY <1>1, <1>2, LogFacts DEF FirstOrderKept
<1>7. EventsNamed' /\ MissedExplained'
  BY <1>1 DEF EventsNamed, MissedExplained
<1>8. QED
  BY <1>5, <1>6, <1>7

(* A sale that names the customer the row has, or a paid order. *)
LEMMA SaleLinks ==
    ASSUME LinkInv, TypeInv', NEW kind \in {"completed", "updated", "deleted", "paid"}, NEW of \in Nat,
           NEW plan \in Items, Emit(kind, of, plan), UNCHANGED <<user, tasks>>,
           kind \in {"updated", "deleted"} => of \in 1..MaxCustomers /\ (~hist.lost => of = user.customer),
           kind = "paid" => of \in 1..Len(paymenter.orders) /\ paymenter'.orders[of].paid,
           hist'.lost = hist.lost, hist.early => hist'.early, hist'.missed = hist.missed,
           stripe'.sessions \subseteq stripe.sessions,
           ~hist.lost => \A q \in 1..Len(stripe'.subs) : stripe'.subs[q].customer = user.customer,
           Len(paymenter'.orders) = Len(paymenter.orders),
           \A o \in 1..Len(paymenter.orders) : paymenter.orders[o].paid => paymenter'.orders[o].paid,
           FirstOrderKept'
    PROVE  LinkInv'
<1> USE DEF LinkInv
<1>1. /\ Len(log') = Len(log) + 1 /\ Len(log) \in Nat /\ Len(paymenter.orders) \in Nat
      /\ \A i \in 1..Len(log) : log'[i] = log[i]
      /\ log'[Len(log) + 1] = [kind |-> kind, of |-> of, plan |-> plan]
  BY EmitFacts, LogFacts
<1>2. ASSUME NEW i \in 1..Len(log') PROVE i \in 1..Len(log) \/ i = Len(log) + 1
  BY <1>1
<1>3. CustomerKept'
  BY <1>1, <1>2 DEF CustomerKept, At
<1>4. EventsNamed'
  BY <1>1, <1>2 DEF EventsNamed
<1>5. MissedExplained'
  BY DEF MissedExplained
<1>6. QED
  BY <1>3, <1>4, <1>5

LEMMA PaySessionLinks ==
    ASSUME LinkInv, TypeInv', NEW s \in stripe.sessions, PaySession(s)
    PROVE  LinkInv'
<1> USE DEF LinkInv
<1> DEFINE b == [customer |-> s.customer, plan |-> s.plan, live |-> TRUE]
<1>1. /\ stripe' = [stripe EXCEPT !.sessions = @ \ {s}, !.subs = Append(@, b)]
      /\ Emit("completed", s.customer, s.plan)
      /\ UNCHANGED <<user, tasks, paymenter>>
  BY DEF PaySession
<1>2. s \in [customer : 1..MaxCustomers, plan : PaidPlans]
  BY Shapes DEF StripeState
<1>3. s.customer \in Nat /\ s.plan \in Items /\ b \in Subscription
  BY <1>2 DEF Subscription, OnSale, Items, Plans
<1>4. stripe'.sessions = stripe.sessions \ {s} /\ stripe'.subs = Append(stripe.subs, b)
  BY <1>1, Shapes DEF StripeState
<1>5. /\ Len(stripe'.subs) = Len(stripe.subs) + 1 /\ Len(stripe.subs) \in Nat
      /\ \A q \in 1..Len(stripe.subs) : stripe'.subs[q] = stripe.subs[q]
      /\ stripe'.subs[Len(stripe.subs) + 1] = b
  BY <1>3, <1>4, LogFacts, AppendProperties
<1>6. ~hist.lost => \A q \in 1..Len(stripe'.subs) : stripe'.subs[q].customer = user.customer
  BY <1>5 DEF CustomerKept
<1>7. hist'.lost = hist.lost /\ (hist.early => hist'.early) /\ hist'.missed = hist.missed
  BY SessionNoted DEF Noted
<1>8. FirstOrderKept'
  BY <1>1, <1>7 DEF FirstOrderKept
<1>9. QED
  BY <1>1, <1>3, <1>4, <1>6, <1>7, <1>8, SaleLinks

LEMMA UpdateSubLinks ==
    ASSUME LinkInv, TypeInv', NEW s \in 1..Len(stripe.subs), NEW item \in OnSale, UpdateSub(s, item)
    PROVE  LinkInv'
<1> USE DEF LinkInv
<1> DEFINE b == [stripe.subs[s] EXCEPT !.plan = item]
<1>1. /\ stripe' = [stripe EXCEPT !.subs[s] = b]
      /\ Emit("updated", stripe.subs[s].customer, item)
      /\ UNCHANGED <<user, tasks, paymenter, hist>>
  BY Shapes DEF UpdateSub, StripeState
<1>2. stripe.subs[s] \in Subscription
  BY LogFacts, ElementOfSeq
<1>3. /\ b \in Subscription /\ b.customer = stripe.subs[s].customer
      /\ stripe.subs[s].customer \in 1..MaxCustomers /\ stripe.subs[s].customer \in Nat
      /\ item \in Items
  BY <1>2 DEF Subscription, OnSale, Items, Plans
<1>4. /\ stripe'.sessions = stripe.sessions /\ Len(stripe'.subs) = Len(stripe.subs)
      /\ \A q \in 1..Len(stripe.subs) : stripe'.subs[q] = IF q = s THEN b ELSE stripe.subs[q]
  BY <1>1, <1>3, SubFacts
<1> HIDE DEF b
<1>5. \A q \in 1..Len(stripe.subs) : stripe'.subs[q].customer = stripe.subs[q].customer
  BY <1>3, <1>4
<1>6. ~hist.lost => \A q \in 1..Len(stripe'.subs) : stripe'.subs[q].customer = user.customer
  BY <1>4, <1>5 DEF CustomerKept
<1>7. ~hist.lost => stripe.subs[s].customer = user.customer
  BY DEF CustomerKept
<1>8. FirstOrderKept'
  BY <1>1 DEF FirstOrderKept
<1>9. QED
  BY <1>1, <1>3, <1>4, <1>6, <1>7, <1>8, SaleLinks

LEMMA CancelSubLinks ==
    ASSUME LinkInv, TypeInv', NEW s \in 1..Len(stripe.subs), CancelSub(s)
    PROVE  LinkInv'
<1> USE DEF LinkInv
<1> DEFINE b == [stripe.subs[s] EXCEPT !.live = FALSE]
<1>1. /\ stripe' = [stripe EXCEPT !.subs[s] = b]
      /\ Emit("deleted", stripe.subs[s].customer, stripe.subs[s].plan)
      /\ UNCHANGED <<user, tasks, paymenter, hist>>
  BY Shapes DEF CancelSub, StripeState
<1>2. stripe.subs[s] \in Subscription
  BY LogFacts, ElementOfSeq
<1>3. b \in Subscription /\ b.customer = stripe.subs[s].customer
  BY <1>2 DEF Subscription
<1>4. /\ stripe.subs[s].customer \in 1..MaxCustomers /\ stripe.subs[s].customer \in Nat
      /\ stripe.subs[s].plan \in Items
  BY <1>2 DEF Subscription, OnSale, Items, Plans
<1>5. /\ stripe'.sessions = stripe.sessions /\ Len(stripe'.subs) = Len(stripe.subs)
      /\ \A q \in 1..Len(stripe.subs) : stripe'.subs[q] = IF q = s THEN b ELSE stripe.subs[q]
  BY <1>1, <1>3, SubFacts
<1> HIDE DEF b
<1>6. \A q \in 1..Len(stripe.subs) : stripe'.subs[q].customer = stripe.subs[q].customer
  BY <1>3, <1>5
<1>7. ~hist.lost => \A q \in 1..Len(stripe'.subs) : stripe'.subs[q].customer = user.customer
  BY <1>5, <1>6 DEF CustomerKept
<1>8. ~hist.lost => stripe.subs[s].customer = user.customer
  BY DEF CustomerKept
<1>9. FirstOrderKept'
  BY <1>1 DEF FirstOrderKept
<1>10. QED
  BY <1>1, <1>4, <1>5, <1>7, <1>8, <1>9, SaleLinks

LEMMA PayOrderLinks ==
    ASSUME LinkInv, TypeInv', NEW o \in 1..Len(paymenter.orders), NEW item \in Items,
           PayOrder(o, item)
    PROVE  LinkInv'
<1> USE DEF LinkInv
<1> DEFINE b == [paymenter.orders[o] EXCEPT !.paid = TRUE]
<1>1. /\ paymenter' = [paymenter EXCEPT !.orders[o] = b]
      /\ Emit("paid", o, item)
      /\ UNCHANGED <<user, tasks, stripe>>
  BY Shapes DEF PayOrder, PaymenterState
<1>2. paymenter.orders[o] \in Order
  BY LogFacts, ElementOfSeq
<1>3. b \in Order /\ b.paid = TRUE
  BY <1>2 DEF Order
<1>4. o \in Nat
  BY LogFacts
<1>5. /\ Len(paymenter'.orders) = Len(paymenter.orders)
      /\ \A q \in 1..Len(paymenter.orders) :
            paymenter'.orders[q] = IF q = o THEN b ELSE paymenter.orders[q]
  BY <1>1, <1>3, OrderFacts
<1> HIDE DEF b
<1>6. ASSUME NEW q \in 1..Len(paymenter.orders)
      PROVE  paymenter.orders[q].paid => paymenter'.orders[q].paid
  <2>1. CASE q = o
    BY <1>3, <1>5, <2>1
  <2>2. CASE q # o
    BY <1>5, <2>2
  <2>3. QED
    BY <2>1, <2>2
<1>7. /\ hist'.lost = hist.lost /\ (hist.early => hist'.early) /\ hist'.missed = hist.missed
      /\ ~hist'.early => user.order = o
  BY OrderNoted DEF Noted
<1>8. ~hist.lost => \A q \in 1..Len(stripe'.subs) : stripe'.subs[q].customer = user.customer
  BY <1>1 DEF CustomerKept
<1>9. FirstOrderKept'
  BY <1>1, <1>5, <1>7 DEF FirstOrderKept
<1>10. paymenter'.orders[o].paid
  BY <1>3, <1>5
<1>11. QED
  BY <1>1, <1>4, <1>5, <1>6, <1>7, <1>8, <1>9, <1>10, SaleLinks

(* An event that finds no account was caused by overlapping checkouts, or by an
   order paid that the row did not name. *)
LEMMA DeliverLinks ==
    ASSUME LinkInv, TypeInv', NEW t \in Tasks, NEW i \in 1..Len(log), Deliver(t, i)
    PROVE  LinkInv'
<1> USE DEF LinkInv
<1>1. UNCHANGED <<user, stripe, paymenter, log>> /\ (Taken(t, i) \/ Answered(i))
  BY DeliverFacts
<1>2. CASE Taken(t, i)
  <2>1. /\ tasks' = [tasks EXCEPT ![t] = [pc |-> "apply", plan |-> "free", id |-> None, event |-> i]]
        /\ hist' = hist
    BY <1>2 DEF Taken
  <2>2. \A u \in Tasks : At(u, "session")' => At(u, "session") /\ tasks'[u].id = tasks[u].id
    BY <2>1, TaskFacts DEF At
  <2>3. QED
    BY <1>1, <2>1, <2>2, LinksKept
<1>3. CASE Answered(i) /\ Matches(log[i])
  <2>1. /\ UNCHANGED tasks /\ hist'.missed = hist.missed
        /\ hist'.lost = hist.lost /\ hist'.early = hist.early
    BY <1>3 DEF Answered
  <2>2. \A u \in Tasks : At(u, "session")' => At(u, "session") /\ tasks'[u].id = tasks[u].id
    BY <2>1 DEF At
  <2>3. QED
    BY <1>1, <2>1, <2>2, LinksKept
<1>4. CASE Answered(i) /\ ~Matches(log[i])
  <2>1. UNCHANGED tasks /\ hist'.lost = hist.lost /\ hist'.early = hist.early
    BY <1>4 DEF Answered
  <2>2. CustomerKept' /\ EventsNamed' /\ FirstOrderKept'
    BY <1>1, <2>1 DEF CustomerKept, EventsNamed, FirstOrderKept, At
  <2>3. hist.lost \/ Len(paymenter.orders) > 1 \/ hist.early
    <3>1. log[i] \in Event
      BY LogFacts, ElementOfSeq
    <3>2. CASE log[i].kind \in {"updated", "deleted"}
      <4>1. user.customer # log[i].of
        BY <1>4, <3>2 DEF Matches
      <4>2. QED
        BY <3>2, <4>1 DEF CustomerKept
    <3>3. CASE log[i].kind = "paid"
      <4>1. user.order # log[i].of
        BY <1>4, <3>3 DEF Matches
      <4>2. PICK o \in 1..Len(paymenter.orders) : o = log[i].of /\ paymenter.orders[o].paid
        BY <3>3 DEF EventsNamed
      <4>3. Len(paymenter.orders) = 1 => hist.early
        BY <4>1, <4>2 DEF FirstOrderKept
      <4>4. PICK n \in Nat : n = Len(paymenter.orders)
        BY LogFacts
      <4>5. PICK k : k \in 1..n
        BY <4>2, <4>4
      <4>6. n = 1 \/ n > 1
        BY <4>5
      <4>7. QED
        BY <4>3, <4>4, <4>6
    <3>4. log[i].kind # "completed"
      BY <1>4 DEF Matches
    <3>5. QED
      BY <3>1, <3>2, <3>3, <3>4 DEF Event
  <2>4. QED
    BY <1>1, <2>1, <2>2, <2>3 DEF MissedExplained
<1>5. QED
  BY <1>1, <1>2, <1>3, <1>4

LEMMA LinkStep == ASSUME LinkInv, [Next]_vars PROVE LinkInv'
<1>1. TypeInv /\ TypeInv'
  BY TypesStep DEF LinkInv
<1>2. CASE UNCHANGED vars
  BY <1>1, <1>2, LinksKept DEF vars, At
<1>3. ASSUME NEW t \in Tasks, Apply(t) PROVE LinkInv'
  <2>1. PICK i \in 1..Len(log) :
           /\ log[i] \in Event /\ PlanOf(log[i]) \in Plans /\ user' = Written(log[i])
           /\ hist'.lost = hist.lost /\ hist'.early = hist.early /\ hist'.missed = hist.missed
           /\ End(t) /\ UNCHANGED <<stripe, paymenter, log>>
    BY <1>1, <1>3, ApplyFacts
  <2>2. user'.customer = user.customer /\ user'.order = user.order
    BY <1>1, <2>1, WrittenFacts
  <2>3. tasks'[t] = Idle /\ \A u \in Tasks \ {t} : tasks'[u] = tasks[u]
    BY <1>1, <2>1, IdleFacts
  <2>4. \A u \in Tasks : At(u, "session")' => At(u, "session") /\ tasks'[u].id = tasks[u].id
    BY <2>3 DEF At, Idle
  <2>5. QED
    BY <1>1, <2>1, <2>2, <2>4, LinksKept
<1>4. ASSUME NEW t \in Tasks, Serve(t) PROVE LinkInv'
  BY <1>1, <1>3, <1>4, CheckoutStripeLinks, AwaitLinks, SaveCustomerLinks, CreateSessionLinks,
     CreateOrderLinks, SaveOrderLinks, DeliverLinks DEF Serve
<1>5. CASE Sell
  BY <1>1, <1>5, PaySessionLinks, CancelSubLinks, UpdateSubLinks, PayOrderLinks DEF Sell
<1>6. ASSUME NEW plan \in Plans, AdminPlan(plan) PROVE LinkInv'
  <2>1. UNCHANGED <<tasks, stripe, paymenter, log>>
    BY <1>6 DEF AdminPlan
  <2>2. user'.customer = user.customer /\ user'.order = user.order
    BY <1>1, <1>6, Shapes DEF AdminPlan, OnPlan, UserRow
  <2>3. hist'.lost = hist.lost /\ hist'.early = hist.early /\ hist'.missed = hist.missed
    BY <1>1, <1>6, Shapes DEF AdminPlan, History
  <2>4. QED
    BY <1>1, <2>1, <2>2, <2>3, LinksKept DEF At
<1>7. QED
  BY <1>2, <1>4, <1>5, <1>6 DEF Next

(* An event matches no account only when overlapping checkouts made two
   customers (lib/payments/stripeProvider.js:16-21), or a second order took the
   place of the first, or an order was paid whose id the row never got or did
   not have yet (lib/payments/paymenterProvider.js:77-85). *)
THEOREM MissedOnlyByOverlap == Spec => []MissedExplained
<1>1. LinkInv => MissedExplained
  BY DEF LinkInv
<1>2. QED
  BY <1>1, LinkInit, LinkStep, PTL DEF Spec
================================================================================

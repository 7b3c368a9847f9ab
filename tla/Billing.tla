------------------------------- MODULE Billing -------------------------------
(***************************************************************************)
(* How one account comes to its plan: routes/billing.js with the Stripe    *)
(* and Paymenter adapters of lib/payments, and the admin's override.       *)
(*                                                                         *)
(* A task is a checkout or a webhook being served; its steps are what it   *)
(* awaits.  Stripe and Paymenter are external: they sell at any moment     *)
(* after the checkout URL was given out, emit an event per sale, change or *)
(* cancellation, and deliver it until it is answered with 200, sometimes   *)
(* again, in any order.  What an event names need not be a plan: another   *)
(* price of the same Stripe account, a product of no plan, or no product.  *)
(*                                                                         *)
(* plan_status and stripe_subscription_id are written and shown but never  *)
(* read to decide anything; they are left out.  daily_token_limit, written *)
(* with the plan, is in Metering, and what becomes of a referral bonus in  *)
(* Accounts.                                                               *)
(***************************************************************************)
EXTENDS Integers, Sequences, FiniteSets

CONSTANTS
    Tasks,          \* slots for checkouts and webhooks in flight
    PaidPlans,      \* the plans of config/plans.js but "free"
    Gateways,       \* configured payment providers
    Price,          \* stripe_price_id of every plan, and of what is no plan
    Product,        \* paymenter_product_id of every plan, and of what is none
    MaxCustomers,   \* bound: Stripe customers
    MaxPayUsers,    \* bound: Paymenter users
    MaxSubs,        \* bound: Stripe checkout sessions open, and subscriptions
    MaxOrders,      \* bound: Paymenter orders
    MaxEvents,      \* bound: events emitted
    MaxSends        \* bound: deliveries of an event

ASSUME BillingAssumption ==
    /\ {"free", "other", "none"} \cap PaidPlans = {}
    /\ PaidPlans # {}
    /\ Gateways \subseteq {"stripe", "paymenter"}
    /\ DOMAIN Price = PaidPlans \cup {"free", "other"}
    /\ DOMAIN Product = PaidPlans \cup {"free", "other"}
    /\ {MaxCustomers, MaxPayUsers, MaxSubs, MaxOrders, MaxEvents, MaxSends} \subseteq Nat

VARIABLES
    user,           \* the billing columns of the users row
    tasks,          \* the locals of every request in flight
    stripe,         \* external: customers, open checkout sessions, subscriptions
    paymenter,      \* external: users, orders
    log,            \* external: the events emitted, oldest first
    sends,          \* external: deliveries of every event, and whether it got its 200
    hist            \* history, see History

vars == <<user, tasks, stripe, paymenter, log, sends, hist>>

None == 0           \* a NULL id
Plans == PaidPlans \cup {"free"}

\* What can be sold: a plan or something else.  The ids of the free plan are
\* null, so a sale named "free" is one that names nothing.
Items == Plans \cup {"other"}
OnSale == PaidPlans \cup {"other"}

UserRow == [plan : Plans, provider : {"none", "stripe", "paymenter"},
            customer : 0..MaxCustomers, payUser : 0..MaxPayUsers, order : 0..MaxOrders]

\* id is the customer, Paymenter user or order the task is about to store;
\* event is the one a webhook carries.
Locals == [pc : {"idle", "customer", "saveCustomer", "session", "findUser", "createUser", "saveUser",
                 "order", "saveOrder", "apply"},
           plan : Plans, id : Nat, event : 0..MaxEvents]

Subscription == [customer : 1..MaxCustomers, plan : OnSale, live : BOOLEAN]
Order == [plan : PaidPlans, paid : BOOLEAN]
StripeState == [customers : 0..MaxCustomers,
                sessions : SUBSET [customer : 1..MaxCustomers, plan : PaidPlans],
                subs : Seq(Subscription)]
PaymenterState == [users : 0..MaxPayUsers, orders : Seq(Order)]

\* of is the customer of updated and deleted, the order of paid; plan is what
\* the event names.
Event == [kind : {"completed", "updated", "deleted", "paid"}, of : Nat, plan : Items]

\* applied: events whose UPDATE ran; missed: events that matched no account;
\* disorder: an event was applied after a later one;
\* lost: the customer of the row was overwritten; early: an order was paid
\* while the row did not name it; doubled: two purchases were alive at once;
\* granted: an admin set the plan.
History == [applied : SUBSET (1..MaxEvents), missed : SUBSET (1..MaxEvents),
            disorder : BOOLEAN, lost : BOOLEAN, early : BOOLEAN, doubled : BOOLEAN, granted : BOOLEAN]

TypeOK ==
    /\ user \in UserRow
    /\ tasks \in [Tasks -> Locals]
    /\ stripe \in StripeState /\ Len(stripe.subs) <= MaxSubs
    /\ paymenter \in PaymenterState /\ Len(paymenter.orders) <= MaxOrders
    /\ log \in Seq(Event) /\ Len(log) <= MaxEvents
    /\ sends \in Seq([n : 0..MaxSends, acked : BOOLEAN]) /\ Len(sends) = Len(log)
    /\ hist \in History

Idle == [pc |-> "idle", plan |-> "free", id |-> None, event |-> None]
At(t, pc) == tasks[t].pc = pc
Goto(t, pc) == tasks' = [tasks EXCEPT ![t].pc = pc]
GotoWith(t, pc, id) == tasks' = [tasks EXCEPT ![t].pc = pc, ![t].id = id]
End(t) == tasks' = [tasks EXCEPT ![t] = Idle]

-----------------------------------------------------------------------------
\* What is paid for, and what an event asks for

LiveSubs == {s \in 1..Len(stripe.subs) : stripe.subs[s].live}
PaidOrders == {o \in 1..Len(paymenter.orders) : paymenter.orders[o].paid}

\* The plan of a price or product, and "none" when it is of no plan.
PlanByPrice(item) ==
    IF \E p \in Plans : Price[p] = Price[item] THEN CHOOSE p \in Plans : Price[p] = Price[item] ELSE "none"

PlanByProduct(item) ==
    IF \E p \in Plans : Product[p] = Product[item] THEN CHOOSE p \in Plans : Product[p] = Product[item]
    ELSE "none"

\* The plan an event asks for: the one in the metadata of a checkout is ours.
PlanOf(e) ==
    CASE e.kind = "completed" -> e.plan
      [] e.kind = "updated"   -> PlanByPrice(e.plan)
      [] e.kind = "deleted"   -> "free"
      [] e.kind = "paid"      -> PlanByProduct(e.plan)

\* Mutant: the order is looked up for every event.
MatchesOrder(e) == e.kind = "completed" \/ user.order = e.of

\* The account a webhook means: the metadata of a checkout name it, the other
\* events name a customer or an order, which the row must still hold.
Matches(e) ==
    \/ e.kind = "completed"
    \/ e.kind \in {"updated", "deleted"} /\ user.customer = e.of
    \/ e.kind = "paid" /\ user.order = e.of

\* plan is set, and daily_token_limit to the plan's own.
OnPlan(plan) == [user EXCEPT !.plan = plan]

\* Mutant: a deleted subscription is only noted, the plan stays.
WrittenKeepsPlan(e) ==
    CASE e.kind = "completed" -> [OnPlan(e.plan) EXCEPT !.provider = "stripe"]
      [] e.kind = "updated"   -> OnPlan(PlanByPrice(e.plan))
      [] e.kind = "deleted"   -> user
      [] e.kind = "paid"      -> [OnPlan(PlanByProduct(e.plan)) EXCEPT !.provider = "paymenter"]

\* The UPDATE of every event.
Written(e) ==
    CASE e.kind = "completed" -> [OnPlan(PlanOf(e)) EXCEPT !.provider = "stripe"]
      [] e.kind = "paid"      -> [OnPlan(PlanOf(e)) EXCEPT !.provider = "paymenter"]
      [] OTHER                -> OnPlan(PlanOf(e))

-----------------------------------------------------------------------------
\* Checkouts

Init ==
    /\ user = [plan |-> "free", provider |-> "none", customer |-> None,
               payUser |-> None, order |-> None]
    /\ tasks = [t \in Tasks |-> Idle]
    /\ stripe = [customers |-> 0, sessions |-> {}, subs |-> <<>>]
    /\ paymenter = [users |-> 0, orders |-> <<>>]
    /\ log = <<>>
    /\ sends = <<>>
    /\ hist = [applied |-> {}, missed |-> {}, disorder |-> FALSE, lost |-> FALSE,
               early |-> FALSE, doubled |-> FALSE, granted |-> FALSE]

\* Bound: what can be bought.
Unsold == Cardinality(stripe.sessions) + Len(stripe.subs) < MaxSubs

\* POST /create-checkout-session: requireAuth reads the row, a customer or
\* Paymenter user it holds is used.  A plan without a price is refused.
CheckoutStripe(t, plan) ==
    /\ At(t, "idle") /\ "stripe" \in Gateways
    /\ Price[plan] # Price["free"]
    /\ Unsold
    /\ tasks' = [tasks EXCEPT ![t] =
           [pc |-> IF user.customer = None THEN "customer" ELSE "session",
            plan |-> plan, id |-> user.customer, event |-> None]]
    /\ UNCHANGED <<user, stripe, paymenter, log, sends, hist>>

CreateCustomer(t) ==
    /\ At(t, "customer")
    /\ stripe.customers < MaxCustomers
    /\ stripe' = [stripe EXCEPT !.customers = @ + 1]
    /\ GotoWith(t, "saveCustomer", stripe.customers + 1)
    /\ UNCHANGED <<user, paymenter, log, sends, hist>>

\* Mutant: the session is made for the customer that was read.
SaveCustomerUnused(t) ==
    /\ At(t, "saveCustomer")
    /\ user' = [user EXCEPT !.customer = tasks[t].id]
    /\ hist' = [hist EXCEPT !.lost = @ \/ user.customer # None]
    /\ GotoWith(t, "session", None)
    /\ UNCHANGED <<stripe, paymenter, log, sends>>

SaveCustomer(t) ==
    /\ At(t, "saveCustomer")
    /\ user' = [user EXCEPT !.customer = tasks[t].id]
    /\ hist' = [hist EXCEPT !.lost = @ \/ user.customer # None]
    /\ Goto(t, "session")
    /\ UNCHANGED <<stripe, paymenter, log, sends>>

CreateSession(t) ==
    /\ At(t, "session")
    /\ Unsold
    /\ stripe' = [stripe EXCEPT !.sessions = @ \cup {[customer |-> tasks[t].id, plan |-> tasks[t].plan]}]
    /\ End(t)
    /\ UNCHANGED <<user, paymenter, log, sends, hist>>

CheckoutPaymenter(t, plan) ==
    /\ At(t, "idle") /\ "paymenter" \in Gateways
    /\ Product[plan] # Product["free"]
    /\ Len(paymenter.orders) < MaxOrders
    /\ tasks' = [tasks EXCEPT ![t] =
           [pc |-> IF user.payUser = None THEN "findUser" ELSE "order",
            plan |-> plan, id |-> user.payUser, event |-> None]]
    /\ UNCHANGED <<user, stripe, paymenter, log, sends, hist>>

\* The list of users by email: the first one, if there is any.
FindUser(t) ==
    /\ At(t, "findUser")
    /\ IF paymenter.users > 0 THEN GotoWith(t, "saveUser", 1) ELSE Goto(t, "createUser")
    /\ UNCHANGED <<user, stripe, paymenter, log, sends, hist>>

\* An answer without an id is not stored, and the order is made all the same.
CreateUser(t) ==
    /\ At(t, "createUser")
    /\ paymenter.users < MaxPayUsers
    /\ paymenter' = [paymenter EXCEPT !.users = @ + 1]
    /\ GotoWith(t, "saveUser", paymenter.users + 1) \/ Goto(t, "order")
    /\ UNCHANGED <<user, stripe, log, sends, hist>>

SaveUser(t) ==
    /\ At(t, "saveUser")
    /\ user' = [user EXCEPT !.payUser = tasks[t].id]
    /\ Goto(t, "order")
    /\ UNCHANGED <<stripe, paymenter, log, sends, hist>>

\* The order exists from here on.  Paymenter answers with its id; without one
\* nothing is stored and the URL is given out all the same.
CreateOrder(t) ==
    /\ At(t, "order")
    /\ Len(paymenter.orders) < MaxOrders
    /\ paymenter' = [paymenter EXCEPT !.orders = Append(@, [plan |-> tasks[t].plan, paid |-> FALSE])]
    /\ GotoWith(t, "saveOrder", Len(paymenter.orders) + 1) \/ End(t)
    /\ UNCHANGED <<user, stripe, log, sends, hist>>

\* Mutant: the plan is given when the order is made.
SaveOrderGrants(t) ==
    /\ At(t, "saveOrder")
    /\ user' = [user EXCEPT !.order = tasks[t].id, !.provider = "paymenter", !.plan = tasks[t].plan]
    /\ End(t)
    /\ UNCHANGED <<stripe, paymenter, log, sends, hist>>

\* paymenter_order_id and payment_provider are set, then the URL is given out.
SaveOrder(t) ==
    /\ At(t, "saveOrder")
    /\ user' = [user EXCEPT !.order = tasks[t].id, !.provider = "paymenter"]
    /\ End(t)
    /\ UNCHANGED <<stripe, paymenter, log, sends, hist>>

-----------------------------------------------------------------------------
\* Stripe and Paymenter sell

Emit(kind, of, plan) ==
    /\ Len(log) < MaxEvents
    /\ log' = Append(log, [kind |-> kind, of |-> of, plan |-> plan])
    /\ sends' = Append(sends, [n |-> 0, acked |-> FALSE])

Doubled == hist.doubled \/ LiveSubs # {} \/ PaidOrders # {}

PaySession(s) ==
    /\ stripe' = [stripe EXCEPT !.sessions = @ \ {s},
                  !.subs = Append(@, [customer |-> s.customer, plan |-> s.plan, live |-> TRUE])]
    /\ Emit("completed", s.customer, s.plan)
    /\ hist' = [hist EXCEPT !.doubled = Doubled]
    /\ UNCHANGED <<user, tasks, paymenter>>

\* A renewal, or another price chosen in the portal or by hand.
UpdateSub(s, item) ==
    /\ stripe.subs[s].live
    /\ stripe' = [stripe EXCEPT !.subs[s].plan = item]
    /\ Emit("updated", stripe.subs[s].customer, item)
    /\ UNCHANGED <<user, tasks, paymenter, hist>>

CancelSub(s) ==
    /\ stripe.subs[s].live
    /\ stripe' = [stripe EXCEPT !.subs[s].live = FALSE]
    /\ Emit("deleted", stripe.subs[s].customer, stripe.subs[s].plan)
    /\ UNCHANGED <<user, tasks, paymenter, hist>>

\* On the storefront, which knows the order whatever became of its UPDATE.  The
\* event may name the product sold, something that is no plan, or nothing.
PayOrder(o, item) ==
    /\ item \in {paymenter.orders[o].plan, "other", "free"}
    /\ ~paymenter.orders[o].paid
    /\ paymenter' = [paymenter EXCEPT !.orders[o].paid = TRUE]
    /\ Emit("paid", o, item)
    /\ hist' = [hist EXCEPT !.doubled = Doubled, !.early = @ \/ user.order # o]
    /\ UNCHANGED <<user, tasks, stripe>>

-----------------------------------------------------------------------------
\* Webhooks

\* The event arrives, its plan and its account are looked up; without one of
\* the two it is answered with 200 and forgotten.
Deliver(t, i) ==
    /\ At(t, "idle")
    /\ sends[i].n < MaxSends
    /\ IF Matches(log[i]) /\ PlanOf(log[i]) # "none"
       THEN /\ tasks' = [tasks EXCEPT ![t] =
                        [pc |-> "apply", plan |-> "free", id |-> None, event |-> i]]
            /\ sends' = [sends EXCEPT ![i].n = @ + 1]
            /\ UNCHANGED hist
       ELSE /\ sends' = [sends EXCEPT ![i] = [n |-> @.n + 1, acked |-> TRUE]]
            /\ hist' = IF Matches(log[i]) THEN hist ELSE [hist EXCEPT !.missed = @ \cup {i}]
            /\ UNCHANGED tasks
    /\ UNCHANGED <<user, stripe, paymenter, log>>

\* The UPDATE by account id, then the 200.
Apply(t) ==
    LET i == tasks[t].event
    IN  /\ At(t, "apply")
        /\ user' = Written(log[i])
        /\ sends' = [sends EXCEPT ![i].acked = TRUE]
        /\ hist' = [hist EXCEPT !.applied = @ \cup {i},
                                !.disorder = @ \/ \E j \in hist.applied : j > i]
        /\ End(t)
        /\ UNCHANGED <<stripe, paymenter, log>>

\* Mutant: the webhook answers 200 when its UPDATE failed.
FailAnswered(t) ==
    /\ ~At(t, "idle")
    /\ End(t)
    /\ sends' = IF At(t, "apply") THEN [sends EXCEPT ![tasks[t].event].acked = TRUE] ELSE sends
    /\ UNCHANGED <<user, stripe, paymenter, log, hist>>

\* A call or statement fails: the checkout answers 400, the webhook 500.
Fail(t) ==
    /\ ~At(t, "idle")
    /\ End(t)
    /\ UNCHANGED <<user, stripe, paymenter, log, sends, hist>>

-----------------------------------------------------------------------------
\* Another writer of the row

\* PATCH /api/admin/users/:id/plan
AdminPlan(plan) ==
    /\ ~hist.granted                    \* bound: one intervention
    /\ user' = OnPlan(plan)
    /\ hist' = [hist EXCEPT !.granted = TRUE]
    /\ UNCHANGED <<tasks, stripe, paymenter, log, sends>>

Serve(t) ==
    \/ \E plan \in PaidPlans : CheckoutStripe(t, plan) \/ CheckoutPaymenter(t, plan)
    \/ CreateCustomer(t)
    \/ SaveCustomer(t)
    \/ CreateSession(t)
    \/ FindUser(t)
    \/ CreateUser(t)
    \/ SaveUser(t)
    \/ CreateOrder(t)
    \/ SaveOrder(t)
    \/ \E i \in 1..Len(log) : Deliver(t, i)
    \/ Apply(t)
    \/ Fail(t)

Sell ==
    \/ \E s \in stripe.sessions : PaySession(s)
    \/ \E s \in 1..Len(stripe.subs) : CancelSub(s) \/ \E item \in OnSale : UpdateSub(s, item)
    \/ \E o \in 1..Len(paymenter.orders), item \in Items : PayOrder(o, item)

Next ==
    \/ \E t \in Tasks : Serve(t)
    \/ Sell
    \/ \E plan \in Plans : AdminPlan(plan)

Spec == Init /\ [][Next]_vars

-----------------------------------------------------------------------------
\* Properties

Acked == {i \in 1..Len(log) : sends[i].acked}
Drained == Acked = 1..Len(log) /\ \A t \in Tasks : ~At(t, "apply")

Purchased ==
    {stripe.subs[s].plan : s \in LiveSubs} \cup {paymenter.orders[o].plan : o \in PaidOrders}

\* Paymenter says of every order it sold what was ordered.
OrdersNamed ==
    \A i \in 1..Len(log) : log[i].kind = "paid" => log[i].plan = paymenter.orders[log[i].of].plan

\* What was bought is what the account gets (routes/billing.js:75-114,
\* 148-157): with every event answered, the plan is that of the one purchase
\* alive, and free without one, as long as what was bought is a plan and the
\* event of an order says which, no event was applied after a later one or
\* found no account, only one purchase was alive at a time, and no admin
\* stepped in.
PlanFollowsPurchase ==
    /\ Drained
    /\ Purchased \subseteq PaidPlans
    /\ OrdersNamed
    /\ ~hist.disorder
    /\ hist.missed = {}
    /\ ~hist.doubled
    /\ ~hist.granted
    => {user.plan} = IF Purchased = {} THEN {"free"} ELSE Purchased

\* The 200 is final, the provider does not send the event again: an event got
\* one only when it was written, or found no account, or was a change to, or a
\* sale of, something that is no plan.  None is forgotten because a statement
\* failed or its account was written by others meanwhile
\* (routes/billing.js:95, 118-122, 152-166).
AnsweredIsWritten ==
    \A i \in Acked \ (hist.applied \cup hist.missed) :
        log[i].kind \in {"updated", "paid"} /\ log[i].plan = "other"

\* An event matches no account only when overlapping checkouts made two
\* customers (lib/payments/stripeProvider.js:16-21), or a second order took the
\* place of the first, or an order was paid whose id the row never got or did
\* not have yet (lib/payments/paymenterProvider.js:77-85).
MissedExplained == hist.missed # {} => hist.lost \/ Len(paymenter.orders) > 1 \/ hist.early

\* No plan without payment: a paid plan was the plan of an event, or an
\* admin's choice (routes/billing.js:81, 96, 153; routes/admin.js:61).
PlanWasPaid ==
    user.plan \in PaidPlans => hist.granted \/ \E i \in hist.applied : log[i].plan = user.plan
=============================================================================

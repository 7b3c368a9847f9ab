# Verification of the AI SaaS backend

A multi-user backend in Node.js/Express over PostgreSQL: accounts and sessions, API keys, a gateway to
language models with fallback, daily allowances, subscriptions by Stripe or Paymenter. This directory
holds TLA+ models of its stateful parts, TLC configurations that check them on small instances, and
TLAPS proofs of the properties that matter most for every size of the instance.

`tlc -config Sessions.cfg MCSessions` checks a model, `tlapm SessionsProofs.tla` checks proofs.
`PROJECT.json` lists the runs, the mutants, the source lines behind every definition, the hazards of the
code and the theorems.

## 1. The system

All state that lasts is in PostgreSQL, one row per account for almost everything; a process keeps the
health of models and servers in memory. Node runs a handler from one `await` to the next without
interruption, and nearly every `await` is one SQL statement that commits on its own (`query`,
`db/postgres.js:16`); only the token rotation uses `withTransaction`. So requests interleave at their
awaits, work on copies of rows read earlier, and a failure or a crash leaves the statements before it
behind. That is where the hard behaviour of this code is: hardly a test could reach it, and the
repository has tests only for pure functions.

| Component | State | Operations | What makes it correct |
|---|---|---|---|
| Refresh-token sessions (`routes/auth.js`, `routes/account.js`) | `refresh_tokens`, `users.password_hash`, `is_active` | register, login, refresh with rotation and reuse detection, logout, reset/change password, suspend, delete | one login is one session; replay, logout, a new password end what they promise to end; no row without an account |
| Login lockout, verification and reset links (`routes/auth.js`) | `failed_login_attempts`, `locked_until`, `reset_token`, `verification_token` | login, forgot/reset password, verify e-mail | five wrong passwords lock; a link works once |
| Daily allowance (`middleware/auth.js`, `recordUsage` of `routes/gateway.js` and `routes/chat.js`) | `tokens_used_today`, `usage_seconds_today`, `usage_reset_date`, `last_activity_at`, `alert_sent_date` | admit a request, reset at midnight, track time, charge, alert | a day's spending is bounded and shown; the reset happens once; time is not overcounted |
| Gateway (`routes/gateway.js`, `lib/gateway`) | `failedUntil` of every model, locals of the handler | pick candidates, call, fall back, stream, charge | models in cooldown are spared, none is left out, a request is charged once |
| Billing (`routes/billing.js`, `lib/payments`) | `plan`, `daily_token_limit`, ids of Stripe and Paymenter | checkout, webhooks, admin override | the plan is the one paid for, whatever webhooks do |
| Chat and conversations (`routes/chat.js`, `routes/conversations.js`) | `conversations`, `messages`, locals of the handler | chat plain or streamed, list, delete | who is served is charged once and keeps question and answer; who pays for nothing met a failure that can be named |
| Llama cluster (`config/llama-cluster.js`) | `index`, `failedUntil` | next server, mark failed | servers in cooldown are skipped, none of the others falls out of the round |
| API keys (`routes/apikeys.js`) | `api_keys`, `audit_logs` | create, revoke, use | only the owner revokes; a revocation that is logged has happened |
| Accounts (`routes/auth.js`, `routes/account.js`) | all rows of a user, `referred_by` | register with a referral, export, delete | the bonus is paid once to both; what the log says is gone is gone; an export agrees with itself |
| Administration (`routes/admin.js`) | `users` | limit, plan, role, suspend | single UPDATEs, checked where they meet others |
| Migrations (`db/migrate.js`) | `schema_migrations` | apply missing files | each file once, in order, whoever else runs |
| Process (`server.js`) | `shuttingDown`, open connections | answer errors, shut down | requests in flight finish, or the exit is forced after 10 s |
| Rate limits, audit log, validation, moderation, adapters, e-mail, scripts | none of their own, or a library's | | stateless, or counted by a library |

The parts meet in the `users` row: sessions read `is_active` and `password_hash`, metering reads `plan` and
`daily_token_limit`, which billing, administration and registration write. Gateway and chat call metering;
the providers, Stripe, Paymenter and the mail server are outside. `PROJECT.json` lists 40 hazards at
their lines.

## 2. The modules

A step of every model is what the code does between two awaits: one SQL statement with the JavaScript
around it. `Reqs` (or `Tasks`) are slots for requests in flight; what a handler has read stays in its record.
Definitions marked `Mutant:` are plausible mistakes that stand beside the definition they spoil; no
specification uses them, they show that a property can fail.

**Sessions.tla**: the tables `users` and `refresh_tokens`, and every handler that writes them. A password is
a version number, a family is named by its first token. A refresh takes three steps (read the token,
read the account, rotate in a transaction), a password change two (write, revoke). `Abort` ends a handler
at any await: a rejected statement or a dying process. `origin`, `missed`, `nuked`, `ended`, `loggedOut`
are history. `missed[r]` names the revocations that overtook request `r` between its read and its
INSERT: that is exactly the window in which a revocation misses the row to come. A logout may come with any
token, one already exchanged too: its UPDATE then touches no row (`outdated`), and it is answered all the same.

**RefreshTokens.tla**: the abstract specification. A token is opened, exchanged, expired, revoked,
erased; nothing brings one back. Sessions implements it with `status` and `family` as its view (property
`Lifecycle`, theorem `ImplementsLifecycle`).

**Metering.tla**: the metering columns of one account, the copy a request works on, the reset that is sent
and not awaited (`handler[r].reset`, landing later by `ResetLands` or never by `ResetFails`), time that
passes second by second over midnight. The process goes by the UTC day (`Today`), the database's session by
a date of its own: `CurrentDate` is `DbOffset` seconds ahead, and a new row and an alert are dated by it. Whether a
gap is a whole number of seconds is left open (`exact`). `spent`, `slipped`, `carried`, `mails` are history of the
day (`mails` of the hours in which the two dates agree); `slipped` says that a reset of the day was lost, wiped out
a charge, or was sent on an earlier day and landed late.

**Gateway.tla**: the handler of `POST /v1/chat/completions` whole, from the parsed body to the answer, for
several requests that share the health of the models; `recordUsage` fails before or after its charge.
A model is called by whether and how the call ends. Only the default ranking is modelled, for validation
strips `routing`.

**Billing.tla**: checkouts and webhooks as tasks, Stripe and Paymenter as environment: they sell whatever a
checkout has opened, cancel, and deliver each event until it gets its 200, sometimes again, in any order.
What is sold need not be a plan (`Items`): `"other"` is a price or product of none, for which the lookups of
`config/plans.js` give null (`"none"`) and the webhook answers without writing; `"free"` is a sale that names
nothing, which the string comparison of `planByPaymenterProductId` takes for the free plan. An order exists from
its creation at Paymenter and can be paid whether or not its id came back and was stored.

**Login.tla**: the lock after wrong passwords and the mailed links of one account. The counter is
incremented in SQL, the lock decided on the copy read before: an attempt is three steps (read and
compare, count, lock), a login two (read, clear). A link is a number, `stored` the newest and the one the row
holds. `late[r]` says that what `r` has read was overtaken, `shared` and `crossed` name the links of
overlapping requests, `crashed` counts attempts cut between counting and locking.

**LlamaCluster.tla**, **Chat.tla**: the model servers as an object of its own (`index`, `cooldown`), and the
handler of `POST /api/chat` that uses it by INSTANCE: store the question, pick and call, charge, store the
answer, answer. A failing statement after a plain call is taken for the server's failure, one in the
listener of a stream's `'end'` leaves the request open, as the code has it. The life of the process is part of
the module, for it decides which statements still run: SIGTERM, `server.close` waiting for connections,
`pool.end()` waiting for statements, the ten-second exit, a kill, a new start. Other users ask the same servers
(`OthersAsk`, `OthersFail`): the round moves on and servers go into cooldown without a request of the model.
`passed` is the history of the round robin, `elsewhere` of the servers that others' failures have marked.

**Migrations.tla**, **SchemaVersions.tla**: any number of runs of `db/migrate.js` from checkouts of any
age, killed and failing anywhere. An INSERT of a filename another transaction holds waits for it (`Free`).
SchemaVersions is the promise: a version that grows by one, each file's SQL committed once; Migrations
implements it with `Cardinality(applied)` as the version.

**Accounts.tla**: registration with its referral (read, read, INSERT, bonus), deletion with its log and its
cascades, keys, the export's reads in any order, audit entries that may be lost. A request that
`requireAuth` has let in goes on with an account that may be gone meanwhile; where its first statement checks the
account again by a foreign key the two are one step (`InsertKey`, `RevokeKey`).

`MC*.tla` give TLC its constants; `*Proofs.tla` hold the theorems.

## 3. The runs

| Run | Configuration | Checks | States |
|---|---|---|---|
| `sessions` | 1 account, 2 requests, 3 tokens, 2 passwords | six invariants, `Lifecycle` | 0.7 M |
| `sessions_live` | 1 account, 3 requests, 4 passwords, no failures | `PasswordWriteEndsSessions` | 0.1 M |
| `login` | 2 requests, lock after 3 wrong passwords, 2 reset links, 1 cut-off lock | lock and links | 2.0 M |
| `metering` | 2 requests, days of 2 s, the database 1 s west of UTC, limit 2, 2 attempts | six properties of the meters | 2.7 M |
| `gateway` | 2 requests, 3 models (1 not configured, 1 without images), 4 kinds of body | four properties of the fallback | 2.0 M |
| `chat` | 2 requests, 1 conversation, 2 servers that others use too, restarts | turns, blame, shutdown, round robin | 3.6 M |
| `billing_stripe` | 2 tasks, 2 plans, 2 customers, 1 subscription, 3 events sent up to twice | plan, delivery, matching | 1.5 M |
| `billing_gateways` | 2 tasks, both gateways, 1 plan, 1 subscription, 2 orders, 3 events | plan, payment, matching | 4.0 M |
| `migrations` | 3 runs, 2 files, checkouts with 0 to 2 of them | outcomes, `Versioned`, `RunsEnd` | 0.1 M |
| `accounts` | 2 requests, 2 accounts, 2 addresses, 1 key, 1 conversation | log, referrals, export | 1.6 M |

What they show:

- *Sessions.* A replayed token's family, a logout and a password change end every session except those
  whose rotation or login was in flight across the revocation (`FamilyRevocationHolds`, `LogoutEndsSession`,
  `PasswordRevocationHolds`). A logout with a token exchanged before ends nothing, and only later tokens of its
  family live on. Three writers of one password each revoke what they owe (`PasswordWriteEndsSessions`). One login
  is one session unless two refreshes of one token overlapped (`OneSessionPerFamily`).
- *Metering.* While no reset slips, a day's spending passes the limit by at most what was in flight, `N * Attempts`
  times the largest cost (`DailyCapHolds`), and the meter shows every token (`MeterShowsSpending`); the
  reset, once settled, is not repeated (`SettledStays`); overlapping requests may lose time, never invent it
  (`TimeNeverOvercounted`); at most one alert per request in flight, over the hours in which the database has the
  UTC date (`AlertsBounded`). Between the two midnights every request above 80 percent sends a mail, and there is no
  bound to state.
- *Gateway.* A model in cooldown is called only on demand, when nothing else was healthy, or when another
  request marked it after the candidates were picked; a 502 is given only after all usable candidates;
  the charge is one, up to one more or less per failure of `recordUsage` itself.
- *Billing.* With all events answered the plan is that of the one purchase alive, unless events were
  applied out of order, missed the account, two purchases overlapped, or what was sold or named is no plan
  (`PlanFollowsPurchase`); a 200 means written, matched to nobody, or about what is no plan (`AnsweredIsWritten`), and
  nobody is matched only after an id was overwritten or for an order paid while the row did not name it
  (`MissedExplained`); no plan without an event or an admin (`PlanWasPaid`).
- *Login.* The account locks after the threshold, later only by the attempts that were in flight together or
  cut off (`LockEngages`); a lock stands for that many wrong passwords unless a login overtook the attempt
  that set it, and only a login that read the row before lifts it (`LockIsSound`); a link works once unless two
  requests held it together, and the newest one is not lost unless an older one was being used
  (`LinksSound`).
- *Chat.* Who is served is charged once and has question and answer in the conversation, and who pays for
  nothing met a refusal, a failing statement, a deleted conversation or the end of the process
  (`TurnsComplete`). A server is in cooldown for a failure of its own, in these requests or in others', or for
  one of the database's that the code takes for it (`CooldownExplained`). An exit with 0 has cut off nobody who was
  still connected (`CleanExitFinishes`), which is less than "in-flight requests finish" (`README.md:13`): a handler
  whose client has left does not hold `server.close` back. Through failures, recoveries and the branch with every
  server in cooldown, which others' failures bring about, no healthy server waits longer than a round
  (`NoServerStarved`).
- *Migrations.* However runs overlap, fail and start again, the files are applied in order and once
  (`Versioned`); done means up to date, and a run that fails without a failing statement met a file that
  another has just committed (`OutcomesHold`): running it again is safe, running it twice at once ends one of
  the two with 1. Every run ends (`RunsEnd`).
- *Accounts.* The log is true but for a deletion that is refused or cut off after its entry
  (`AuditTruth`); a bonus is paid once to both unless the second statement was cut off or a plan has
  overwritten the column it is added to (`ReferralsPaid`); of conversations nobody changed meanwhile an
  export has the messages exactly if it has them (`ExportConsistent`).

Exceptions stand in the properties where the code needs them, and say how the documentation is to be read:
"a reused token revokes its whole family" (`001_init.sql:56`) and "a new password logs out all sessions"
(`routes/auth.js:220`) hold but for requests in flight; the bonus that is "permanent" (`routes/auth.js:67`)
lasts until the next plan; a process east of UTC (`Ahead`) resets the allowance on every request.

Runs that end in a violation, each of one statement of the documentation that the code does not keep:

| Run | Statement | Why it fails |
|---|---|---|
| `metering_fraction` | time accumulates while requests are close together (`003_free_usage_time.sql:2`) | fractional seconds into an INTEGER column: the request hangs |
| `gateway_chain` | give the order in `fallback_chain` (`README.md:166`) | validation strips the field |

**Bounds.** Two requests in flight are what every race here takes: each is a read and a write of one request
with one statement of another between; sessions need three tokens for two rotations of one login to overlap
(login, two successors) and two passwords for an old and a new one; `sessions_live` has three writers and as many
new passwords, so that the writes of one account meet in every order. Metering has one midnight of either date,
days long enough for a request before, across and after it, and a limit below what two requests can spend; with a
third second of clock the run passes too, in nine million states. Gateway needs two
usable models for a fallback, one model out of use, and a clock that passes one cooldown. Billing has one
purchase more than the row can remember (two customers, two orders), and three events so that one can be bought,
changed and canceled, or canceled before an order is paid at the other gateway; in `billing_stripe` a delivery may
come twice. Login locks after three instead
of five, above the two that can be in flight, and counts to seven so that the lock is passed by all of them; two
reset links are an older and a newer one. Chat has a second server for the round, which others' failures put in
cooldown while a request still has to pick, and one conversation, which the two requests share or lose (with a
second one that is not deleted the run passes too, in 17 million states); a restart needs no bound, for requests are
bounded. Migrations has three runs, so that two can overlap and a third come later or wait with them, and two files,
so that an order can be broken. Accounts has a referrer and an account referred, two addresses so that registrations
race for one or for none, and one export at a time (`Exporting`): exports only read. The bounds are constants with a
guard (`MaxTokens`, `MaxClock`, `MaxUsed`, `MaxEvents`, `MaxFails`, ...). Slots for requests are symmetric and
reduced by `SYMMETRY`, but not where liveness is checked; chat requests are numbered in the order they arrive.
Deadlock is checked in Migrations, where the script can always be started again; every other bounded model stops at
its bounds.

**Fairness.** `sessions_live`: weak fairness of `Advance(r)` for each handler. An event loop
gets to every callback, and without failures (`SteadySpec` has no `Abort`) PostgreSQL answers each
statement; arrivals, the clock and administrators are not fair. `migrations`: weak fairness of a run's
steps, and strong fairness of its INSERT, which is enabled now and then while others hold the row and
roll back, because PostgreSQL queues those who wait for a transaction and lets them go on in turn. Starts and
failures are not fair. Chat states safety only: no call to a model server has a time limit, so nothing ensures
that a request ends.

## 4. The proofs

Every invariant the runs check is also a theorem: for any number of requests, accounts, tokens, models and any
values of the bounds. Where a theorem takes more than the assumptions of its module it says so (`ASSUME`), and it
is named here.

- **Sessions** (`SessionsProofs.tla`). The properties are not inductive: they speak of rows, and the
  damage is done by requests that hold a row. `IInv` extends each to the requests in flight: a refresh that
  has read a token of a revoked family has `"family"` in `missed`, two overlapping refreshes of one family
  have `"rotation"`, and so on (`FamilyInv`, `PasswordInv`, `RotationInv`, `LogoutInv`), on top of
  `IdsSound` (ids are handed out in order) and `HeldRowsSound` (a handler holds an issued row of its
  account). Most steps insert nothing: lemmas on the effect of a revocation, a rotation and an INSERT
  carry the invariant through them. `RotationInv` speaks of tokens not exchanged yet, alive or not (`Leaf`): that is
  what tells after a logout with an exchanged token that the one living on is later (`LogoutLater`). From it follow
  `TypeCorrect`, `FamilyRevocation`, `PasswordRevocation`, `SingleSession`, `LogoutHolds`, `Lineage`, `Owners`. The
  last part is the refinement: every step of Sessions is a step of RefreshTokens or a stutter
  (`ImplementsLifecycle`); it needs that a deleted account never comes back.
- **Metering** (`MeteringProofs.tla`). `IInv` adds that the row was not used in the future (`DatesPast`; its reset
  may be dated tomorrow, where the database was ahead when it was registered, and `RowTime` speaks of such a row
  too) and what requests in flight hold (`RequestsSound`): their dates are past, a request that
  is about to be charged has a charge left, and a total computed today and not yet written is already bounded by
  the time since midnight. It rests on arithmetic of days (`DayGrows`, `MidnightPast`, `Dates`). From it:
  `TypeCorrect`, `MeterTrue`, `TimeTrue`, and `ResetOnce`, which assumes a process not east of UTC (`~Ahead`): with
  `Ahead = TRUE` in `Metering.cfg` TLC finds it violated at once.
  Two more theorems count, for a process with finitely many requests, not east of UTC. `Alerts`, for any zone of the
  database's session: while the dates agree (`Agreed`) each mail takes one of the requests that have not seen the
  day's alert (`Mailing`), and after the first none joins them (`MailInv`).
  `DailyCap`: what was spent and what may still be charged add up to the bound. A unit is the n-th charge of a slot;
  `Left` are the units still to come, of the requests of today and, until today's reset has landed, of the one that
  each slot may yet take; a charge takes its unit out, and once the reset has landed units come back only
  by an admission that found the meter below the limit (`CapInv`). It assumes that limits and costs have a
  largest element and that the limit is not always 0. The proof brought up a day the small instance
  is too short for: a reset sent on an earlier day and landing late reopens the allowance, which is why `slipped`
  counts it.
- **Gateway** (`GatewayProofs.tla`). The invariants leave each other alone. `Once`, a request is charged once,
  counts charges against failures of `recordUsage` at each place of the handler and does not look at the
  candidates. `CandidateInv` says of them what was true when they were picked and stays so while the queue
  shrinks (`Chosen`), and that each charge has used up a place of the queue (`Room`). From it `TypeCorrect`,
  `CooldownsRespected` and `NobodyLeftOut`. They rest on what the filter of the ranking keeps (`InOrderFacts`):
  `InOrder` is a recursive function, and what it returns is proved by the least number for which it would
  fail (`LeastElement`, `Induction`), for the library's own induction rule is out of reach.
- **Billing** (`BillingProofs.tla`). `TypeCorrect` needs to know what each request in flight holds (`TaskSound`) and
  that sessions and subscriptions share one supply. `EventInv` follows the plan of the row: it is the plan of
  the last event applied if they came in order, and of some event if not, unless an admin chose it. That holds for
  any prices (`PlanOfEvent`); that it is the plan paid for (`PlanPaid`) and, with all events answered, that of the
  one purchase alive (`PlanFollows`, by `OneSale`: the last event tells what is paid for) assumes
  `OwnPrices`, a price and a product of its own for every plan, as `.env.example` has it, that nothing else has. Two
  plans of one price are one plan to the webhook. `AnsweredWritten` needs no such thing: only the price or product
  of no plan is looked up in vain (`PriceFound`). `MissedOnlyByOverlap` has `LinkInv`: until an id was overwritten,
  whatever names a customer names the row's, and an only order that was the row's when it was paid still is
  (`FirstOrderKept`).
- **Login** (`LoginProofs.tla`). Three invariants. `SoundInv`: a request that no login overtook knows the truth
  (`Informed`), from it `LockHasGrounds`. `EngageInv` counts, of the attempts in flight, those that read too low a
  count to lock (`NotDue`): from it `LockComesInTime`. `LinkInv` follows a link from the mail through
  the requests that hold it (`Holders`) to its uses: `LinkWorksOnce`, and with it the bound on uses in `TypeCorrect`.
- **Accounts** (`AccountsProofs.tla`). On `BaseInv` (rows and keys are never taken back, what a request is about was
  there, one request pays the bonus of an account) stand `LogTellsTheTruth`, `ReferralPaidOnce`, whose invariant
  counts the accounts that have paid (`Payers`), and `ExportAgrees`: what an export has read is still so of
  every conversation not touched since (`Fresh`). Also `TypeCorrect`.
- **Migrations** (`MigrationsProofs.tla`). What makes overlapping runs safe is that a run reads the applied
  files once and then works through its list. `IInv` says that `applied` is always `1..v` (`InOrder`), that a run
  at a file has everything before it applied and owes every later applied one to somebody else
  (`Working`), and that no two transactions hold the same filename (`OneWriter`). Then a COMMIT can only add
  file `v + 1` (`CommitNext`). From it `TypeCorrect`, `Outcomes` and `ImplementsVersions`, the refinement,
  which needs the cardinality of an interval (`FS_Interval`).
- **Chat** (`ChatProofs.tla`). `ClusterInv`: what a pick does to the distance from the index
  to any healthy server (`DistanceFacts`, `DistanceAdds`, `PickInv`); a server that is in cooldown has been
  passed 0 times, so that its return cannot break the bound. `Turn`, `Kept` and `Drain` say for
  each place of the handler what is charged, what is saved, and who is connected while the pool closes;
  `ServeSound` takes the steps of a request one by one (`GoesOn`, `Rejected`, `Left`), `OthersInv` shows that they
  leave the other requests alone. From it `TypeCorrect`, `Turns`, `CleanExits`, `ServersShared`. `Cooldowns` adds that
  a request that failed takes no further step, so that what it explains stays explained (`BlameInv`), and speaks of
  the servers that others' failures have not marked.

Only model-checked: liveness under fairness (`PasswordWriteEndsSessions`, `RunsEnd`), which the installed provers do
not reach.

## 5. Not modelled

What is left out of a modelled component is named in `PROJECT.json` with its reason: columns nobody reads to
decide (`plan_status`, `stripe_subscription_id`, titles, `updated_at`), `request_logs`, the audit entries that
only report, latencies, strings. Access tokens live for 15 minutes whatever becomes of the session; no
model speaks of them. A provider call that never ends is a call that stays open: nothing is claimed about when an
answer comes. When a client's leaving is noticed (`req.on('close')`, whose moment depends on the version
of Node) is left open: Chat lets it happen at any time while the connection is there. A checkout of the
migrations is a prefix of the list of files: one that lacks a file in the middle is not modelled. The mails of the
hours between the midnights of database and process are not counted.

Of whole components:

- *Rate limits.* The counters are in `express-rate-limit` and its Redis store; the code chooses a ceiling.
- *Provider adapters, cost, validation, moderation, system prompt.* Stateless translations and patterns over
  strings and message bodies: nothing in them is hard to test. What validation strips is in Gateway.
- *E-mail, logger, Redis client, configuration, scripts.* Wrappers of I/O and one-shot commands; a mail is sent
  and its failure swallowed, which Login and Metering have.
- *Server.* Health probes and the order of the middleware; its shutdown is in Chat.

## 6. Plan

Done, in this order: Sessions with its proofs and refinement, Metering with its proofs, Billing, Gateway with
`Once`; then Login, Chat with LlamaCluster and the process, Migrations with its refinement and proofs, Accounts, and
the proofs of Chat; then the proofs of Billing, Login and Accounts, the candidates of Gateway, the cooldowns of Chat,
and the two counting theorems of Metering. What is left to prove:

1. Abstract specifications of more components and their refinements: a lock, a subscription, a meter of which only
   the promise is said.
2. Action properties that follow from the invariants at hand: a turn that was charged stays kept, a revoked key stays
   revoked, a plan changes only by an event or an admin.

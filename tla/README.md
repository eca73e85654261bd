# Rems backend: specifications and proofs

Rems is a restaurant management backend (Go, Fiber, GORM over PostgreSQL,
Redis, ImmuDB).  This directory holds TLA+ models of it, the TLC runs that
check them on small instances, and TLAPS proofs about the parts where the
number of requests, rows and machines matters most.  All paths below are under
`src/backend`; `PROJECT.json` maps every definition to the lines it translates
and lists the hazards, each with the properties that are about it.

## 1. The system

| Part | State it keeps | Operations | What is hard |
|---|---|---|---|
| FSM engine (`utils/FSM.go`) | current state, sequence number, bounded history, in-flight flag; a read-write lock | `Send`, `BatchSend`, readers, `Compile` | callbacks that fail, panic or call `Send` again; lock; eviction |
| Domain machines (`utils/FSM.go` 937-2277) | ten transition tables | guards, effects | tables that strand an entity; guards read before they are set |
| Order (`services/business/Order.go`) | orders, tables, Redis idempotency key, outbox events | `SubmitOrder` (four layers), relay worker | retries, commit then cache, crashes |
| Outbox relay (same file, layer 4) | event status, attempts, next retry | poll, claim, three notifiers, settle | several pods, lost updates, redelivery |
| Payment (`services/business/Payment.go`) | payment records, order status | issue and re-issue a QR, callback, sweep, refund, cash or card | stale copies saved by primary key |
| Kitchen tickets (`services/business/Kot.go`) | KOTs, their items, order status | create, start, complete, cancel, patch, item update, auto-complete | two creators, goroutines, stale copies |
| Inventory (`services/inventory/inventory.go`) | items, quantity, movement ledger, links to menu items, item cache, alert keys | create, patch, delete, adjust, deduct for an order, link, read-through | lost updates, clamping, stale cache, alerts from goroutines |
| Purchase orders (`services/inventory/purchaseOrder.go`) | status, received quantity per line | create, submit, approve, cancel, receive | line, stock and status saved one after the other |
| Authentication, sessions, tokens (`services/core/auth.go`, `handlers/auth.go`) | failed logins, sessions and their index in Redis, refresh tokens, pending second factors, reset links | login, second factor, refresh, logout, password change and reset, revocation | counters on copies, rotation, session cap, revoke-all against a login in progress |
| Users, OAuth, devices (`services/core/auth.go`, `oauth.go`) | users, tenants, OAuth states, device registry | register, Google callback, link, trust | check then create, unique indexes |
| RBAC (`services/core/rbac.go`, `handlers/role.go`) | roles of a user, two-layer permission cache, policies | authorize, assign, revoke, delete a role, evaluate | stale permissions, rule order, inheritance |
| Menu (`services/business/Menu.go`) | categories, items, modifiers, price bands, four kinds of cache keys | every mutation and read | which keys a mutation drops, overlapping bands |
| Taxes and settings (`Taxes.go`, `settings.go`) | profile and settings, cached | price an order, get and set | two reads of one profile, fallbacks, rounding |
| Customers, employees (`services/People`) | contacts, points, order counts, roles | create, update, award, redeem, assign | read-modify-write of one row |
| Notifications, webhooks (`services/support/Notification.go`) | rows, cached badge, subscriptions | send, read, delete, register | badge against concurrent changes |
| Audit (`services/support/Audit.go`) | trail, reviews | record, review, report, page | figures by separate queries, pages over a growing table |
| Analytics and forecast (`services/analytics`) | cached reports | twelve reports through a pipeline machine | a guard on a count that some stages never set |
| Middleware (`middleware/`) | response cache, rate-limit windows, abuse counters | per request | invalidation goroutines over reused contexts, interleaved pipelines |
| Startup (`main.go`, `SeedSystemRoles`) | system tenant, roles, super admin | seeding | pods that boot together and crash |

Interaction: `SubmitOrder` commits an order with a pending outbox event; the
relay hands the event to the KOT, inventory and analytics notifiers; the
kitchen's tickets move the order to `preparing`, a confirmed payment moves it
to `served`; a receipt calls `AdjustStock`.  Every request passes token,
session, tenant, role and restaurant checks; permissions come from RBAC's cache.
Most status columns are written by restoring a machine from a loaded row, firing
an event on that copy, and saving it with an `UPDATE` by primary key.  No row
is locked between load and save, and that is where most of the hazards come
from.  The schema is migrated without foreign keys (`DB/database.go:34`), so
nothing cascades or restricts.

`main.go` wires authentication, RBAC and the CRUD handlers; most business
services, the cache, rate-limit and timeout middleware are library code it does
not install yet.  They are modelled as their own code uses them: any number of
requests, and the workers their comments describe.  The CRUD handlers that are
installed write some of the same tables without the services
(`handlers/inventory.go:134` changes a quantity with no movement); they are
another program over these tables and not part of the models.

What makes each component correct: the engine runs one Send at a time and its
history is exactly what happened last; a stored status moves along its
machine's table; money is confirmed only when the gateway verified it; an order
is placed once per key and its event is neither lost nor applied twice; a
ticket exists once per order and is completed when and only when the kitchen is
done; stock equals the sum of its movements; a revoked session, token or role
grants nothing, or nothing after a known time; a cache shows what is stored, or
no older than its lifetime; counts and points add up.

## 2. Modules

| Module | Models | Correspondence |
|---|---|---|
| `FSMDefinition` | `Compile`, `Lookup`, `AllowedEvents` | a definition is a set of `<<from, event, to>>` |
| `FSM` | `Machine.Send`, `SynchronizedMachine` | `stack` is the goroutine's stack of Sends, one frame per invocation; each phase of Send (guards, hooks, effects, commit, record, observers) is an action, and `Abort` and `Panic` are the other ways out |
| `DomainFSMs` | the ten definitions and which transitions carry guards | one record per `NewDefinition` chain |
| `Fleet` | `BatchSend` over a slice of machines of any definition | `Results` is the loop; guards' verdicts are free |
| `Payment` | `PaymentService` | a handler's `pc` is its position between two calls, `mem` the status in its copy of the row |
| `OrderSubmit` | `SubmitOrder`, layers 1-3 | one action per Redis or database call; the transaction is one action because it is one |
| `Outbox` | the relay worker and its notifiers | `batch` and `tries` are the copies the SELECT returned; of the analytics notifier's `DEL`, which drops nothing (section 4), only that it may fail |
| `Kot` | `KOTService` and `KOTNotifier` | as Payment; `autos` are the auto-complete goroutines, those that gave up on a database error among them |
| `Inventory` | `InventoryService`, `InventoryNotifier` | `job` is a handler's copy of an item and what it is about to write, `todo` the rest of an order's deduction, `alerts` the `checkLowStock` goroutines; `booked` is the sum of an item's movements, `clamped`, `low` and `stocked`, `lost`, `repeated` below are bookkeeping of what has happened |
| `PurchaseOrder` | `PurchaseOrderService`, composed with `Inventory` | EXTENDS `Inventory`: a receipt's `AdjustStock` is `Inventory`'s read and transaction, which return to the receipt's loop (`back`); `lineMem` and `poMem` are its copies |
| `Auth` | one account: logins, lockout, sessions, second factors, refresh tokens, reset links | every statement and Redis call is a step; a pipeline is one; time in ticks expires sessions and links |
| `Accounts` | how users come to be, OAuth states, trusted devices | unique indexes are those of the models |
| `PermissionCache` | L1 (a map per pod) and L2 (Redis) over the roles of one user | `past` records what the database held at each tick; a request has a deadline of one tick |
| `StaleRegister` | the abstract promise: an answer is a value the database held within the last `MaxStale` ticks | `PermissionCache` implements it |
| `AccessRules` | policy evaluation, inheritance, escalation check, predicates, middleware chain | pure operators over one question |
| `RateLimit`, `ResponseCache` | the sliding windows of the middleware and of the login limiter; the response cache and its goroutines over reused contexts | as above |
| `Menu`, `People`, `Notifications` | the services of these names | a database or Redis call is a step |
| `Taxes` | `CalculateTax` over profile and settings | whole cents and percents |
| `Pipelines`, `Figures` | the reports as walks of their machines; the arithmetic of their figures | stages abstracted to what they read and count |
| `Audit`, `Startup` | the audit trail; seeding | an entry is recorded by the service, which raises flags, or inserted by another service with its own; otherwise as above |
| `*Proofs` | theorems, section 5 | |

`MC*` modules add symmetry sets and small definitions.  Three modules hold
several components that share no state: `Access` (`Auth` or `PermissionCache`),
`Services` (fourteen services) and `MCStock` (receipts over `PurchaseOrder`, or
movements over `Inventory` with other constants).  The variable `part` is chosen
in the initial state; what the other parts keep is left alone, so a behaviour is
one of exactly one component and the run is the sum of the components' runs.
`Access` and `Services` leave their constants open, so that they can be proved
about; `MCAccess` and `MCServices` are their small instances.  Modules with a
clause `Overlaps` choose at the start of a behaviour whether requests may
overlap, so that one run shows both what holds in any case and what holds only
when requests take turns; properties of the second kind are named `Serial...`.

Definitions named `X_Something` with a comment "Mutant" are faulty variants of
`X`: each property of a passing run is violated when `X` is replaced by one of
them, which shows that the property constrains the code's behaviour.

## 3. Runs

| Run | Instance | Shows |
|---|---|---|
| `fsm_engine` | 3 goroutines, a 3-state definition with a cycle and a terminal state, history of 2, 4 commits | one Send at a time, readers excluded, history faithful and complete, moves along transitions, every waiting call returns |
| `payment_requests` | 2 handlers, 2 rows, 1 order, 1 fault, overlapping or not | confirmed and served only if verified; one at a time: machine respected, one active QR; without faults every QR settles |
| `outbox_pods` | 2 pods, 2 events, batch of 1, 2 attempts, 1 fault | a delivered event has reached the kitchen; one ticket per order; without faults every event is settled for good |
| `kot_life` | 2 handlers, 1 ticket, 2 items, 2 updates, 1 goroutine that fails, an order that other code may cancel | no start skipped; the goroutine that finds the last item done completes the ticket, unless a call of its own fails |
| `access` | account: 2 handlers, 2 passwords, 2 devices, session cap 1, 2 requests (3 one at a time), 2 ticks, 1 fault; roles: 2 pods, 3 roles, lifetimes 1 and 2, 2 writes, 4 ticks | `AccountSound`: session cap exceeded by at most one per overlapping login, one session per second factor, and one at a time: revocation is complete, a link works once, one token per session, no password reused, and without faults five failures lock; `RevokedStaysRevoked`; `RolesSound`: cap on roles, fresh layers after a clean change, no dangling role; `RegisterSpec`: the refinement |
| `stock` | receipts: 2 handlers, 1 order of up to 2 lines of 2, 4 movements; movements: 2 handlers, 1 item with 1 menu item, quantities to 2, 3 movements; 1 fault, overlapping or not | stock never negative; low stock noticed; lines within what was ordered; one at a time: ledger sums up, cache fresh, status matches lines, received is stocked |
| `services` | fourteen components, 2-3 requests each, 1-2 faults, overlapping or not | one conjunction `...Sound` per component, its parts named in its module |
| `outbox_crash` | 2 pods, 1 event, 1 fault | *violation*: an event left in `processing` never reaches the kitchen |
| `submit_table` | 1 call, 1 table | *violation*: seating at an available table fails |
| `kot_duplicate` | 2 handlers, 2 tickets | *violation*: two creators, two tickets |
| `receipt_names_line_twice` | 1 handler, 1 line of 1, 2 entries | *violation*: one receipt exceeds its order |
| `auth_resolve` | 1 login, 1 request | *violation*: the session a login has created is not found by the middleware |

The parts of `services`: `MenuSound` (every cached copy is what the database
would give, save the display order in a category's copy; as many overlapping
price bands as handlers); `PeopleSound` (points add up to the answers, orders
are counted, contacts unique); `NotificationsSound` (a badge never hides a
personal notification); `TaxesSound` (a bill adds up, by settings no older than
their lifetime); `PipelinesSound` (answers, refusals and machine agree);
`FiguresSound` (shares sum up within rounding, forecasts lie in their interval,
...); `AuditSound` (figures add up, what is grave and not reviewed is among the unreviewed with what callers flagged themselves, pages miss nothing); `FleetSound` (tables
compile, nothing is stranded, one rejection does not hold back the rest);
`SubmitSound` (an app that waits for its answer places one order; answers are
committed orders); `RateLimitSound`; `ResponseCacheSound` (current or within
its lifetime, and the answer to who asks); `AccountsSound`; `StartupSound`;
`RulesSound` (deny overrides, a hierarchy resolves exactly when each role in it
is reached in one way, the middleware chain lets nobody through whom one of its
checks refuses).

Why the bounds are enough.  Every race here is between two actors on one row,
with at most one third party that changes the row between them: two handlers,
pods or creators give every order of their loads and saves; a third goroutine
in `FSM` lets a reader and a writer wait at once.  Histories of length 2 with 4
commits overflow twice.  Two attempts are needed for a retry.  Two item updates
give two auto-complete goroutines, one of which may fail while the other must
complete the ticket; the duplicate run needs neither a failure nor a cancelled
order.  One fault at any point is the failure the
code must survive; two in `OrderSubmit` lose both a call and the cache entry of
its retry, two crashes in `Startup` stop two pods.  A polling batch of 1 keeps
both events in flight on two pods.  In `Inventory` a quantity of 2 with a
deduction of 1 has every stock state on either side of a reorder point of 1,
and three movements let one be lost between two others.  In `PurchaseOrder`
lines of 2 are received in parts and in full; a receipt has one entry, so
several entries are several receipts (two entries in one receipt are what
`receipt_names_line_twice` is about).  In `Auth` the starting values of the
failure counter (4 and 9) put both thresholds of the lockout one request away,
and three requests in turn are a login, what revokes it and what must fail
after it.  In `PermissionCache` 4 ticks outlive the sum of both lifetimes.
`ResponseCache` runs with a lifetime of 2: with 1 an entry would be gone in the
tick after it was stored, and a goroutine that stores a response late (a reused
context, `cache.go`) could not serve it past its age.  `StaleWithinTTL` is
therefore about the histories in which no goroutine was late.
Where a proof exists (section 5) the bounds do not matter.

Fairness.  In `FSM` callbacks return and `sync.RWMutex` serves every waiter
(its documentation promises that a blocked `Lock` excludes new readers, hence
strong fairness for `Lock`).  In `Payment` requests run to their end, thirty
minutes pass, and the sweeper is started by a ticker; the ticker is a goroutine
of its own while the model lets it share the handlers, hence strong fairness.
In `Outbox` the ticker polls, the loop finishes its batch and the back-off is
finite.  In `Kot` requests and goroutines run to their end.  The other modules
are checked for safety only.  Users, crashes and gateway answers are never
assumed to happen.  Deadlock is checked in every run but `access`, `services`
and `auth_resolve`, where the number of requests is bounded and the system
simply has nothing left to do.

Refinement.  `RegisterSpec` is `StaleRegister` with the user's roles as the
value, the roles `Authorize` decides on as the answer and `TtlL1 + TtlL2 - 1`
ticks as the staleness: an entry of Redis can be copied into a pod's map in the
last tick of its life and live there once more (`rbac.go:200-206`).

## 4. Findings

Each is a violation run with the quoted promise in `PROJECT.json`:

- an outbox event survives its worker's crash as `processing` for ever;
- the table's optimistic lock compares with the value the machine has just
  assigned, so seating succeeds only if someone else has occupied the table;
- `CreateKOT` and the relay can both create a ticket;
- a receipt that names a line twice is checked entry by entry against the stored
  quantity and brings in more than was ordered;
- sessions are stored under one key and looked up under another, so the
  middleware refuses every request.

Other deviations met while the modules were written are kept as hazards or are
visible in the models: a stale copy overwrites a terminal payment or ticket
status; an overlapping resubmission with one idempotency key places a second
order; a payment stays in `awaiting_confirm` after a crash; an order goes back
to `preparing` by a ticket created from a stale copy; a ticket whose items were
finished before it was started is never completed by itself; overlapping stock
movements lose updates; of the analytics reports only the revenue overview can
pass its guard, for the others never set the count (`FSM.go:2008-2014`); a
service charge before tax is taxed but never added to the grand total
(`Taxes.go:236-251`); `ReorderCategories` leaves the copies of categories in
Redis as they were (`Menu.go:416-447`); the highest risk in the audit statistics
is the lexicographic maximum of the words (`Audit.go:628`); the analytics notifier
"invalidates the revenue cache so the dashboard re-reads" (`Order.go:282`) by
deleting a key nobody writes (`Order.go:295`; the figures are under other keys,
`analytics.go:217, 323`), so that the dashboard shows the cached revenue to the
end of its lifetime; a wrong password whose `UPDATE` fails is not counted
(`auth.go:1517`); an auto-complete goroutine that meets a database error leaves
the ticket in progress until the next item update (`Kot.go:553-578`); the price
of a deleted item is still answered while one of its bands covers the time
(`Menu.go:868-897`); the unique index on
a tenant's status (`models/tenant.go:13`) lets one tenant have each status, so a
second sign-up by Google fails; a database error while a setting is read counts as a
missing setting.  The properties named `Serial...` state what remains true in
these places.

## 5. Proofs

Every listed theorem is checked by TLAPS for all values of the constants under
the named assumptions of its module (`...Assumption`, which TLC evaluates in the
runs).  The bounds on requests, faults and movements are constants too, so a
theorem covers every bound.

| Module | Theorems | Inductive invariant and why it is needed |
|---|---|---|
| `FSMProofs` | `TypeCorrect`, `SendIsExclusive`, `ReadersSeeNoSend`, `HistoryIsFaithful`, `HistoryIsComplete`, `StateMovesAlongTransitions` | `IInv`: `SendInv` says that the frame on the stack leads out of the current state and, after the commit, that its record is the last transition; `HistoryInv` chains it to the newest stored record; `LockInv` ties the goroutine inside Send to the lock's holder, without which two goroutines could take turns on one stack. `HistoryComplete` is then inductive by itself: `StoredStep` says which steps move a record into the history |
| `PaymentProofs` | `PaymentsVerified`, `OrdersPaidBeforeServed`, `OneActiveQR`, `StoredStatusFollowsFSM` | `PayInv` says what a handler knows of the row it will save whatever others do (about to confirm: the gateway has verified it), and that a goroutine that serves an order was started by a verified payment. `SerialInv` adds, for requests that take turns, that the stored status is still the one its copy was loaded with |
| `OutboxProofs` | `OutboxSafety` | `OutboxInv`: past the KOT notifier the order of the event in a worker's hands has its ticket, unless a notifier has failed, so that a worker can settle as delivered only what has one |
| `KotProofs` | `KotTypes`, `TicketsStartFirst` | `KotInv`: a copy that will be saved as completed implies that the stored ticket has been started, and no save writes `sent`; likewise for the goroutines |
| `StockProofs` | `InventoryTypes`, `NeverNegative`, `LowNoticed`, `LedgerHolds` | `Types` bounds what a request is about to write; `LowInv` adds that a debounce key without a notice belongs to a goroutine about to write one; `SerialInv` that the only busy request's copy is still the row's, and that a stale cache entry is about to be dropped |
| | `ReceiptsWithinOrder` | `ReceiptInv`: what a receipt has left to write fits into its copies of the lines; a line is written from its copy, so lost updates only make it smaller |
| | `ReceiptsKept` | `OrderInv`: which request works on which order and where it stands (`PlaceInv`); one at a time, its copies are the rows, the lines agree with the status as far as it has got (`CopyInv`), and lines and ledger differ by the quantity the only receipt has saved and not yet booked (`LedgerInv`) |
| `AccessProofs` | `CacheRefinesRegister` | `CacheInv` dates every copy: an entry that expires at `u` holds roles the database held at or after `u` minus the lifetimes it can have had; a request began no earlier than one tick ago |
| | `RolesBounded` | `RolesInv`: what a request has counted it may still insert once (`CapInv`); one at a time, what a request is about to cache is what the user has, and only the request that has just changed the roles leaves a layer behind (`SerialInv`) |
| | `AccountKept`, `TokensStayRevoked` | `AccountInv`, twelve parts: every login past the cap found room (`OvershootInv`, so that overlapping logins add at most one each); a second factor is in Redis, at one login or at one session, never two of them (`PromotionInv`); one at a time, the counter at the compare step (the count of wrong passwords, too, as long as no call has failed), the token at the rotation and the password at the save are the stored ones (`FailuresInv`, `RotationInv`, `HistoryInv`); a used link is at its request until deleted (`LinkInv`); a barred token or session is out, or a request is under way that takes it out (`TokensOutInv`, `SessionsOutInv`). The last one needs that the index in Redis holds every live session and lasts as long as each; that is so only while all sessions have one lifetime (`Uniform`), and the property says so |
| `ServicesProofs` | `OrdersPlacedOnce` | `SubmitInv`: an app that waits has one open call per key, and unless something was lost an order is cached or its goroutine is about to cache it, so that who gets past the cache is the first of its key |
| | `PodsServeSeeded` | `StartupInv`: what a pod's step says of the rows, and `SomebodyMakes`: a missing role, user or assignment has a pod that will still make it, for whoever is refused a row leaves the rest to the pod that made it |
| | `WindowsHold` | `RateInv`: what has passed is in the sorted set until it leaves the window; alerts come in groups of at most one per request, each of which has used up a threshold of rejections (`AlertsGrouped`) |
| | `UsersAddUp` | `AccountsInv`: users with an address and requests that may still add one stay within the requests at once and the failed lookups (`Admitted`); a state that can still be used was used by the callbacks holding it (`StateInv`); every user was added by a request that ended (`AddedByRequests`), which bounds the numbered names; a device row and every copy of it lag behind its logins (`Lags`) |
| | `CacheServesCurrentAndPrivate` | `CacheInv`: an entry no late goroutine has stored is its user's answer for its resource and no older than its lifetime; one at a time, an entry that no goroutine is about to delete is current |
| `BackOfficeProofs` | `PeopleAddUp` | `PeopleInv`: what a request knows at a step, whatever others do (`TaskInv`: a row once found stays, the copy to redeem from has the points); the books hold nothing for a customer who does not exist; one at a time, a copy's points are the row's (`PointsInv`) and what a request has counted still holds (`CountInv`), so that its insert makes no duplicate |
| | `NothingHidden` | `NotesInv`: webhooks that are active and requests about to insert one together stay within the requests at once (`HookInv`), since a count that did not fail found none active; one at a time, a badge misses what its user alone was sent only while a request is about to delete it, and what a request has counted is still so (`BadgeInv`) |
| | `ReportsAnswer` | `PipesInv`: an open call's state is the station of its stage (`Stations`), it has passed the guard only if it counts before it and had the rows, and the rows it read are current unless an order changed at this very time (`CallInv`); an entry is of the orders as they are, or they changed within its lifetime (`EntryInv`) |
| | `MenuStaysConsistent` | `MenuInv`: the bands that cover a time and the requests that have found none and are about to insert one together stay within the requests at once (`BandsInv`), since whoever passes the overlap check covers only free times; one at a time and without error, a copy is what the database holds or its key is among those its request has still to forget, and what a request has gathered of the menu is still so (`CopiesInv`). It rests on what each change leaves alone (`Unforgotten`): a copy whose key is not forgotten needs no forgetting |

`StockProofs` needs to know of `Inventory`'s actions only that they leave orders
and lines alone (`StockStepOutside`) and which of their commits a receipt makes
(`StockShape`).  Assumptions worth naming: `Compile` has
accepted the definition (`DefinitionAssumption`), the opening quantities are
within the cap on quantities, the sets of menu items, requests and roles are
finite (there is at least one request), lifetimes are at least one tick, `web` is
a device, the names of the seeded roles are none of the other rows', no
customer is an employee, `Everybody` is no user, and every report is one of `Report`.

`Access` and `Services` are proved about as composed: a lemma per component
(`SubmitRuns` and so on) says that a behaviour of that part steps as the
component does, and its invariant is conditional on `part`.

Only model-checked: all liveness (`SendReturns`, `QRSettles`, `EventSettles`,
`LastItemCompletes`), because fairness and ENABLED are out of the prover's
reach.  `TaxesSound`, `FiguresSound`, `AuditSound`, `FleetSound` and `RulesSound`
compare folds and recursive definitions over a sequence with a reference; what
these compute for every input needs induction over data, which the installed
provers cannot instantiate.

## 6. Not modelled, and why

- Vendors: single-row create, update and deactivate.
- E-mail, GeoIP: calls to external services without state.  The vault's
  `SeedDefaults` writes constants.
- HTTP handlers for CRUD: one statement each.  Next to
  `handlers/inventory.go:134` no property of `Inventory` would hold.
- The database layer: schema and query scopes; columns and unique indexes the
  models rely on are named where they are used.
- CORS, logging, recovery, security headers, body validation: they look at one
  request and keep nothing.  Of the timeout middleware the goroutine that runs on
  after the 503 (`timeout.go:72-90`).
- Formatting and wording; the moments at which services write audit rows (`Audit`
  inserts one at any time).  Amounts outside `Taxes` and
  `Figures`, and floating point in them; the regression and seasonal factors of
  the forecast.
- In `OrderSubmit` the 24-hour expiry of idempotency keys and the disabling of
  tables; in `Outbox` an event whose payload does not unmarshal, and what the
  inventory notifier does, which is `DeductForOrder` in `Inventory`; in `Kot` chef
  assignment and printing; in `Inventory` the statistics cache; in `PurchaseOrder`
  the order's number; in `PermissionCache` the edits of policies and
  `InvalidateAll`; in `Audit` anomaly records; in `Auth` the inputs of the risk
  score.

## 7. What is left

1. `OrderPipeline`: submission, relay, kitchen and payment on one order, shown
   to implement the abstract machine `OrderFSM` where the code lets it.
2. Edits of policies and roles with `InvalidateAll` in `PermissionCache`.

# A TLA+ model of the dispatch platform

This directory is a verification project for the code in `src/`: a platform for
last-mile fleets with an API (`apps/api`, Fastify over Prisma and PostgreSQL), a
driver's app (`apps/driver`), a dispatcher's and a merchant's web
(`apps/web`), a platform console (`apps/admin`) and shared packages
(`packages/optimizer`, `packages/shared`).

The API keeps all its state in the database and runs in one or more containers.
A handler is a sequence of queries separated by `await`s: nothing holds a lock
between two of them, so requests interleave at every `await`, and a restart or a
query that throws cuts a request at any of them. That is the hard part of this
code and what the modules are about.

## 1. Inventory

| Part | State it keeps | Operations | Module |
|---|---|---|---|
| Route execution, `modules/routes/routes.ts` | `Route.status`, `driverId`; `RouteStop.status`, `completedAt`; `ProofOfDelivery`; `Order.status`, `pickedUpAt` | dispatch, start, arrive, complete, fail; `maybeCompleteRoute` | `RouteExecution`, `RouteLedger` |
| Planning, `services/planning.ts`, `services/insertion.ts`, `modules/optimization/routes.ts` | `Route`, `RouteStop`, `Order.status` | `runPlan`, `persistPlan`; `computeInsertion`, `persistInsertion`; `resequencePlannedRoute` | `Planning` |
| Optimizer, `packages/optimizer` | none | `planRoutes`, `insertOrderIntoRoute`, `evaluateSequence`, `packLoad`, `checkPicoYPlaca`; `planSchedule`; `rankVehicleConfigs`, `planCharging`, `planCapacity` | `Optimizer`, `Schedule`, `Advice` |
| Copilot, `copilot/routes.ts`, `web/pages/Copilot.tsx` | the chat and its cards, in the page | a turn with its tools; confirm a card | `Copilot` |
| Driver's app, `apps/driver/src/api.ts`, `App.tsx` | the queue in `localStorage`, the `flushing` flag; the route shown, the cached one, the session | `apiOrQueue`, `flushQueue`, `retryAction`, `discardAction`; load, poll, start, the sheet of a stop, log in and out | `DriverQueue`, `DriverDay` |
| Engine commands, `modules/telematics/routes.ts`, `simulator/run.ts` | `VehicleCommand`, `Vehicle.lastSpeedKmh`, `engineOn`, `immobilized`; the engine | request, poll, ack, ingest; the device's loop | `EngineCommands` |
| Telemetry retention, `services/routeTrack.ts`, `jobs/retention.ts` | `TelemetryPing`, `Route.trackJson`, `trackBuiltAt` | `pruneTelemetry`, `buildRouteTrack` | `Retention` |
| AI proposals, `modules/ai/executor.ts`, `registry.ts` | `AiProposal.status` | `runAction`, `applyProposal` | `AiProposals` |
| Order intake, `services/orders.ts`, `orders/routes.ts`, `portal/routes.ts` | `Order.externalRef`, `recoveryStatus`, `rescheduledFromId` | `createOrder`, recovery flag, reschedule | `OrderIntake` |
| Addresses, `addresses/routes.ts`, `services/geocoding.ts`, `aiResolveAddresses.ts`, `web/pages/Direcciones.tsx` | the pin of an order, `geocodeSource`, `addressVerifiedAt`; `AddressPin` | geocode, triage, pin by hand, batch, driver's fix, propose and apply, learn | `Addresses` |
| Daily metrics, `services/dailyMetrics.ts` | `DailyTenantMetric` | `ensureFresh`, `recomputeDailyMetrics`, the series | `DailyMetrics` |
| Safety alerts, `services/safety.ts`, `safety/routes.ts` | `SafetyAlert` | check of a deviation, panic, change of status | `SafetyAlerts` |
| Realtime, `services/realtime.ts`, `realtime/routes.ts`, `web/realtime.ts` | subscribers in each container; the throttle of a page | subscribe, emit, cut; `useRealtimeReload` | `LivePage` |
| Exceptions, `services/exceptions.ts`, `exceptions/routes.ts`, `web/pages/Excepciones.tsx` | `SnoozedException`; the list shown | compute, snooze, act, load | `Cockpit` |
| Module entitlements, `admin/modules.ts`, `platform/tenants.ts`, `shared/src/modules.ts` | `ModuleEntitlement.enabled` | provision, enable, disable | `Entitlements` |
| In-process caches, `plugins/tenantStatus.ts`, `entitlements.ts`, `vehicleIdentity.ts` | a map with expiry in each container | lookup, invalidate | `TtlCache` |
| Accounts, `platform/users.ts`, `platform/tenants.ts`, `auth/routes.ts` | `Tenant`, `User.role` | provision, register; create, change and remove staff | `Accounts` |
| Depots, `depots/routes.ts` | `Depot.isMain` | create, change, delete | `Depots` |
| Notifications, authentication, other catalogues, reports, uploads, public tracking, EV estimates, the rest of the frontends | rows read or written one at a time, or output only | | not modelled (section 9) |

How the parts meet:

- Planning creates the stops that route execution works on; insertion and
  resequencing replace them while drivers attend them. The rows are shared; there
  is no message between the two. The optimizer is called between planning's reads
  and its writes and keeps nothing.
- The driver's app sends start, arrive, complete and fail through its queue, so
  route execution receives them late, twice, or in another order; and it reads its
  route back by polling, with loads that overlap.
- An AI proposal is applied by calling planning's own functions, or the addresses';
  the copilot's cards confirm proposals, or call dispatch and recovery as a button
  would.
- The order intake decides what planning finds: an order is created and geocoded,
  and one that failed is created again by the merchant. What is confirmed of an
  address answers for the next order that has it.
- Every request passes through the caches (is the tenant active, is the module
  enabled); the administration writes the rows behind them.
- The device of a vehicle polls for commands and reports the speed that the
  interlock of the next command reads.
- The nightly job reads the routes that execution completed and deletes the pings
  that the drivers' apps stored.
- A ping off its route, or a panic, becomes an alert; the alert is an event on the
  stream, which has no memory, and a row of the queue of exceptions, which the
  dispatcher's page reads again at each event and every minute.

What makes each part correct:

- **Route execution.** A delivery has its evidence; the merchant is told of it
  once, and after the commit; a route is closed only over attended stops, and is
  closed in the end. Hard: the same request twice, the last two stops at once, a
  late arrival or failure, a cut after the transaction.
- **Planning.** An order is in one route and keeps its delivery stop; what a
  driver attended is not undone. Hard: everything is computed from a read that is
  old when it is written.
- **Optimizer.** A plan keeps weight, volume, cold chain, plates, windows and range;
  what it leaves out every vehicle refused at its turn; its search ends; advice is enough for what was
  asked. Hard: limits, ties, remainders and rounding.
- **Copilot.** A card is carried out once. Hard: answers lost, pages left, two pages.
- **Driver's app.** A queued action stays until it is carried out or discarded, the
  queue empties, a route is handed over once, and what is shown catches up. Hard:
  the queue is copied before an `await` and written back after it; the page dies in
  between; an old answer painted over a new one; a session that ends.
- **Engine commands.** A command runs once, in order; an ACK means it ran; the row
  shows the engine; the engine is not cut in movement. Hard: two writes, lost
  answers, a speed that is the last one reported.
- **AI proposals.** One confirmation applies; a failed apply may be confirmed again
  and routes nothing twice. Hard: an apply that created some of its routes.
- **Order intake.** One order for a reference; a rescheduled order has another
  shipment. Hard: the idempotency of the creation inside the reschedule.
- **Addresses.** What the mock geocoder makes up is not learnt; a correction stays.
  Hard: batches and proposals write what they read long before.
- **Daily metrics.** A series shows what happened. Hard: a day that is taken to be
  closed and changes; two readings computing it.
- **Alerts, stream and exceptions.** One open alert for a deviation; a page that is
  out of date has a reason and will read again; a panic comes to the screen. Hard:
  events without memory, a throttle, reads one after another, snoozes.
- **Entitlements and caches.** A module that is on does not lose what it requires; a
  stale answer has a bound. Hard: a check of the dependents and a write that another
  request comes between; a query that crosses an invalidation; containers that do not
  tell each other.
- **Accounts and depots.** Somebody administers every tenant; one depot is the main
  one. Hard: a count and then a write, a provisioning of two writes.
- **Retention.** A deleted ping is in its route's track; a track is built once; all
  are built. Hard: a backlog, a crash between the two, late pings.

## 2. Modules

Each module has the state as VARIABLES, one action for each operation between two
`await`s (a transaction is one), and its properties at the end. A definition that
only differs from the one under it by a plausible slip (`CompleteCommitTwice`,
`FlushAnswerDropsRejected`, ...) is a mutant: `PROJECT.json` says which property
it breaks. It is not part of the specification.

**RouteExecution** — `pc[h]` is the operation that request `h` does next and
`target[h]` the row it read. `CompleteRead` / `CompleteCommit` / `Tell` /
`CountOpen` / `CloseRoute` are the read of `findStopForUser`, the transaction, the
notification, the count and the update of `maybeCompleteRoute`. The unique index on
`ProofOfDelivery.stopId` is the guard of `CompleteCommit`, and `CompleteConflict`
the rolled-back transaction. `arrive` and `fail` do not look at the status of the
stop, and dispatch and start write by id alone: the model does the same. `Abort`
cuts a request at any `await`; one cut after its transaction stays in `"cut"` until
another request takes its place, so that a property can tell that it happened.

**RouteLedger** — what execution promises: attendance, evidence and announcements
only accumulate, an announcement follows its evidence, a route closes only over
attended stops. `RouteExecution!ImplementsLedger` is the refinement.

**Planning** — a job holds what a dispatcher's request has read: a plan (disjoint
sets of orders, any of them), a queue to write, a sequence. The drivers' requests,
step by step in `RouteExecution`, are one action each here. A stop is named by the
columns of its unique index (route, order, kind). The solver is a choice; an
infeasible insertion is a step not taken. `overlap` remembers that a dispatcher's
request began while another was in flight.

**DriverQueue** — the page runs one thing at a time, so an action goes from one
`await` to the next. `flush` is the flush in progress: what is left of its copy of
the queue, what it will write back, what was due when it began. `Outcome` is what
the network and the server may do, a commit whose answer is lost included. `Kill`
drops everything but `localStorage`. `settled` remembers the actions queued while no
flush was running.

**EngineCommands** — the server's rows, and the device's turn (`poll`, `mark`,
`run`, `ack`, `reflect`, `ping`) as in `simulator/run.ts`. `PollRead` and
`PollMark` are the two queries of a poll, `Ack` and `Reflect` the two of an
acknowledgement; the answer of a poll is the set of the commands it found, which the
device takes in order (`Current`). `disturbed` remembers that a request failed or the device restarted.

**AiProposals** — `Claim` is the conditional update PENDING to APPLIED, `Plan` and
`Persist` what `optimize_routes.apply` does (it plans the orders again, and creates
route after route), `Throw` and `Release` the catch block, `Crash` a restart.
`crashed` remembers the proposals whose apply was cut.

**OrderIntake** — the rows of the orders with their reference, recovery status and
link; `RescheduleLookup` and `RescheduleInsert` are `createOrder` inside the
reschedule. `crossed` remembers that two requests were in flight together.

**Entitlements** — `ModulesToEnableWith` and `ModulesBlockingDisable` are the pure
functions of `shared/src/modules.ts`, `Enable`, `DisableRead`, `DisableWrite` the
two handlers, of the tenant's administrator and of the platform. Requests interleave:
`off[r]` is what a request to disable has found free and not yet written, and
`missed[r]` remembers the dependents that were enabled since it looked. The rows start
as provisioning leaves them, from a preset or from any list of modules.

**TtlCache** — one entry of a cache in each container: miss, query, store, change of
the row, invalidation, restart and the clock.

**ModuleAccess** — composes `Entitlements` (EXTENDS) and `TtlCache` (INSTANCE, with
the set of enabled modules as the row): what requests see of the modules.

**Retention** — the pings of one tenant, and runs of the job between their queries:
select the routes without a track, read and write each track, delete in batches.
`unsaved` remembers the pings deleted by a run that had left their route out, `late`
those stored after their route was completed.

**Optimizer** — a request is the kind of each order and vehicle and an objective.
`Assign` is one turn of the greedy loop of `planRoutes`: the candidates that can take
the order by weight, volume, cold chain and plate and whose simulated route is
feasible, and the best by `assignmentScore`. `twoOptImprove` is one accepted move;
`Publish` ends a route and packs it; `insertOrderIntoRoute` and `Edit` are the two
ways to change it afterwards. `simulateRoute` is a fold over the visits, on integer
distances and minutes. `been` is the plans the improvement has gone through.

**Schedule** — `planSchedule` as a function of the shift asked for: demand of each
wave, need, the proportional share and its remainder.

**Advice** — the three advisers with the input `ai/registry.ts` gathers for them, in
integers of the last decimal the code keeps, so that its rounding is there.

**FleetAdvice** — the solvers side by side, a behaviour for each question.

**Copilot** — `UseTools` is one answer of the model with its tools: it may propose
anything that the checks of `buildProposal` let through. `heard` is whether the page
still listens; a turn goes on without it. `Check`, `Write` and `Answer` are the
endpoint of a card: of a proposal, with its claim; of a dispatch or a recovery, with
the read and the write by id of their handlers. `crossed` remembers the rows that two
handlers were about to write.

**DriverDay** — extends `DriverQueue` with the page around it and the API it talks to.
`server` is the driver's route; `Handle` what the API does with an action (the effect
of `RouteExecution`, in one step, with `maybeCompleteRoute`). A start is sent, read and
written apart (`start[k]`): `StartRead` finds the route DISPATCHED and `StartWrite` names
its id alone, so one that the page gave up (`StartLost`) may write after another, and
after the stops were attended. A load takes its answer
from the server at one time and paints it at another, so loads overtake each other
and what is tapped. `Reopen` starts the app from the cached route, and the API may
carry out, in any order, what had been sent (`Replay`); `Expire`, `LogOut`
and `LogIn` are the session, with another driver at the same phone and the queue
that stays.

**SafetyAlerts** — `FindNone` and `CreateDeviation` are the two queries of
`checkRouteDeviation`; `SetStatus` is any change to any status, as the handler allows;
`Tell` and its like are the events, after the row.

**LivePage** — a page and its connection: subscribed or not, what it has missed, and
the closure of `useRealtimeReload` (the throttle, its timer, the fallback interval).
`Emit` reaches the connections of one container, once.

**Cockpit** — `SafetyAlerts` and `LivePage` with the queue of exceptions. A load reads
the rows (`ReadRows`) and then what was put off (`LeaveOutSnoozed`), and its answer may
be painted after a later one's. `PutOff` is the page's own menu, which a panic does not
have; `SnoozeElsewhere` is `POST /exceptions/snooze` from any other client, which takes a
panic's key as any other.

**AiProposals, OrderIntake, Addresses, DailyMetrics** are together in **Desk**.

**Addresses** — a request is a list of changes to write (`todo`), one order after
another, each written and then learnt; `CreateRead`/`Insert`, `Patch`, `DriverFix`,
`ConfirmRead`, `Apply` and `Deliver` differ in what they put there. Coordinates are
places, or `Mock`, the point the last provider invents. `byHand` remembers the
addresses that a person pinned at the mock's point, and `corrected` the orders that a
person pinned since the proposal was made.

**DailyMetrics** — things happen on days and may be undone; a reading asks for a range,
decides what to compute (`EnsureFresh`), counts it and upserts day by day. `unsettled`
remembers what happened to a day after it was over.

**Accounts** — provisioning is the tenant and then its administrator, in two writes; a
change of the staff is read, checked against `isLastAdmin` and written in three.
`cut` remembers the tenants whose provisioning ended half-way, `raced` those with two
changes at once.

**Depots** — a request reads and then writes in a transaction, which is one step.
`unmarked` remembers a main depot unmarked by hand, `raced` two requests at once.

Compositions. Some modules interact and are composed over shared state: `ModuleAccess`
(`Entitlements`, `TtlCache`), `DriverDay` (`DriverQueue` and the API), `Cockpit`
(`SafetyAlerts`, `LivePage`). Four others put side by side parts that share nothing,
each behaviour being of one of them (`part`), so that they are checked in one run:
`FleetPlanning` (`Planning`, `FleetAdvice`, `Copilot`), `Background` (`DriverQueue`,
`EngineCommands`, `Retention`), `Desk`, and `Tenancy` (`ModuleAccess`, `Accounts`,
`Depots`).

`*Proofs` modules hold the theorems; `MC*` modules and their `.cfg` files are the
instances that TLC checks.

## 3. Runs

| Run | Instance | What it shows |
|---|---|---|
| `route_execution` | one route, a pickup and its delivery, two drivers and the staff, two requests in flight, cuts; 389 k states | `DeliveredHasPod`; `ToldOnceAfterCommit`; `ClosedRouteAttended`; the refinement; `FinishedRouteCloses`: a route finished for good is closed unless a request was cut after its transaction |
| `planning` | two routes, two orders, one with a pickup, two dispatchers, cuts; three packages of five kinds and two vehicles of three, five objectives; every shift to 40 orders and 7 drivers; 11 thousand questions to the advisers; two turns and two confirmations of a chat; 804 k states | `OneRoutePerOrder`, `AssignedHasDelivery` until two dispatchers' requests overlap, `InsertionKeepsAttended` also then; `RoutesAreFeasible`, `RefusedByAll`, `NoPlanComesBack`; `ScheduleIsRight`; `AdviceIsEnough`; `CardRunsOnce` |
| `driver_day` | one stop with its arrival and its delivery, two dispatchers, two drivers of the phone, one start and two loads in flight, one network fault; 805 k states | `HandedOverOnce`, until two dispatches cross: handed over once, never waiting again once on its way, and taken back only by a start that read before; `ViewCatchesUp`: a route that stays as it is comes to be the one shown |
| `background` | three queued actions and three faults; three commands, failures and restarts; two routes, three pings, one route a run, two batches of one, one crash; 140 k states | `SettledActionsKept`, `QueueDrains`; `RunOnceInOrder` always, `RowMatchesEngine` and `CommandsAcked` until something fails; `HistoryKept`, `BuiltOnce`, `TracksAreBuilt` |
| `order_intake` | two proposals sharing one of three orders, two confirmations, throws and crashes; three orders and one reference, two requests; two orders at one address, two requests; three days and two readings of ranges of two; 1.7 M states | `OneApplier`, `RoutedOnce`, `AppliedMeansDone`; `OnePerRef`, `RescheduledStays` until two requests cross; `MockOnlyByHand`, `OnlyOldProposalsMove`; `RevisitedDaysAreWhole` |
| `module_access` | a core module, one, and one that requires it, a preset and a chosen list that lacks it, two requests in flight; two containers, one lookup in flight, TTL 2, query 1, clock to 4; two tenants, three accounts, two operators; three depots, two requests; 1.2 M states | `RequirementsKept`: a gap is the chosen list's, or made by a request that looked before; `StaleAtMostTtl`; `AdminStays`; `OneMainDepot` |
| `cockpit` | one page, two alerts, one route, two requests and two loads in flight, one condition without events, two changes and the return of what was put off, a panic put off by another client; 751 k states | `OneOpenDeviation` until two checks cross; `StaleHasCause`; `PanicReachesScreen` |

Five more runs show the code at odds with what it says of itself (section 7):
`planning_resequence`, `driver_queue_lost`, `engine_commands_moving`,
`order_intake_self`, `addresses_moved`.
`engine_commands_moving` is of the behaviours where every request to switch off finds
the vehicle reported and standing (`StandingSpec`), so that what it shows is a vehicle
that starts to move after the check, and not one whose speed nobody had reported.

Bounds. Two requests in flight are enough for every race between a read and a
write that overtakes it; the same two drivers, dispatchers or confirmations take
turns for ever, so longer histories are covered too. One start in flight
is enough for it to be late: the stops of a DISPATCHED route can be attended, so the route
may be COMPLETED when the start writes (a second start gives 1.7 M states and nothing
more; the theorem is for any number). A pickup and its delivery are
the smallest route with a last stop that is not the only one and with an order of
two stops; the two routes of `planning` let an order end in two. `planning` has a
constraint: once two requests have overlapped, at most one stop is attended at a
time (`Bounded`); with one dispatcher at a time there is none. Three packages give
2-opt something to reverse and the greedy assignment something to refuse; their kinds
have a window, a pickup, a priority and a temperature, and the vehicles a short
range, a cold box and a restricted plate. The questions of the advisers are taken
around their limits (the ranges less 15 %, the batteries, a fortnight's average on
either side of a whole vehicle). `MaxFaults` (driver's queue), `MaxCommands`
(engine), `MaxCrashes` (retention), `MaxChanges` (cockpit), `MaxLoads` (driver's day)
and `MAX_LOOP` bound counters; three faults let two actions be queued and one be
retried or the page be killed in a flush. The clock of `module_access` goes a TTL and
a query beyond the first change. `MaxRoutes` is one with two routes, so that there is
a backlog; batches are of one ping and two to a run, so that pings are left for the
next one. Three days and ranges of two are enough for a day to be read on itself, on
the next and afterwards.

Types. No run checks a type invariant: for the modules with a `*Proofs` module it is
a conjunct of the inductive invariant and proved; in the rest a wrong type shows as a
property that fails or as an error of evaluation.

History variables. Some promises hold only until something happens that the code
does not guard against: two dispatchers overlap, two requests of the intake cross,
an apply is cut, a device's request fails, a day changes when it is over. These
things are in the runs, and a history variable (`overlap`, `crossed`, `crashed`,
`disturbed`, `"cut"`, `missed`, `unsaved`, `raced`, `unmarked`, `unsettled`, `corrected`) says
that they happened; the properties are stated up to then, so a run shows both that
the promise holds without it and that nothing else breaks it. What happens afterwards
is in section 7.

Deadlock is checked in `route_execution` and `cockpit`, which can always go on; the
other passing runs stop where a bound is reached or a question has been answered.

## 4. Fairness

- `RouteExecution`: each request in flight goes on (`WF` of `Continue(h)`): the event
  loop resumes it when the query answers, and calls to the outside end. No request
  has to arrive; `Abort` is never required.
- `DriverQueue`: the flush is started again (timers of 15 s in `OfflineQueue.tsx:48`
  and 20 s in `App.tsx:507`), a request ends with an answer or an error, and a
  backoff is bounded by five minutes. Retry and discard are the driver's choice and
  have no fairness.
- `DriverDay`: as `DriverQueue`; the 45 s interval of the page fires and a load is
  answered. What the driver and the dispatchers do has none.
- `EngineCommands`: the device's loop never ends, and a request that a dispatcher
  made is completed. Failures are not fair.
- `Retention`: the job runs every night (the cron of `render.yaml`), and a run goes
  on until it ends or crashes; crashes are bounded.
- `Cockpit`: requests and loads end, and the page's fallback interval fires for as
  long as it is open; events, connections and the throttle's timer have none, so
  `PanicReachesScreen` rests on the slow poll alone, as the code intends.

## 5. What is proved

Checked by TLAPS for every value of the constants (any routes, stops, orders,
proposals, modules, travel times, any number of concurrent requests), from the named
assumptions of the modules, which TLC evaluates on the instances. There is a proof
module for each passing run (two for `order_intake`). Where a run's specification puts
independent parts side by side, a first theorem says that its behaviours are behaviours
of each part (`FleetImplementsParts`, `DeskImplementsParts`, `LoopsImplementParts`,
`TenancyImplementsParts`), and a part is then reasoned about alone.

The safety properties are seldom inductive: they depend on what a request in flight
knew when it read. Each invariant below adds just that.

**`RouteExecutionProofs`**, from `RowsAssumption` (what a row refers to exists; the
uniqueness of stops is not needed).

- `TypeCorrect`: `Spec => []TypeOK`.
- `InductiveInvariant`: `Spec => []IInv`. `IInv` adds that a finished stop has
  `completedAt` (`FinishedStopsAttended`), that a request about to close a route has
  seen all of it attended, which no later arrival or failure takes back
  (`ClosersSawAll`), and that one about to tell the merchant has committed, has told
  nothing, and is the only one on that stop (`TellersCommitted`, `OneTellerPerStop`),
  which the unique index gives.
- `DeliveredOrdersHavePod`, `MerchantToldOnce`, `ClosedRoutesAreAttended`: its
  conjuncts.
- `Refinement`: `Spec => ImplementsLedger`; each step is an operation of the ledger
  or a stutter.

**`FleetPlanningProofs`**, the copilot, planning and the optimizer.

- `CardsRunOnce` (`CardRunsOnce`), by `ChatInv`: what is not done was not carried out
  (`RanOnce`); a handler about to write a route or an order that nobody crossed is
  alone, and what it read still holds (`AloneAtWrite`); an answer follows its write
  (`AnsweredRan`).
- `OrdersTravelOnce` (`OneRoutePerOrder`) and `AssignedOrdersHaveDelivery`
  (`AssignedHasDelivery`), by `PlanInv`: the queue a request is about to write is of
  its route and delivers everything it picks up (`QueuesOnRoute`), and, until two
  requests overlap, what each has read still holds (`ReadsHold`): the orders of a plan
  not yet put in a route are in none, those being marked are in one, a queue has all
  that is pending in its route and nothing foreign but the new order. A driver's steps
  keep all that, so only dispatchers have to take turns.
- `InsertionsKeepAttended` (`InsertionKeepsAttended`) needs of that invariant only the
  types and `QueuesOnRoute`, so it holds with any overlap.
- `RoutesCanBeDriven` (`RoutesAreFeasible`) and `ImprovementsAreNew`
  (`NoPlanComesBack`), by `SolverInv`: every route fits its vehicle, and while 2-opt
  goes on no route has been shorter than it is (`ShortestSoFar`), so a turn, which
  shortens one, makes a plan that has not been. The greatest load
  a route reaches is the same however its stops are reversed or swapped (`ReversedLoad`,
  `SwappedLoad`), which is what lets 2-opt leave the capacity unchecked.
- `LeftOutOnlyIfRefused` (`RefusedByAll`), for any travel model: an order that was left
  out was refused by each vehicle at its turn, for what it carries or for where it would
  have to go after the orders it had then, and each order is considered once. It is
  what the greedy loop promises, and no more: between two stops, or in a route that
  2-opt has shortened since, the order might fit, and `vrp.ts` does not look.
- `SchedulesWasteNobody` (`ScheduleIsRight`), under `TwoWaves`: the shares are the 60
  and 40 per cent of `DEFAULT_WAVES`, the only ones that `registry.ts` passes, and the
  rest is any orders, drivers and capacity. Of two floors of a proportion, one driver
  at most is left over (`ProportionOfTwo`); he goes with the wave of most demand, which
  gets fewer than it needs (`SharedOut`).
- `AdviceCoversAll` (`AdviceIsEnough`), from `AdviceAssumption`, which asks of the table
  of vehicles that what freezes can chill and that each can have a largest pack; what
  the roundings lose is bounded (`QuotientUp`, `RoundedToNearest`).

**`DeskProofs`**, the proposals, the intake and the analytics.

- `TypeCorrect`; `ClaimIsExclusive` (`OneApplier`): only `Claim` gives PENDING to
  APPLIED and only its holder gives it back; `OrdersRoutedOnce` (`RoutedOnce`),
  through `PlanIsFresh`: what a request has planned and not persisted is in no route,
  because while it applies no other request plans the same orders; `AppliedIsDone`
  (`AppliedMeansDone`), through `PlanCovers`: what is planned and what is routed
  make up the proposal.
- `ReferencesAreSingle` (`OnePerRef`) and `RescheduledForGood` (`RescheduledStays`), by
  `IntakeInv`: the rows a request names are there (`RowsThere`), and until two requests
  cross what it has read is still so (`WhileUncrossed`).
- `PastDaysAreWhole` (`RevisitedDaysAreWhole`), by `SeriesInv`: a row written again
  when its day was over has the day's count, unless something happened to that day
  since (`RowsRight`), and a reading in flight computes the day before its own and has
  counted what is still counted (`ReadingRight`). Nothing
  has to be said of readings taking turns: two that compute the same day write the
  same, so the property does not except them.

**`AddressesProofs`**, from `AddressesAssumption`.

- `MockEntersByHand` (`MockOnlyByHand`). The property is about the graph alone; the
  invariant follows the mock's point to wherever it may come from: a row at the mock's
  point is marked as such or was pinned by hand (`SoundRow`), and every change that a
  request, or the AI's proposal, still has to write is a person's or is sound
  (`SoundChange`), and stays so because rows are never removed and `byHand` only grows.
- `CorrectionsOutlastNewProposals` (`OnlyOldProposalsMove`), by `HandInv`: a pin put by
  a person is a verified one (`HandIsVerified`), so what has still to be written has no
  change to it but a person's or that of a proposal made before (`MayWrite`,
  `ToWrite`), and a creation only writes what is not there (`InsertsAreNew`).

**`BackgroundProofs`**, the nightly job, the device and the queue of the driver's app.

- `HistoryIsKept` and `TracksAreBuiltOnce`, from `RetentionAssumption` and one job at a
  time (`OneRun`; the cron of `render.yaml`; two that overlap break both). `HistoryInv`
  ties what a run has in hand to the tables at each of its queries: the cut-off it took,
  the routes it still has to build, that what it read of a route is still all there
  is, and that once it deletes, every expired ping is in a track or in a route that the
  run left out.
- `CommandsRunOnceInOrder` (`RunOnceInOrder`) and `RowFollowsEngine`
  (`RowMatchesEngine`), by `DeviceInv`: commands that have not been sent come after all
  that were (`UnsentLast`), what the device has in hand comes before those
  (`BatchFirst`), what ran did so in order (`RanInOrder`), and the row is what the last
  command said except while its reflection is under way (`RowFollows`).
- `NoSettledActionLost` (`SettledActionsKept`), by `QueueInv`: what was queued while no
  flush was running is in the stored queue, carried out or discarded, and during a
  flush it is also in what the flush will write back or has still to try.

**`TenancyProofs`**, modules, caches, accounts and depots.

- `RequirementsAreKept` (`RequirementsKept`), for any catalogue, presets, chosen lists
  and number of requests, however they cross, from `ModulesAssumption`. By `RowsInv`:
  what requires a module that a request is about to switch off was switched on since
  the request looked (`OnlyMissedNeedIt`). The two gaps that the property allows
  are in the code (section 7).
- `AnswersAreRecent` (`StaleAtMostTtl`), by `CacheInv`: a lookup in flight asked at most
  a query's time ago (`LookupsAreRecent`), an answer that is no longer so was overtaken
  by a change after it was asked for (`AnswersWereTrue`), and an entry runs out a TTL
  after it was stored, one that is no longer so a TTL and a query after the change
  (`EntriesRunOut`).
- `OneDepotIsMain` (`OneMainDepot`), by `BasesInv`: until two requests cross at most one
  is in flight, and what it has read still holds when it writes (`ReadStillHolds`);
  no two depots have one age, and they are finitely many, so one of those that are
  left is the oldest (`AgesDiffer`).
- `AdminAlwaysStays` (`AdminStays`), by `PeopleInv`. The property speaks of a tenant at
  rest; the invariant adds what each request in flight knows: one that is about to
  demote or remove somebody, in a tenant where no two changes crossed, has found that
  another administrator remains (`NotTheLast`) and is the only one changing that tenant
  (`OneChange`); and a tenant being provisioned has its request.

**`DriverDayProofs`**: `RoutesAreHandedOverOnce` (`HandedOverOnce`), from
`DayAssumption`. `DayInv`: a PLANNED route is nobody's and no start has read it, and
until two dispatches cross, one that has found the route PLANNED still finds it so when
it writes. A start that has read may write at any time, however late, so the theorem is
of the code's read and write and not of the two in one: it says that a route goes back
only by such a start. What the driver's
phone sends only carries the route to its end (`HandleGoesOnward`), and so does whatever
the API carries out, in any order, of what was on its way when the page died
(`ReplayGoesOnward`).

**`CockpitProofs`**.

- `DeviationsStayOne` (`OneOpenDeviation`), by `AlertInv`: until two checks cross on a
  route, at most one builds an alert of it, and only while none is open (`OneBuilt`).
- `StalePagesHaveCause` (`StaleHasCause`), by `CockpitInv`: for each page, what it shows
  is up to date, or a load in flight or a timer will read again what it lacks, or an
  event went past while it was not connected. The hard part is the answers that
  overtake each other; what was read as of the last change is still so
  (`TimesTell`), and an open page that has no other cause to be behind has a load that
  has yet to read, or the newest of what it shows and is about to show is up to date
  (`PageInv`). `CockpitAssumption` has the pages listen to `safety`, as the code's do.

How it is done without induction over data. The provers cannot instantiate an
induction schema, so what a recursive function computes is reached in other ways.
`ModulesToEnableWith` is defined as the least closed set, the fixed point that the
code's loop reaches. The solvers' loops are recursive functions: `LeastNumber` (a set
of numbers that is not empty has a least one, from the well-foundedness of `<`) turns
an induction into a least counterexample; `TurnsExist` and `TurnsAgree` say that the
function of a loop exists and is one only, and the lemmas on drives and loads
(`RunsExist`, `SumsExist`, `SwappedSums`, `ReversedLoad`, `InsertedLoad`, ...) follow
from its turns.

Every safety invariant and action property of a passing run is so proved, and what the
theorems add to the runs is that they hold for instances of any size. Their hypotheses
are the assumptions named above and what each property itself excepts (requests that
crossed, faults).

Left to TLC: liveness (`FinishedRouteCloses`, `ViewCatchesUp`, `QueueDrains`,
`CommandsAcked`, `TracksAreBuilt`, `PanicReachesScreen`), which needs fairness and
ENABLED; schedules of other waves than those two, which the code could take and nobody
passes; and the solvers' answers being the best ones, which nothing states.

## 6. Abstractions

- Data: identifiers are model values; texts and photos are left out, but for a photo
  being there or not. Times, distances and capacities are in `Optimizer`, `Schedule`
  and `Advice`, as integers, and nowhere else.
- Authorisation: requests are those of callers who may make them. In route execution
  the driver of a route is checked, since it is part of the state; in the driver's
  app, the session.
- Validation errors (400, 404, 409, 422) that change nothing are steps not taken.
- In `Planning` the solver is any assignment, in `Addresses` a provider is any answer
  with any confidence; the database is linearizable, each query or transaction one
  step, with its unique indexes.
- `Planning` and `DriverDay` run a driver's request in one step; its own
  interleavings are those of `RouteExecution`.
- `AiProposals` has room for every order in its routes.
- `Retention` keeps in a track every ping it read; the code keeps a sample.
- `ModuleAccess` lets the write of one request and its invalidation go before the next
  write; what each request read before is as old as it may be.
- `Optimizer` leaves out traffic, the battery's state and the geometry of roads; ties
  between vehicles and orders are broken in any way.
- `Cockpit` has panics and one condition of the twelve kinds of exception. A page has one
  action in flight at a time (its `busyId` disables the item, so the code may have one on
  each of two items), and `ReadRows` reads in one step what `computeExceptions` reads in
  a query for each kind, beside the list of what was put off.
- `DailyMetrics` counts one kind of thing; the other columns of the row are computed
  and written with it.

## 7. Where the code and its words differ

Shown by a run:

| Run | The words | The code |
|---|---|---|
| `planning_resequence` | `insertion.ts:277` "Solo rutas PLANNED (sin paradas atendidas)" | the status is read before the distances are, and `insertion.ts:392` deletes every stop the route has by then, those attended meanwhile included (`routes.ts:426-435` takes an arrival whatever the status of the route, so it need not have been dispatched) |
| `driver_queue_lost` | `api.ts:119-120` the queue "persiste entre cierres" | `flushQueue` writes back its copy (`api.ts:204`), without what was queued while it waited |
| `engine_commands_moving` | `telematics/routes.ts:199` "nunca apagar un vehículo en movimiento" | the speed is looked at when the command is requested, not when it is carried out: a vehicle reported and standing then may be moving by the time |
| `order_intake_self` | `portal/routes.ts:231-232` "crea un nuevo envío enlazado al fallido" | `createOrder` finds the failed order by its own `externalRef`, and it is linked to itself |
| `addresses_moved` | `geocoding.ts:190` "Un pin confirmado en campo es la fuente más confiable" (of the pins learnt from a confirmation; proposals are made of orders nobody verified, `aiResolveAddresses.ts:45`) | `aiResolveAddresses.ts:135` writes the pin of a proposal over one that was confirmed after the proposal was made |

Met while modelling, present in the behaviours of the modules, and excluded by the
history variables or the hypotheses above:

- `routes.ts:134` writes a dispatch by id alone: of two dispatchers who read PLANNED,
  both succeed (`routes.ts:120-121` speaks of a 409).
- `routes.ts:195` reads a DISPATCHED route and `routes.ts:205` writes IN_PROGRESS by id
  alone: a start that is late, after another of the same route, takes a COMPLETED route
  back to IN_PROGRESS, until one of its stops is completed or failed again.
- `telematics/routes.ts:201` takes a speed that was never reported as 0: the engine of
  such a vehicle can be cut whatever its speed.
- `exceptions/routes.ts:37` puts off any key, a panic's too, though the page offers it for
  none (`Excepciones.tsx:608-615`): it is then off every screen until its time is over.
- `routes.ts:604` fails a stop that was delivered: the order leaves DELIVERED
  (`AUDIT.md:77` has DELIVERED as final).
- `routes.ts:690` closes a route only from the request of its last stop: cut after its
  transaction, the route stays open.
- `planning.ts:177` creates routes from an old read: two plans that overlap put an
  order in two routes (`planning.ts:57`).
- `planning.ts:201` marks orders after the route is created, with no transaction: cut
  in between, orders with stops stay GEOCODED.
- `insertion.ts:214` deletes the pending stops there are now and writes the queue
  computed before: of two insertions in a route, the second removes the first's stop;
  and the route may be COMPLETED by then.
- `api.ts:171` skips an action in backoff and sends later ones (`api.ts:155` says "en
  orden").
- `telematics/routes.ts:240` marks commands SENT before it answers: if the answer is
  lost they are never delivered.
- `executor.ts:125` gives a claim back in a catch block: after a restart the proposal
  stays APPLIED.
- `orders.ts:24` looks an `externalRef` up and inserts later, with no unique index.
- `orders/routes.ts:136` writes FLAGGED over a RESCHEDULED written meanwhile.
- `tenantStatus.ts:26` stores after an invalidation what was read before it, so in one
  process too a suspension may take a TTL (`tenantStatus.ts:7-8` says immediate).
- `admin/modules.ts:66` and `platform/tenants.ts:371` look for dependents in one query and
  write in another (`:84`, `:389`): one that is switched on in between stays on without
  what it requires (`shared/src/modules.ts:34-35` "no se puede desactivar un módulo del
  que dependa otro habilitado"). `RequirementsKept` allows that and no other way.
- `platform/tenants.ts:84` and `:106` enable a list of modules chosen for a tenant without
  what they require.
- `routeTrack.ts:153` takes `maxRoutes` routes and then deletes every expired ping,
  those of the routes left out included (`routeTrack.ts:132-133`); `routeTrack.ts:118`
  writes a track whatever another run has done (`routeTrack.ts:104` says idempotent).

- `safety.ts:40` looks for an open alert and then creates one: two pings, two alerts.
- `users.ts:30` counts administrators in one query and writes in another: two operators
  who demote or remove different ones leave none. `tenants.ts:125` and
  `auth/routes.ts:38` create the tenant first: cut in between, nobody can enter.
- `depots/routes.ts:55` and `:75` read outside the transaction: two requests that cross
  may leave two main depots or none; `:84` unmarks the only one when asked to.
- `dailyMetrics.ts:211` takes closed days to be immutable: a row written on its own day
  and not asked for on the next keeps a part of it, as does a day that changes later.
- `addresses/routes.ts:163` reads a batch together and teaches the pins it read, also
  of an order that was corrected meanwhile; a pin confirmed where the mock put it,
  without dragging it (`Direcciones.tsx:179`), is learnt.
- `copilot/routes.ts`: a refusal, an error or a page that stopped listening leaves
  proposals stored that nobody is shown; two crossed confirmations of a dispatch or a
  recovery are both carried out.
- `App.tsx` of the driver: a replayed arrival reopens a COMPLETED stop, and its route
  then stays open; after a 401 each queued action goes to ERROR and waits for a manual
  retry; the queue outlives the session and is sent by the next driver.

Seen while reading, and outside the models or what their properties say:

- `insertion.ts` checks the weight of a route and not its volume. `schedule.ts` reports
  full coverage with a wave that is overloaded. `packLoad` may put dry cargo in the cold
  box to balance it.
- `vehiclePick.ts:71` rounds the margin to 0.1 km: a vehicle may be suitable with no
  pack that covers the distance (`AdviceIsEnough` allows those 50 m). `charging.ts:75`
  calls a vehicle ready without the 15 % it charges for; an unknown state of charge is
  taken as 100 %. `registry.ts:759` rounds the forecast of each temperature up by itself.
- `exceptions.ts`: failed deliveries are looked for by the creation of the order, 48 h
  back; the key of a snooze hides a recurrence of the same condition; the list and the
  snoozed ones are two reads.
- `Copilot.tsx` sends the whole transcript, and past 40 messages every turn is a 400; a
  turn that ends at `MAX_LOOP` says "Listo.".
- The dispatch loop of notices ends at the first that throws, and its retry is a 409.
  `notifications.ts` logs SENT whatever the merchant's server answered, and has no
  timeout where `webhooks.ts` has 5 s.
- The SOS button does nothing without a route, and an app opened without a route does
  not poll. `useRealtimeReload` keeps the first render's `reload`.
- A portal reschedule drops the service and the custom fields of the order.
- Web: the catch of `refresh()` removes the normal token, so that a support tab ends
  the sessions of the others.

## 8. Plan

Done: the modules above, core first. What is left, in the order in which it would add
most:

1. Theorems: the action properties that liveness rests on (each turn of a flush, of a
   page's loads and of the nightly job leaves less to do).
2. `DriverDay` over the steps of `RouteExecution` instead of one step a request.
3. `downsampleTrack` and the backoff of the queue as functions against a reference.

The project keeps few runs: a new component joins an existing question or takes
the place of a run that shows less.

## 9. Not modelled, and why

Most of the repository's lines are screens: forms, tables, maps and charts of React
over one request each. Nothing in them is a protocol, and a model of them would be a
transliteration; the pages that do keep state across requests are in `DriverDay`,
`LivePage`, `Cockpit`, `Addresses` and `Copilot`. The map therefore covers a part of
the implementation's lines and the larger part of those that change state.

- Notifications, webhooks, push, uploads: output; that a merchant is told once is in
  `RouteExecution`.
- Other catalogues (vehicles, drivers, zones, clients, services, views, properties,
  controls, keys): one row at a time with no protocol.
- Authentication: stateless tokens and role checks.
- Reports, the public tracking page, EV estimates, the read-outs of the platform:
  aggregations over what is read once.
- The kinds of exception but two, the columns of the daily row but one: queries of the
  same form.
- Road distances, traffic, energy per kilometre: numerical models of the world.
- The scores that rank suitable vehicles of `vehiclePick.ts`, the text of the copilot,
  tariffs: whatever they choose is allowed.
- The stream of one order for the public page: the code of the tenant's stream with
  another key.

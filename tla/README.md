# TLA+ specifications of game_server_cluster

The repository is a platform that runs game servers on a cluster of nodes. This
directory holds TLA+ models of its control logic, TLC configurations that check
them on small instances, and TLAPS proofs of what matters most for every
instance. `PROJECT.json` is the index: components, runs, the source lines each
definition stands for, findings, hazards and theorems.

## 1. The system

| part | state | operations | hard because |
|---|---|---|---|
| **controller-go: reconcile dispatcher** (`internal/biz/reconcile_dispatcher.go`) | a channel, an overflow slice, copies of rows in pollers, retry counters, all in memory | `RequestDispatch`, `ForceDispatch`, `Dispatch` by status, `PollingResult` and the callbacks, `FailedInstance`, `Recover`, `WatchRunningInstances` | one consumer and a goroutine per poll work on copies of rows; writes are whole rows or the status only; a crash loses all copies |
| **instance use cases** (`game_instance_use_case.go`) | rows of `game_instances` | create, start, retry, stop, configure, cancel, delete | read, check and write are separate; the dispatcher writes the same row |
| **scheduler** (`scheduler_impl.go`, `candidate.go`, `constraint.go`, `scoring.go`, `node_capacity.go`) | none of its own | `Schedule`, `CancelQueued` | several tables, checked before and inside a transaction |
| **reservations** (`repository/gorm/reservation_repo.go`) | `nodes.*_reserved` | `TryReserve`, `Release` | must be given back once, on every exit |
| **scheduling queue, waker** (`queue.go`, `queue_waker.go`) | rows of `scheduling_queue` | enqueue, back off, `wakeOnce` | runs beside the dispatcher and before `Recover` |
| **stale reservation reaper** (`stale_reservation_reaper.go`) | none | `reconcileOnce` | a time limit against stages that may take longer |
| **port mapper, credential pool** | port mappings; credentials | plan, release; allocate, release | several rows per operation, called again after a retry or restart |
| **health monitor, agent update** (`node_agent_health_monitor.go`, `node_agent_update_orchestrator.go`, `_reconciler.go`) | rows of `node_agents`, failure counters in memory | probe, batch update, rollback, reconcile, enable, disable | two deadlines on one row, whole-row saves, lost answers, restarts |
| **pressure monitor, event bus, runtime figures** (`pressure_monitor.go`, `event_bus.go`, `runtime_stats_registry.go`) | samples, pressure status, counters, a ring, a channel, a batch, a table | sample, evaluate, publish, flush, prune | hysteresis, bounded buffers, failing writes |
| **game cache manager and view** (`game_cache_manager.go`, `node_cache_view.go`) | `steam_branches`, copies on the agents, a snapshot | sync, update, thin out, pre-warm, evict, refresh | decides on knowledge that is a round old; calls to agents fail |
| **platform-service: subscriptions** (`subscription_use_case.go`) | subscriptions | purchase, suspend, unsuspend, cancel, renew, expiry sweep, instances of a subscription | read, remote calls and a save of the whole row; a sweep beside the users |
| **platform-service: orders, plans, catalogue; games in the controller** (`order_use_case.go`, `plan_use_case.go`, `game_catalog_use_case.go`, `game_use_case.go`) | one table each, and asset_service's | create, pay, provision; create, update, delete a game; purchase | several calls over three services without a transaction |
| **HTTP API** (handlers of both services, `controller_client.go`) | one request | every route, its authorisation and error mapping | three tables of paths, a client time-out, lost replies |
| **node_agent** (Rust) | task table, containers | prepare, restore, start, stop, clean, inspect, self update | long tasks, idempotence |
| **asset_service** (Rust) | builds, snapshots, S3 objects | begin and complete an upload, list, delete | two stores |
| **game_node, adapters, platform-web, dsh-tools** | none that outlives a call | prediction, shell scripts, user interface | not modelled |

The platform calls the controller over HTTP; the controller's handlers write a
row and hand a copy of it to the dispatcher; the dispatcher calls node agents
and the asset service over gRPC and polls the operations it started. Everything
else in the controller (waker, reaper, watch, health monitor) is a goroutine on
the same database. There is one controller process; after a crash `Recover`
reloads unfinished rows.

What makes the parts correct: no request to the dispatcher is lost or doubled;
what an instance takes (capacity, ports, a credential) it gives back exactly
once on every path; nodes are not over-reserved; no unfinished instance is
forgotten, also across a crash; work comes to rest; an overdue or suspended
subscription runs nothing and never more than one instance. `PROJECT.json`
lists, line by line, where the code can get this wrong ("hazards").

## 2. Modules

| module | models | composed with |
|---|---|---|
| `WorkPool` | abstract: an unordered pool of objects for one consumer | |
| `DispatchQueue` | channel, overflow slice, senders, consumer, shutdown | implements `WorkPool` |
| `InstanceLifecycle` | rows, copies, dispatcher, pollers, API, waker, reaper, watch, reservations, ports, credentials, crashes | uses the pool of `WorkPool` as the place `"queue"` |
| `Reservations` | abstract: what the reservation transaction of a node promises to whoever asks | implemented by `InstanceLifecycle` and by `Placement` |
| `MCInstanceLifecycle` | capacities and symmetry for TLC | extends `InstanceLifecycle` |
| `Subscription`, `MCSubscription` | subscriptions, the sweep, the limit of the plan, the single active slot and its index | abstracts the life cycle of `InstanceLifecycle` to nine statuses |
| `NodeAgents` | one agent's row, the health monitor, the update orchestrator and reconciler, the administrator, the agent as the controller sees it | |
| `EventBus`, `NodePressure`, `RuntimeStats` | one component each: actions without a specification | |
| `Telemetry`, `MCTelemetry` | the observation path: heartbeat, monitor, bus | composes the three |
| `GameCache` | one branch of one game: sync, loop, view, copies, instances that use them | the `Warm*` stage of `InstanceLifecycle` seen from the cache |
| `PortPlan` | the port mapper, as operators | |
| `Placement`, `MCPlacement` | the scheduler's decision and reservation, the scheduling queue with its times | extends `PortPlan`; what `InstanceLifecycle` treats as a choice |
| `Storefront`, `MCStorefront` | orders, games, profiles, plans, purchases across platform, controller and asset service | instances abstracted to stopped and active |
| `Api` | one HTTP request through platform-service and the controller | |
| `DispatchQueueProofs`, `InstanceLifecycleProofs`, `SubscriptionProofs`, `NodeAgentsProofs`, `TelemetryProofs`, `GameCacheProofs`, `PlacementProofs`, `StorefrontProofs` | theorems | extend the modules they are about |

Definitions whose comment begins with "Mutant" are deliberately wrong variants
of the definition that follows them. No specification uses them; they record
which slip of the code each property would catch.

### DispatchQueue

`queue`, `overflow`: the channel and the slice. `sender[p]` and `cons` are
program counters with the object held. Steps are the code's atomic operations:
the `select` with a `default` is one step, the append under `overflowMu`
another; the consumer's look at the slice is one and its channel receive
another. `Shutdown` is the cancelled context of `main`.

### InstanceLifecycle

`db[i]` is a row: status, node agent, whether `resource_request` is set, and
the configuration. `mem[o]` is an in-memory copy and who works on it: `"queue"`
(handed to the dispatcher), `"poll"`, `"warm"`, or a handler between its read
and its write. `reserved`, `ports`, `cred`, `qrow`, `retry` are the counters of
the nodes, the port mappings, the credentials, the rows of `scheduling_queue`
and `operationRetryCounts`. `waker` is the row the waker has looked at and will
delete, `up` is `"down"` between a crash and the end of `Recover`.

The code decides each stage on its copy alone, so a stage is one action:
`Dispatch`'s branches (`DispatchPending`, `Schedule*`, `Stage*`, `NoSnapshot`,
`DispatchDefault`), the pollers' outcomes (`on*Succeeded`, `Poll*`, `Warm*`),
and for each API call or background job a `Begin*` that reads and checks and a
commit that writes. `Save` writes the whole row and inserts it again if it is
gone; `UpdateStatus` writes the status of an existing row. `Crash` forgets all
copies; `CrashAfterReserve` and `CrashAfterRelease` are the two places in the
middle of a step where the database has changed and the row has not.

Abstractions: the five resource dimensions, which the code treats alike, are
one; a node has one agent; an instance needs one host port, in NAT mode; one
pool of credentials; the back-off, the queue time-out, the reaper's ten minutes
and the fencing time-out are choices, because the code's times do not order
them against a stage of three minutes and its retries; which of the
suitable nodes the scheduler prefers is a choice. A write to the database
does not fail. The reservation is taken together with the
dispatcher's `Save`, except in `CrashAfterReserve`, and `onCleanInstanceSucceeded`
is one step, except in `CrashAfterRelease`; the steps in the order of the code,
with a start between the row's save and the deletion of the ports, are in
`Placement`.

`Ops` says which operations the environment performs, `Overlap` which of them
may begin while a copy of the instance is in memory. The code has no lock per
instance: `Overlap` splits what holds always from what holds only if nobody
acts on an instance that is being worked on.

### Subscription

`sub[s]`, `inst[i]` are rows; `inst[i].copy` is the dispatcher's copy; `op[p]`
a handler's (or the sweep's) progress, with the subscription as it read it;
`rest` what the running sweep has still to visit; `now` a clock of `MaxTime`
periods. Suspend, cancel and the sweep list the instances, stop them one by
one, and save only if no stop failed. `IndexAllows` is the partial unique index
of migration 000027 with the numbers as they are; `Advance` is the life cycle,
whose writes the index may refuse without anyone noticing. The index's set of
statuses is not `IsActive`'s: `Indexed` has `Failed` and lacks `CacheWarming`
(section 6). `Overlap = FALSE`
lets an operation on a subscription begin when no other works on it; operations
on different subscriptions, the dispatcher, deaths and the clock interleave
freely. Starts by the administrator directly on the controller, plans without
duration and rows without subscription are left out.

### NodeAgents

`row` is the agent's row, `proc` its process, `conn` the connection the client
registry keeps, `failCounts` the monitor's memory. `probe`, `req[r]`, `recon`
and `admin` are the program counters of the monitor's round, the update
requests, the reconciler's round and an enable or disable between its read and
its save of the whole row. Agents share nothing but the order of the rounds, so
one stands for all. `GetFails` is `ClientRegistry.Get` without a cached
connection on an address that cannot be parsed (`Malformed`): the round then goes
straight to `markUnhealthy`, past the counter, and an update request fails at
once. `Debounced` names this as its one exception besides an older row that is
saved back. The request's branch needs two upsets, so the run does not reach
it; the proofs cover it. Time is relative: the age of the last state write, and how
long a request may still wait. `MaxUpsets` bounds lost heartbeats and answers,
failing database calls, outages, restarts and calls of the administrator.

### Telemetry

`EventBus`: ring, channel, batch, table; a publisher is in `sending` between
its two halves, and every event that does not reach the table is in `lost` with
a reason. `NodePressure`: samples, the window's peak as a level (below,
warning, critical), the step function, the counters that live in memory, and
`UpdateNode`, which saves a whole node row. `RuntimeStats`: figures by instance,
replaced agent by agent. `Telemetry` says who publishes what and when.

### GameCache

`row` is the branch's row, `remote` what Steam offers, `copies[a][k]` the state
of build `k` on agent `a`, `mgr` the loop with what it read at the start of its
round, `snapshot` the view the scheduler reads. The administrator and the loop
may both be in the middle of a sync. A round is one step per agent it calls,
and every call may fail.

### PortPlan and Placement

`PlanPorts` and the three ways of planning are operators over a configuration
and the ports in use. `job[i]` is a call of `Schedule` with the rows it read;
`load`, `choose`, `plan` and `reserve` are separate steps, so that any number of
calls, agents and administrators come in between. Request, branch and the
single-threaded flag are read once, before the first attempt (`Check`). Quantities are units, shares
and scores tenths; `bw` is the soft dimension. Queue rows carry ticks.
Port excerpts that run past port 65535, which the code would wrap, are left out.

An instance ends in the dispatcher's order (`onCleanInstanceSucceeded`):
`Release` gives the reservation back, the row is saved `Stopped` without agent,
and `ReleasePorts` deletes the port rows last. `cleaning` holds the instances
between the last two: the poller that deletes is a goroutine of its own, the row
may be started again in between, and the deletion takes whatever rows the
instance has by then. A failure (`FailedInstance`) gives the reservation back and
keeps the port rows; while stopping or cleaning it also keeps the agent and
drops the request, so that `StopGameInstance` may be tried again without giving
back twice. A failure and a start in that window each count as one of
`MaxChanges`. The next clean-up of an instance waits for the deletion of the
one before. `Reservations` sees the counters of `agent` and what each row of
`inst` that is placed and has not begun to be released holds.

### Storefront

A request is a process with one database or remote call per step; any step may
fail, and what happened before stays. `mode` is chosen at the start and never
changes: whether requests overlap, whether asset_service keeps its rows in SQL
(where builds hold on to their game), and which requests come. `lost`, `torn`
and `gone` are histories the properties need: instances whose creation was
answered with an error, games with an unfinished deletion, deleted games.

### Api

Three tables with a row per function: routes and handlers of platform-service,
methods of its controller client, routes and handlers of the controller. One
request passes middleware, local checks, calls and error mapping.
`stopActiveInstances` is a loop over two instances that goes on after an error
and answers with the first one; a refusal then says nothing about the other
stop, which `AnswerIsTrue` excepts. The
controller may be unreachable, refuse, do the work and lose the reply, or do it
after the client's 15 seconds.

### Properties in parts

Some properties a run checks are conjunctions of named parts (`PaidFor`,
`OneSlot`, `RowIsTrue`, `RowFollowsAgent`, `ObserversSeeTruth`, `FilesInPlace`,
`Converges`, `LimitsKept`, `PlanIsUsable`, `CallsEnd`, `Delivered`,
`AnswerIsTrue`, `InstancesOwned`, `ReferencesHold`, `HoldsWhatItNeeds`,
`TransactionsKept`). Each part has its own comment, and every part but the types a mutant that breaks it.

## 3. Runs

| run | shows | bounds |
|---|---|---|
| `dispatch_queue` | `OnePlace`, `OverflowMoves`, `ImplementsWorkPool` | 3 objects, 2 senders, capacity 1: the channel overflows and two senders race |
| `lifecycle_nominal` | without overlap everything taken is given back: `ReservationsExact`, `CopiesAgree`, `HoldsWhatItNeeds`, `NothingForgotten`, and it does so as `Reservations` demands: `ImplementsReservations` | 2 instances, 1 node with room for one, 3 ports, 1 credential, 2 configurations, 1 retry: instances compete for everything, fail, queue and time out |
| `lifecycle_overlap` | with all operations overlapping and crashes in the middle: `TypeOK`, `WithinCapacity`, `OneCredential` | 1 instance, 2 copies, room for two, 2 credentials: an instance can be reserved, released and allocated twice |
| `lifecycle_live` | `Settles`, `QueuedIsRetried` | 1 instance, 2 copies, stop, watch and reaper overlapping, no crash |
| `lifecycle_N4` | *violated*: `NoOversell`, see section 6 | 2 instances, only the operations that matter |
| `subscription` | operations on one subscription in sequence: `PaidFor`, `OneSlot` (the index refuses a start beside a failed instance only), `OverdueExpires` | 2 subscriptions, of plans for two instances and for one, 2 instances, 1 handler and the sweep, 2 periods: one subscription's failing stop delays another's expiry |
| `node_agents` | `RowIsTrue`, `Debounced`, `NotStuck`, `RowFollowsAgent` | 2 versions, one with a broken object, 2 ports and one that makes a malformed address, threshold 2, 1 tick of waiting, 1 request, 1 upset: every single fault in every place of an update and of a round |
| `telemetry` | `Conserved`, `ObserversSeeTruth`, `RecoveryIsEarned`, `EventsSettle` | 2 agents, 1 of them watched, 1 moving instance, windows of 2, channel and ring of 1, batches of 2, 2 events, 1 upset: every buffer is full at some time |
| `game_cache` | `FilesInPlace`, `Converges`, `WarmingEnds` | 2 agents, 2 builds, floors of 0 and 1, 1 placement, 1 upset |
| `placement` | `LimitsKept`, `PlanIsUsable`, `PreviewAgrees`, `TransactionsKept` (`RefusedOnlyIfChanged`, `ImplementsReservations`), `CallsEnd` | 2 instances, 2 agents of different size, 4 host ports, a NAT, a host and an injecting configuration, 1 retry, 1 per round, 1 change from outside, failure or early start: calls conflict, ports run out, the queue backs off to its limit, a stop fails and is repeated, an instance starts before its old ports are gone |
| `api` | `Delivered`, `Entitled`, `AnswerIsTrue` | every route with every kind of caller, one request at a time, two instances to stop |
| `storefront` | `InstancesOwned`, `DeletedIsGone`, `ReferencesHold`, `OrderPath`, `RunningKept` | 2 games that share a configuration, 2 orders, 2 instances, 2 plans, 2 subscriptions, 2 requests at a time; sets of requests that meet in the same rows |

One controller, one node and two instances are enough because instances only
meet in the resources they share, and each resource is checked both when it is
just enough for one and when two uses fit. The retry limit is one rather than
three: the counter's reset and its limit are reached as well. `Subscription`
and `Telemetry` check no deadlock, since the clock and the events end; the other
passing runs check it. `lifecycle_N4` performs few operations and so may stop
once the instances run.

Symmetry: copies are interchangeable (`CopySymmetry`), and in
`lifecycle_nominal` instances too; so are games, orders, instances, requests,
subscriptions and plans in `storefront`. No run with a liveness property uses it.

Fairness. Weak for the consumer, a poller and a handler in the middle of a call
(the Go scheduler runs every runnable goroutine, every RPC has a time-out, a
poller has a deadline) and for `Recover`. Strong for the waker's visit of each
due row, because its periodic scan visits every row, whatever it did for the
others before, and for the sweep's visit of each overdue subscription, which
runs every minute for ever; without overlap it must also meet a moment in which
no handler works on that subscription. `OverdueExpires` also assumes that a
node asked again and again to stop an instance does so in the end. Nobody is
obliged to call the API and nothing is obliged to fail.

The other modules assume weak fairness only: `NodeAgents` for the monitor's and
the reconciler's tickers, a request once it has begun, a save after its read,
and the clock, not for the agent or the administrator; `Telemetry` for the
consumer of the channel and a publisher in the middle of its call; `GameCache`
for the loop, the view, the cool-down, downloads and an instance's goroutine and
deadline; `Placement` for a call in progress, the waker, the clock, the
second half of a configuration's save and the end of a clean-up that has begun. `Storefront` and `Api` state safety only.

## 4. Proofs

Each theorem holds for every value of the constants that satisfies the named
assumption of its module; TLC evaluates these assumptions in every run. A
strengthened invariant was checked by TLC on the run's instance before it was
proved.

`DispatchQueueProofs`, from `QueueAssumption` (capacity at least one, `NoItem`
is not an object), for any number of objects and senders:

- `TypeCorrect`: `Spec => []TypeOK` (proved only). Inductive with `PcItems`: program counter
  and held object agree, or a sender could append "no object".
- `OnePlaceHolds`: `Spec => []OnePlace`, split into `NoRepeats` (no sequence
  repeats an object) and `Places` (the five places are disjoint and complete),
  from what `Append`, `Head` and `Tail` do to the range of an injective
  sequence (`AppendFacts`, `HeadTailFacts`).
- `QueueIsAPool`: `Spec => ImplementsWorkPool`; a step of the queue is a submit,
  take, resubmit or return of the pool, or a stutter (moving between channel,
  overflow and a sender's hand). Disjointness is what makes an append or a
  receive map to one pool step.

`InstanceLifecycleProofs`, from `LifecycleAssumption` (finitely many instances,
requests and capacities are numbers), for any instances, nodes, capacities,
requests, ports, credentials and copies. With any `Ops` and `Overlap`, that is,
with every overlap and every crash:

- `TypeCorrect`: `Spec => []TypeOK`. Inductive with `InUse`: a copy somebody
  works on carries an instance and a real status.
- `CapacityHolds` (`WithinCapacity`), `PortsHold` (`PortsExclusive`, part of `HoldsWhatItNeeds`),
  `CredentialsHold` (`OneCredential`). One lemma, `StepHeld`, sorts all steps
  into those that reserve (`Takes`), allocate (`Allocates`) or only give back
  (`Gives`); each theorem then needs one argument per kind instead of one per
  action.

Under `Nominal` (no overlap on one instance, and neither the reaper, deletion
of a running instance, `ForceDispatch` nor a crash between a transaction and the
row's save: the ways in which section 6 shows the code to break these
properties; plain crashes and `Recover` take part):

- `ReservationsStayExact`, `CopiesStayTrue`, `HoldingsFollowStatus`,
  `NothingIsForgotten`. The common invariant `Fits` says what a row of each
  status has (`RowFits`), that a copy agrees with its row and who works on it
  (`CopiesFit`), that no instance has two (`Single`: without it a second copy
  would release again), and where the unfinished ones are (`QueueFits`,
  `WakerFits`). `ReservationsExact` is a sum over a set: see below.
- `ReservationsAreKept`: `Spec => ImplementsReservations`. A step writes at most
  one row (`OneRow`), and the counters follow that row (`Accounts`): they grow by
  its request if it is bound now and was not, shrink by it in the other case, and
  a row never goes from one node to another in a step. So each step is a
  `TryReserve`, a `Release` or a stutter of `Reservations` (`RowIsLedger`). That
  what is taken fits comes from `CapacityHolds`; that giving back is an exact
  subtraction, although the code clamps at zero, from `ReservationsExact`.

`SubscriptionProofs`, from `SubscriptionAssumption`, for any subscriptions,
plans, instances and handlers: `TypeCorrect` always; with `Overlap = FALSE`
`SubscriptionsArePaidFor` (`PaidFor`) and `SlotIsSingle` (`OneSlot`). `Inv` adds
that one process works on a subscription and has read its row as it is
(`Exclusive`, `Current`), that what a stopping operation has passed is
stopped or noted as an error (`Work`), and that at most one instance of a
subscription is anything but stopped (`Slots`). `SlotIsSingle` says of the
index what is true of the migration as it stands: in sequence it refuses a start
beside a failed instance (as if several were started at once) and none of
the dispatcher's writes; it does not say that the index protects the slot when
starts overlap, which it does not (section 6). `WithinLimit` counts: creating adds one to what was counted.

`NodeAgentsProofs`, from `VersionsAssumption` and the assumption on the bounds:
`TypeCorrect`, `RowIsBacked` (`RowIsTrue`: whoever is about to write "updated"
has the version in the agent's reports) and `HealthIsDebounced` (`Debounced`: the
monitor's counter never exceeds the failures in a row, and a round that skips the
counter carries a malformed address).

`TelemetryProofs`, for any agents, capacities and batches: `EventsAreConserved`
(`Conserved`; `Placed`: no sequence repeats an event, the places are disjoint,
numbers grow), `ObserversAreToldTheTruth` (`ObserversSeeTruth`; `Telling`: of
table, batch and channel read as one sequence, the last event about a node is
its status, so that a flush, a failed flush or a prune changes nothing) and
`RecoveryIsAlwaysEarned` (`RecoveryIsEarned`: the counter of quiet rounds in memory is
at most the true number).

`GameCacheProofs`, from `CacheAssumption`: `FilesStayInPlace` (`FilesInPlace`).
Inductive with `FilesInv` (what is on an agent is a build that was once
offered) and `MgrInv` (the loop counts no agent twice).

`PlacementProofs`, from `PlacementAssumption` and `PortRanges`, for any
instances, agents, sizes, samples, configurations, port ranges, retries and
backoff. The assumptions are the ranges of columns and settings: quantities are
natural numbers, the controller's last default request (`resolveRequest`) is positive
in every hard dimension, `Target` is a share in tenths, the two constant port
ranges are not empty and within 0..65535, and backoff and the rows per round
are positive, as `NewQueueManager` and `NewQueueWaker` make them.

- `LimitsAreKept`: `Spec => []LimitsKept`. The inductive invariant `Kept` says of
  every call what it still knows at each step (`SoundJob`): the agent it chose
  was a candidate with room, in the rows it read, and the plan uses no port
  twice. Three arguments carry it. Plans: each step of a fold over ports keeps a plan
  `Clean` (its rows take ports that were free, each once), so all three ways of
  planning do (`PlanClean`). Choice: scores are numbers and agents are ordered, so a
  best candidate exists and is one of the eligible ones (`ScoreIsNumber`, `BestIsEligible`,
  `ChosenFits`). Counters: granting and releasing change the sum of what the
  rows of a node were promised by one summand (`PromisedWith`, `GrantCounts`,
  `ReleaseIs`, `ReleaseKeeps`); whatever was decided on old rows, the transaction compares
  with the present ones. Ends: `SoundRow` says which rows still name a node, and
  that a failed stop has no request, or its repetition would give back twice; the
  other steps of an end move no counter (`EndingsKeep`), and deleting port rows
  late cannot give one to two owners. The bound on a queue row's next wake in `TypeOK` needs no more of `2^n` than that it
  is an integer.
- `RefusalsAreEarned`: `Spec => RefusedOnlyIfChanged`. If the counters are those
  the call read, its agent still has room, and if its rows are the plan of the present
  ports, that plan is `Clean`: neither check of the transaction can fail.
- `ReservationsAreKept`: `Spec => ImplementsReservations`, for all dimensions of
  all nodes. What a row holds (`Held`) ends when `Release` gives it back, not when
  the row is saved or the ports go; so those steps, failures and the repetition
  of a stop are stutters (`EndingsStill`), as is a release without a request
  (`ReleaseStill`). A grant fits
  because the transaction compares with the present counters (`GrantRefines`); a
  release subtracts the request recorded when it was made, and the counter, being a
  sum that contains it, is not below it (`ReleaseRefines`).
- `TransactionsAreKept`: `Spec => TransactionsKept`, the two above together.
- `PlansAreUsable`: `Spec => []PlanIsUsable`, for every configuration and any
  ports in use. Each step of a plan adds to its rows exactly what was wanted of
  it or fails (`Grows`, `PlacePortServes`), so a fold over a set of ports ends
  with what was wanted of the whole set (`FoldBuilds`, `NatPlan`, `ExtraPlan`). An
  injected plan is a block of rows whose first port is the game's
  (`BlockFacts`), and the excerpts below it (`InjectedPlan`). `KeptServes` concludes
  that every declared port is served where the game listens and nothing else
  is, `KeptReached` that the smallest host port named for the game port is the
  one it listens on: what players and adapter are told.
- `PreviewIsTrue`: `Spec => []PreviewAgrees`. `Preview` and `Decide` are separate
  code paths over the same filter and score; the theorem needs no invariant, so
  it holds of every state of the tables.

`StorefrontProofs`, from `StorefrontAssumption`: `PaidOrdersHaveInstances` with
any overlap; the properties of `Storefront` that speak of requests in sequence
as `ReferencesKept`, `InstancesAreOwned`, `OrdersGoForward`, `RunningIsKept`,
`DeletedGamesAreGone`. `Staged` says, for every place a deletion, creation or
purchase can be in, what it has read and is still true; `Alone` that nobody
else is on the way.

Induction over numbers is used without a theorem that takes a predicate: a
set of numbers that is not empty has a least element (`Least`, from the library's
`NatLessThanWellFounded` and `WFMin`). Applied to the cardinalities of the
sets for which a sum is not as claimed, it shows that the fold behind
`MapThenSumSet` exists, is unique and grows by one summand per element
(`SumExists`, `SumUnique`, `DemandStep`); `GameCacheProofs` gets the greatest
build from it, `PlacementProofs` the best candidate, and that a fold of any
operation keeps what each of its steps keeps and builds what they add
(`FoldExists`, `FoldUnique`, `FoldKeeps`, `FoldBuilds`).

Only model-checked:

- what needs fairness: `OverflowMoves`, `Settles`, `QueuedIsRetried`, `OverdueExpires`,
  `NotStuck`, `RowFollowsAgent`, `EventsSettle`, `Converges`, `WarmingEnds`,
  `CallsEnd`;
- `Delivered`, `Entitled`, `AnswerIsTrue` of `Api`: its constants are the tables
  of routes themselves, so that a run already covers all of them.

## 5. Plan

Done: the modules of section 2. Next:

1. `NodeAgentTasks`: the agent's task table and idempotent operations (Rust);
   `InstanceLifecycle`'s pollers as its client.
2. `Assets`: upload and snapshot life cycle in the asset service (Rust).
3. The administrator's operations on credentials.

## 6. What the models found

Checked by a run: the reaper releases capacity under an instance that goes on to
run (`lifecycle_N4`; `PROJECT.json`, "findings", has the quote and the line).

Seen in the code while modelling, without a run of their own. Life cycle:

- an object can be left in the overflow slice while the consumer sleeps, until
  the next request, unlike what `reconcile_dispatcher.go:144` says;
- a queued instance dispatched by the waker and by `Recover` is reserved twice
  (requirement S35), and a cancelled one whose copy was woken before is
  scheduled all the same (S17);
- deleting a running instance never releases its reservation, although the
  comment at `game_instance_use_case.go:376` excludes running ones;
- the waker may delete the queue row of an instance that was queued again, and
  takes a database error for a missing instance;
- a crash between `TryReserve` and the dispatcher's `Save` leaves a row with a
  node and no `resource_request`, so nobody releases the reservation;
- `FailedInstance` keeps the port mappings, and the readers of an instance's
  ports (`GetInstanceConnectInfo`, `buildInstanceEnv`) see them beside those of
  the next placement; a configuration saved while a stage is in progress is
  overwritten by the dispatcher's copy;
- `onCleanInstanceSucceeded` saves `Stopped` before it deletes the port rows
  (`reconcile_dispatcher.go:1114-1118`), in a goroutine of its own: an instance
  that is started and placed in between loses its new rows, so that another may
  be given the same host ports. `Placement` contains these behaviours; no
  property claims that a placed instance keeps its rows.

Scheduler and ports:

- documents say that offline or disabled agents leave an instance queued
  (`scheduler-design.md:107`); `constraint.go:170` fails it;
- a forced region is looked at only when nobody is eligible; `Preview` leaves
  out several checks of `Schedule` (`PreviewAgrees` lists them);
- an injecting configuration without a game port is queued as if ports were
  short; the two protocols of a port below an injected block get different
  host ports; only a TCP row is ever marked as the game port, so a game port
  for UDP only is known to neither reader when it is injected;
- an event wakes the queue without resetting the back-off.

Agents, telemetry, caches:

- the registry of connections ignores a changed address; `SetEnabled` and
  `UpdateNode` save whole rows over newer columns, reserved counters included;
- an update may be recorded as failed although the version is reached, and an
  agent may restart under an instance placed while it downloads;
- a single spike stays in the window and raises a node, although
  `pressure_monitor.go:17` says it does not; cancelling the bus flushes the
  batch and not the channel (`event_bus.go:67`); after a move from A to B, A's
  next report deletes B's figures;
- `Sync` and `SetBranchMinReplicas` overwrite each other; a copy whose download
  failed is never tried again, so the floor may stay unreached (`FloorReached`
  excepts these agents).

Subscriptions, orders, catalogue, API:

- migration 000027 says that its index covers every status but stopped = 8 and
  failed = 10, `subscription-design.md` section 5 lists these numbers, and the
  comments of `IsActive` (`game_instance.go:145`) and of `ListActiveBySubscription`
  (`game_instance_repo.go:64`) say that the predicate is the same as theirs. But
  `StatusCacheWarming` is 10 and `Failed` 11 in `entity/game_instance.go`: the
  index counts failed instances and not those that wait for their cache, and the
  test that should notice (`entity/game_instance_test.go:12`) compares {8, 11}
  with {8, 10}, so it fails at this commit. Two consequences. In sequence, a
  start beside a failed instance passes `checkSubscriptionSlot` and is refused by
  the index, which `mapSaveConflict` reports as several starts at once;
  `RefusedBesideFailed` says that this is the only refusal. With overlap, an
  instance `i` passes the check, `j` passes it too, `i` goes on to `CacheWarming`
  and the index then lets `j` be saved: both are active, and the dispatcher's next
  write of `i` is refused without anyone noticing, so its row stays
  `CacheWarming`. To see it, set `Overlap = TRUE` and a second handler in
  `Subscription.cfg` and check `SingleActive`;
- a renewal between the sweep's list and its save is
  overwritten by "expired"; a start that passed `checkActive` before a
  suspension reaches the controller after it; two creations at once exceed
  `max_instances`;
- two payments of one order at once create two instances, one without an order,
  as does a lost reply; a save after the game was removed overwrites the mark;
- `DeleteGame` of a game with builds fails at asset_service on SQL (foreign
  key) after its instances are gone, although `game_catalog_use_case.go:157`
  says a failure aborts the whole; an instance created meanwhile survives, one
  started between the look at the statuses and its deletion is deleted running;
- `CreateGame` of an existing id resets its configuration; `UploadGameIcon`
  saves the profile without its enabled flag and so hides the game; a deleted plan can get a
  subscription, or be inserted again by `UpdatePlan`, if requests overlap;
- several handlers answer 400, 409 or 500 when the controller is unreachable or
  its reply was lost after the effect; batch updates answer 200 with the
  failures in the body; a user's status is stored and not read at login;
- the order statuses cancelled and refunded are never written.

## 7. Not modelled

Database errors in the controller's life cycle (they are in `NodeAgents`,
`Telemetry` and `Storefront`); wall-clock time in `InstanceLifecycle`;
statistics counters, logs and the pages of the debugging console; registration,
passwords and tokens; validation of fields; generated gRPC code, which
has no logic of its own; the prediction service,
adapters, the front end and the developer tools. The Rust programs are
external: a node agent accepts, refuses, fails, finishes or times out, in any
order the controller can observe; asset_service is its table of games and
builds. Their own task tables and uploads are in the plan.

Of `Storefront`'s properties only `PaidHasInstance` holds when requests overlap;
the others are about requests in sequence, any of which may fail half way. What
overlap breaks is in section 6.

-------------------------- MODULE InstanceLifecycle --------------------------
(***************************************************************************)
(* The life of game instances in the controller (controller-go): the rows  *)
(* of the database, the in-memory copies that the dispatcher, its pollers  *)
(* and the API handlers work on, and what instances hold: capacity on a    *)
(* node, host ports, credentials and rows of the scheduling queue.         *)
(*                                                                         *)
(* A row is read once, when an operation begins; from then on the          *)
(* operation works on its copy and writes the row back, whole (Save) or    *)
(* the status only (UpdateStatus).  A copy moves between the dispatch      *)
(* queue and the pollers; the queue is the unordered pool of WorkPool,     *)
(* which DispatchQueue implements.  A handler never looks at the row again,*)
(* so each handler is one step; reading the row and committing are two.    *)
(***************************************************************************)
EXTENDS Naturals, FiniteSetsExt

CONSTANTS Instances,  \* instance IDs
          Agents,     \* node agents, one per node
          HostPorts,  \* host ports of a node; an instance needs one
          Creds,      \* credentials of one pool
          CredUsers,  \* instances whose build requires a credential
          Configs,    \* values of an instance's configuration
          Objects,    \* bound: in-memory copies alive at once
          Req,        \* Req[i]: capacity that instance i requests
          Cap,        \* Cap[a]: capacity of a's node times utilization_target
          OPERATION_RETRY_MAX,
          Ops,        \* operations the environment performs, from OpKinds
          Overlap,    \* those that may begin while a copy is in memory
          NoInst, NoAgent

OpKinds == {"start", "stop", "config", "cancel", "delete", "deleteRunning",
            "watch", "reap", "wake", "force", "crash", "crashMid"}

ASSUME LifecycleAssumption ==
  /\ IsFiniteSet(Instances) /\ Req \in [Instances -> Nat]
  /\ Cap \in [Agents -> Nat]
  /\ HostPorts \in SUBSET Nat
  /\ Configs # {}
  /\ OPERATION_RETRY_MAX \in Nat
  /\ CredUsers \subseteq Instances
  /\ Overlap \subseteq Ops /\ Ops \subseteq OpKinds
  /\ NoInst \notin Instances /\ NoAgent \notin Agents

VARIABLES db,        \* db[i]: the row of i in game_instances
          mem,       \* mem[o]: copy o of a row, and who works on it (at)
          reserved,  \* reserved[a]: nodes.*_reserved of a's node
          ports,     \* ports[i]: port mappings of i, pairs <<agent, port>>
          cred,      \* cred[c]: instance that has c in use, or NoInst
          qrow,      \* instances with a row in scheduling_queue
          retry,     \* operationRetryCounts
          waker,     \* instance whose queue row the waker is about to delete
          up         \* "up", or "down" between a crash and the end of Recover

vars == <<db, mem, reserved, ports, cred, qrow, retry, waker, up>>
-----------------------------------------------------------------------------
(* Statuses, rows and copies.                                              *)

Stages == {"CacheWarming", "PreparingBuild", "RestoringSnapshot", "Starting",
           "Stopping", "Cleaning"}
dispatchableStatuses == {"Pending", "Scheduling", "Queued"} \cup Stages
InstanceStatus == dispatchableStatuses \cup {"Running", "Stopped", "Failed"}

Row == [status : InstanceStatus \cup {"unborn", "deleted"},
        agent : Agents \cup {NoAgent}, req : {"nil", "set"}, cfg : Configs]

Places == {"free", "queue", "poll", "warm",
           "start", "stop", "config", "cancel", "delete", "watch", "reap"}

GameInstance == [at : Places, inst : Instances \cup {NoInst},
                 status : InstanceStatus \cup {"unborn"},
                 agent : Agents \cup {NoAgent}, req : {"nil", "set"}, cfg : Configs]

AnyConfig == CHOOSE c \in Configs : TRUE

FreeObject == [at |-> "free", inst |-> NoInst, status |-> "unborn",
               agent |-> NoAgent, req |-> "nil", cfg |-> AnyConfig]

RowOf(m) == [status |-> m.status, agent |-> m.agent, req |-> m.req, cfg |-> m.cfg]
Copy(i, place) == [at |-> place, inst |-> i, status |-> db[i].status,
                   agent |-> db[i].agent, req |-> db[i].req, cfg |-> db[i].cfg]

Exists(i) == db[i].status \in InstanceStatus
IsStopFailure(i) == db[i].status = "Failed" /\ db[i].agent # NoAgent
InMemory(i) == \E o \in Objects : mem[o].inst = i

Init ==
  /\ db = [i \in Instances |-> RowOf(FreeObject)]
  /\ mem = [o \in Objects |-> FreeObject]
  /\ reserved = [a \in Agents |-> 0]
  /\ ports = [i \in Instances |-> {}]
  /\ cred = [c \in Creds |-> NoInst]
  /\ qrow = {}
  /\ retry = [i \in Instances |-> 0]
  /\ waker = NoInst
  /\ up = "up"
-----------------------------------------------------------------------------
(* The database and the dispatcher's small helpers.                        *)

\* Save writes every column, and inserts the row if it is gone.
Save(m) == db' = [db EXCEPT ![m.inst] = RowOf(m)]

\* UpdateStatus touches no row if the row is gone.
UpdateStatus(m) == db' = IF Exists(m.inst) THEN [db EXCEPT ![m.inst].status = m.status]
                                           ELSE db

RequestDispatch(o, m) == mem' = [mem EXCEPT ![o] = [m EXCEPT !.at = "queue"]]
Drop(o) == mem' = [mem EXCEPT ![o] = FreeObject]

\* ReservationRepo.Release: GREATEST(reserved - req, 0).
MinusUnclamped(x, y) == x - y
Minus(x, y) == IF x > y THEN x - y ELSE 0
Released(m) == IF m.agent # NoAgent /\ m.req = "set"
               THEN [reserved EXCEPT ![m.agent] = Minus(@, Req[m.inst])]
               ELSE reserved

ReleaseByInstance(i) == [c \in Creds |-> IF cred[c] = i THEN NoInst ELSE cred[c]]

\* Mutants: the stop phase keeps the request; credentials are not released.
FailedInstanceKeepsRequest(o) ==
  /\ cred' = ReleaseByInstance(mem[o].inst)
  /\ reserved' = IF mem[o].status # "Scheduling" THEN Released(mem[o]) ELSE reserved
  /\ Save([mem[o] EXCEPT !.status = "Failed",
                         !.agent = IF mem[o].status \in {"Stopping", "Cleaning"} THEN @ ELSE NoAgent])
  /\ Drop(o)
  /\ UNCHANGED <<ports, qrow, waker, up>>

FailedInstanceKeepsCredential(o) ==
  /\ reserved' = IF mem[o].status # "Scheduling" THEN Released(mem[o]) ELSE reserved
  /\ Save([mem[o] EXCEPT !.status = "Failed", !.agent = NoAgent])
  /\ Drop(o)
  /\ UNCHANGED <<cred, ports, qrow, waker, up>>

\* FailedInstance: credentials and reservation go back; a failure in the stop
\* phase keeps the binding and forgets the request, any other forgets the
\* binding.  Ports and the scheduling queue are not touched.
FailedInstance(o) ==
  LET m == mem[o]
      keepBinding == m.status \in {"Stopping", "Cleaning"}
  IN /\ cred' = ReleaseByInstance(m.inst)
     /\ reserved' = IF m.status # "Scheduling" THEN Released(m) ELSE reserved
     /\ Save([m EXCEPT !.status = "Failed",
                       !.agent = IF keepBinding THEN @ ELSE NoAgent,
                       !.req = IF keepBinding THEN "nil" ELSE @])
     /\ Drop(o)
     /\ UNCHANGED <<ports, qrow, waker, up>>

\* Mutant: retries that are not counted.
retryUncounted(i) == retry[i] <= OPERATION_RETRY_MAX /\ UNCHANGED retry

\* retryOperation: count a retry, or refuse and forget the count.
retryOperation(i) == /\ retry[i] < OPERATION_RETRY_MAX
                     /\ retry' = [retry EXCEPT ![i] = @ + 1]
retryExhausted(i) == /\ retry[i] >= OPERATION_RETRY_MAX
                     /\ retry' = [retry EXCEPT ![i] = 0]
-----------------------------------------------------------------------------
(* Dispatch, by the status of the copy the consumer took.                  *)

Taken(o, S) == mem[o].at = "queue" /\ mem[o].status \in S

\* Pending, or woken from the queue: enter scheduling.
DispatchPending(o) ==
  /\ Taken(o, {"Pending", "Queued"})
  /\ LET m == [mem[o] EXCEPT !.status = "Scheduling"]
     IN UpdateStatus(m) /\ RequestDispatch(o, m)
  /\ UNCHANGED <<reserved, ports, cred, qrow, retry, waker, up>>

\* Mutant: only one's own mappings count as used.
AnyPorts(a) == {p \in HostPorts : \E j \in Instances : <<a, p>> \notin ports[j]}

\* Host ports of a that no mapping uses; PlanPorts takes the lowest.
FreePorts(a) == {p \in HostPorts : \A j \in Instances : <<a, p>> \notin ports[j]}
PlanPorts(a) == {p \in FreePorts(a) : \A q \in FreePorts(a) : p <= q}

\* Mutants: the request is not part of the check; no port mapping is written.
TryReserveIgnoresRequest(i, a, p) ==
  /\ reserved[a] <= Cap[a]
  /\ p \in PlanPorts(a)
  /\ reserved' = [reserved EXCEPT ![a] = @ + Req[i]]
  /\ ports' = [ports EXCEPT ![i] = @ \cup {<<a, p>>}]

TryReserveWithoutPorts(i, a, p) ==
  /\ reserved[a] + Req[i] <= Cap[a]
  /\ p \in PlanPorts(a)
  /\ reserved' = [reserved EXCEPT ![a] = @ + Req[i]]
  /\ UNCHANGED ports

\* TryReserve, one transaction: capacity and ports are checked again, the
\* node and the port mappings are written.  It also writes the row's node and
\* status, which matters only if the dispatcher crashes before its own Save
\* (CrashAfterReserve).
TryReserve(i, a, p) ==
  /\ reserved[a] + Req[i] <= Cap[a]
  /\ p \in PlanPorts(a)
  /\ reserved' = [reserved EXCEPT ![a] = @ + Req[i]]
  /\ ports' = [ports EXCEPT ![i] = @ \cup {<<a, p>>}]

\* Mutant: the result is written with UpdateStatus.
ScheduleScheduledStatusOnly(o, a, p, newStatus) ==
  /\ Taken(o, {"Scheduling"})
  /\ TryReserve(mem[o].inst, a, p)
  /\ qrow' = qrow \ {mem[o].inst}
  /\ LET m == [mem[o] EXCEPT !.status = newStatus, !.agent = a, !.req = "set"]
     IN UpdateStatus(m) /\ RequestDispatch(o, m)
  /\ UNCHANGED <<cred, retry, waker, up>>

\* Schedule found a node: the reservation, then the dispatcher's own part.
\* Without the game in the node's cache the instance waits for the download.
ScheduleScheduled(o, a, p, newStatus) ==
  /\ Taken(o, {"Scheduling"})
  /\ TryReserve(mem[o].inst, a, p)
  /\ qrow' = qrow \ {mem[o].inst}
  /\ LET m == [mem[o] EXCEPT !.status = newStatus, !.agent = a, !.req = "set"]
     IN Save(m) /\ RequestDispatch(o, m)
  /\ UNCHANGED <<cred, retry, waker, up>>

\* No node for now and no queue row: enqueue and stop working on the copy.
ScheduleQueued(o) ==
  /\ Taken(o, {"Scheduling"})
  /\ mem[o].inst \notin qrow
  /\ qrow' = qrow \cup {mem[o].inst}
  /\ Save([mem[o] EXCEPT !.status = "Queued"])
  /\ Drop(o)
  /\ UNCHANGED <<reserved, ports, cred, retry, waker, up>>

\* Mutant: the row is removed although the instance waits on.
ScheduleStillQueuedDropsRow(o) ==
  /\ Taken(o, {"Scheduling"})
  /\ mem[o].inst \in qrow
  /\ UpdateStatus([mem[o] EXCEPT !.status = "Queued"])
  /\ qrow' = qrow \ {mem[o].inst}
  /\ Drop(o)
  /\ UNCHANGED <<reserved, ports, cred, retry, waker, up>>

\* No node and a queue row: back off, or give up after the queue timeout.
ScheduleStillQueued(o) ==
  /\ Taken(o, {"Scheduling"})
  /\ mem[o].inst \in qrow
  /\ UpdateStatus([mem[o] EXCEPT !.status = "Queued"])
  /\ Drop(o)
  /\ UNCHANGED <<reserved, ports, cred, qrow, retry, waker, up>>

ScheduleTimeout(o) ==
  /\ Taken(o, {"Scheduling"})
  /\ mem[o].inst \in qrow
  /\ qrow' = qrow \ {mem[o].inst}
  /\ Save([mem[o] EXCEPT !.status = "Failed"])
  /\ Drop(o)
  /\ UNCHANGED <<reserved, ports, cred, retry, waker, up>>

\* The scheduler failed, or found a structural reason.
ScheduleFailed(o) ==
  /\ Taken(o, {"Scheduling"})
  /\ FailedInstance(o)
  /\ UNCHANGED retry

\* A stage without a node, or whose node, client, build, snapshot or
\* configuration cannot be read, or whose RPC fails for good.
StageFailed(o) ==
  /\ Taken(o, Stages)
  /\ FailedInstance(o)
  /\ UNCHANGED retry

Holds(i) == \E c \in Creds : cred[c] = i

\* Mutant: what i has in use already is not looked up.
AllocateAgain(i) ==
  IF i \notin CredUsers
  THEN UNCHANGED cred
  ELSE \E c \in Creds : cred[c] = NoInst /\ cred' = [cred EXCEPT ![c] = i]

\* AllocateForInstance: keep what i has in use, else take a free credential.
AllocateForInstance(i) ==
  IF i \notin CredUsers \/ Holds(i)
  THEN UNCHANGED cred
  ELSE \E c \in Creds : cred[c] = NoInst /\ cred' = [cred EXCEPT ![c] = i]

Allocate(o) == IF mem[o].status = "Starting" THEN AllocateForInstance(mem[o].inst)
                                             ELSE UNCHANGED cred

\* The RPC of the stage was accepted: a poller takes the copy.
StageSent(o) ==
  /\ Taken(o, Stages)
  /\ mem[o].agent # NoAgent
  /\ Allocate(o)
  /\ mem' = [mem EXCEPT ![o].at = IF mem[o].status = "CacheWarming" THEN "warm" ELSE "poll"]
  /\ UNCHANGED <<db, reserved, ports, qrow, retry, waker, up>>

\* handleDispatchError: a retryable RPC error puts the copy back, up to
\* OPERATION_RETRY_MAX times in a row.
StageRetried(o) ==
  /\ Taken(o, Stages)
  /\ mem[o].agent # NoAgent
  /\ Allocate(o)
  /\ retryOperation(mem[o].inst)
  /\ UNCHANGED <<db, mem, reserved, ports, qrow, waker, up>>

StageExhausted(o) ==
  /\ Taken(o, Stages)
  /\ mem[o].agent # NoAgent
  /\ retryExhausted(mem[o].inst)
  /\ FailedInstance(o)

\* asset_service has no completed snapshot: skip the restore.
NoSnapshot(o) ==
  /\ Taken(o, {"RestoringSnapshot"})
  /\ mem[o].agent # NoAgent
  /\ LET m == [mem[o] EXCEPT !.status = "Starting"]
     IN UpdateStatus(m) /\ RequestDispatch(o, m)
  /\ UNCHANGED <<reserved, ports, cred, qrow, retry, waker, up>>

\* The default branch: a status nobody dispatches (after ForceDispatch).
DispatchDefault(o) ==
  /\ Taken(o, InstanceStatus \ dispatchableStatuses)
  /\ UpdateStatus([mem[o] EXCEPT !.status = "Failed"])
  /\ Drop(o)
  /\ UNCHANGED <<reserved, ports, cred, qrow, retry, waker, up>>

Dispatch(o) ==
  \/ DispatchPending(o)
  \/ \E a \in Agents, p \in HostPorts, s \in {"CacheWarming", "PreparingBuild"} :
       ScheduleScheduled(o, a, p, s)
  \/ ScheduleQueued(o) \/ ScheduleStillQueued(o) \/ ScheduleTimeout(o) \/ ScheduleFailed(o)
  \/ StageFailed(o) \/ StageSent(o) \/ StageRetried(o) \/ StageExhausted(o)
  \/ NoSnapshot(o) \/ DispatchDefault(o)
-----------------------------------------------------------------------------
(* PollingResult and pollCacheReady.                                       *)

Polled(o, s) == mem[o].at = "poll" /\ mem[o].status = s
clearRetryCount(i) == retry' = [retry EXCEPT ![i] = 0]

\* The build is ready.  The new status is not written to the row.
onPrepareBuildSucceeded(o) ==
  /\ Polled(o, "PreparingBuild")
  /\ clearRetryCount(mem[o].inst)
  /\ RequestDispatch(o, [mem[o] EXCEPT !.status = "RestoringSnapshot"])
  /\ UNCHANGED <<db, reserved, ports, cred, qrow, waker, up>>

onRestoreSnapshotSucceeded(o) ==
  /\ Polled(o, "RestoringSnapshot")
  /\ clearRetryCount(mem[o].inst)
  /\ LET m == [mem[o] EXCEPT !.status = "Starting"]
     IN UpdateStatus(m) /\ RequestDispatch(o, m)
  /\ UNCHANGED <<reserved, ports, cred, qrow, waker, up>>

onStartInstanceSucceeded(o) ==
  /\ Polled(o, "Starting")
  /\ clearRetryCount(mem[o].inst)
  /\ UpdateStatus([mem[o] EXCEPT !.status = "Running"])
  /\ Drop(o)
  /\ UNCHANGED <<reserved, ports, cred, qrow, waker, up>>

\* Mutant: the next stage is not requested.
onStopWithoutDispatch(o) ==
  /\ Polled(o, "Stopping")
  /\ clearRetryCount(mem[o].inst)
  /\ UpdateStatus([mem[o] EXCEPT !.status = "Cleaning"])
  /\ Drop(o)
  /\ UNCHANGED <<reserved, ports, cred, qrow, waker, up>>

onStopInstanceSucceeded(o) ==
  /\ Polled(o, "Stopping")
  /\ clearRetryCount(mem[o].inst)
  /\ LET m == [mem[o] EXCEPT !.status = "Cleaning"]
     IN UpdateStatus(m) /\ RequestDispatch(o, m)
  /\ UNCHANGED <<reserved, ports, cred, qrow, waker, up>>

\* Everything the instance holds goes back; the waker is woken, which it
\* could be at any time (Wake).
onCleanInstanceSucceeded(o) ==
  /\ Polled(o, "Cleaning")
  /\ clearRetryCount(mem[o].inst)
  /\ cred' = ReleaseByInstance(mem[o].inst)
  /\ reserved' = Released(mem[o])
  /\ Save([mem[o] EXCEPT !.status = "Stopped", !.agent = NoAgent])
  /\ ports' = [ports EXCEPT ![mem[o].inst] = {}]
  /\ Drop(o)
  /\ UNCHANGED <<qrow, waker, up>>

\* The operation failed with a retryable error.
PollRetried(o) ==
  /\ mem[o].at = "poll"
  /\ retryOperation(mem[o].inst)
  /\ RequestDispatch(o, mem[o])
  /\ UNCHANGED <<db, reserved, ports, cred, qrow, waker, up>>

PollExhausted(o) ==
  /\ mem[o].at = "poll"
  /\ retryExhausted(mem[o].inst)
  /\ FailedInstance(o)

\* ... failed for good, could not be read, or did not end before the deadline.
PollFailed(o) ==
  /\ mem[o].at = "poll"
  /\ FailedInstance(o)
  /\ UNCHANGED retry

onCacheWarmReady(o) ==
  /\ mem[o].at = "warm"
  /\ LET m == [mem[o] EXCEPT !.status = "PreparingBuild"]
     IN Save(m) /\ RequestDispatch(o, m)
  /\ UNCHANGED <<reserved, ports, cred, qrow, retry, waker, up>>

\* The download failed, or was not ready after cacheWarmTimeoutMin.
WarmFailed(o) ==
  /\ mem[o].at = "warm"
  /\ FailedInstance(o)
  /\ UNCHANGED retry

Poll(o) ==
  \/ onPrepareBuildSucceeded(o) \/ onRestoreSnapshotSucceeded(o)
  \/ onStartInstanceSucceeded(o) \/ onStopInstanceSucceeded(o) \/ onCleanInstanceSucceeded(o)
  \/ PollRetried(o) \/ PollExhausted(o) \/ PollFailed(o)
  \/ onCacheWarmReady(o) \/ WarmFailed(o)
-----------------------------------------------------------------------------
(* The API, the watch on running instances, the reaper and the queue       *)
(* waker.  Each reads the row (Begin) and later commits.                   *)

MayBegin(k, i) == k \in Ops /\ (k \in Overlap \/ ~(InMemory(i) \/ waker = i))

Begin(o, i, place) == /\ mem[o].at = "free"
                      /\ mem' = [mem EXCEPT ![o] = Copy(i, place)]
                      /\ UNCHANGED <<db, reserved, ports, cred, qrow, retry, waker, up>>

\* CreateGameInstance: a stopped row, with or without a resource request.
CreateGameInstance(i, req, cfg) ==
  /\ up = "up"
  /\ db[i].status = "unborn"
  /\ db' = [db EXCEPT ![i] = [status |-> "Stopped", agent |-> NoAgent, req |-> req, cfg |-> cfg]]
  /\ UNCHANGED <<mem, reserved, ports, cred, qrow, retry, waker, up>>

\* StartGameInstance, and RetryGameInstance for a failed instance.
BeginStart(o, i) ==
  /\ up = "up" /\ MayBegin("start", i)
  /\ db[i].status \in {"Stopped", "Failed"} /\ ~IsStopFailure(i)
  /\ Begin(o, i, "start")

StartGameInstance(o) ==
  /\ mem[o].at = "start"
  /\ LET m == [mem[o] EXCEPT !.status = "Pending"]
     IN Save(m) /\ RequestDispatch(o, m)
  /\ UNCHANGED <<reserved, ports, cred, qrow, retry, waker, up>>

BeginStop(o, i) ==
  /\ up = "up" /\ MayBegin("stop", i)
  /\ db[i].status = "Running" \/ IsStopFailure(i)
  /\ Begin(o, i, "stop")

StopGameInstance(o) ==
  /\ mem[o].at = "stop"
  /\ LET m == [mem[o] EXCEPT !.status = "Stopping"]
     IN UpdateStatus(m) /\ RequestDispatch(o, m)
  /\ UNCHANGED <<reserved, ports, cred, qrow, retry, waker, up>>

\* UpdateInstanceConfig: any status; the whole row is written back.
BeginConfig(o, i) ==
  /\ up = "up" /\ MayBegin("config", i)
  /\ Exists(i)
  /\ Begin(o, i, "config")

UpdateInstanceConfig(o, cfg) ==
  /\ mem[o].at = "config"
  /\ Save([mem[o] EXCEPT !.cfg = cfg])
  /\ Drop(o)
  /\ UNCHANGED <<reserved, ports, cred, qrow, retry, waker, up>>

BeginCancel(o, i) ==
  /\ up = "up" /\ MayBegin("cancel", i)
  /\ db[i].status = "Queued"
  /\ Begin(o, i, "cancel")

CancelQueued(o) ==
  /\ mem[o].at = "cancel"
  /\ qrow' = qrow \ {mem[o].inst}
  /\ Save([mem[o] EXCEPT !.status = "Stopped"])
  /\ Drop(o)
  /\ UNCHANGED <<reserved, ports, cred, retry, waker, up>>

\* DeleteGameInstance refuses the dispatchable statuses, except Queued.
BeginDelete(o, i) ==
  /\ up = "up"
  /\ \/ db[i].status \in {"Queued", "Stopped", "Failed"} /\ MayBegin("delete", i)
     \/ db[i].status = "Running" /\ MayBegin("deleteRunning", i)
  /\ Begin(o, i, "delete")

DeleteGameInstance(o) ==
  LET i == mem[o].inst
  IN /\ mem[o].at = "delete"
     /\ qrow' = IF mem[o].status = "Queued" THEN qrow \ {i} ELSE qrow
     /\ ports' = [ports EXCEPT ![i] = {}]
     /\ db' = [db EXCEPT ![i] = [RowOf(FreeObject) EXCEPT !.status = "deleted"]]
     /\ Drop(o)
     /\ UNCHANGED <<reserved, cred, retry, waker, up>>

\* WatchRunningInstances found the container dead, or the node lost for
\* longer than fencingTimeout.
BeginWatch(o, i) ==
  /\ up = "up" /\ MayBegin("watch", i)
  /\ db[i].status = "Running" /\ db[i].agent # NoAgent
  /\ Begin(o, i, "watch")

WatchRunningInstances(o) ==
  /\ mem[o].at = "watch"
  /\ FailedInstance(o)
  /\ UNCHANGED retry

\* StaleReservationReaper: a row that has not moved for 10 minutes.  A stage
\* with its retries takes up to 12 minutes and two stages write no row between
\* them, so the reaper may meet an instance that is still being worked on.
BeginReap(o, i) ==
  /\ MayBegin("reap", i)
  /\ db[i].status \in {"PreparingBuild", "RestoringSnapshot", "Starting"}
  /\ Begin(o, i, "reap")

reconcileOnce(o) ==
  /\ mem[o].at = "reap"
  /\ reserved' = Released(mem[o])
  /\ Save([mem[o] EXCEPT !.status = "Failed"])
  /\ Drop(o)
  /\ UNCHANGED <<ports, cred, qrow, retry, waker, up>>

MayWake(i) == MayBegin("wake", i) /\ (up = "up" \/ "wake" \in Overlap)

\* wakeOnce, for a row that is due: dispatch a copy of a queued instance.
\* The waker starts before Recover and again whenever it is woken, so it may
\* push an instance whose last copy has not been dispatched yet.
Wake(o, i) ==
  /\ waker = NoInst /\ i \in qrow
  /\ MayWake(i)
  /\ db[i].status = "Queued"
  /\ Begin(o, i, "queue")

\* ... and delete the queue row of one that is gone or not queued; the look
\* at the row and the delete are two steps.
WakeStale(i) ==
  /\ waker = NoInst /\ i \in qrow
  /\ MayWake(i)
  /\ db[i].status # "Queued"
  /\ waker' = i
  /\ UNCHANGED <<db, mem, reserved, ports, cred, qrow, retry, up>>

WakeDequeue ==
  /\ waker # NoInst
  /\ qrow' = qrow \ {waker}
  /\ waker' = NoInst
  /\ UNCHANGED <<db, mem, reserved, ports, cred, retry, up>>

\* ForceDispatch, the debugging entry: any status.
ForceDispatch(o, i) ==
  /\ up = "up" /\ MayBegin("force", i)
  /\ Exists(i)
  /\ Begin(o, i, "queue")

Environment(o) ==
  \/ \E i \in Instances :
       \/ BeginStart(o, i) \/ BeginStop(o, i) \/ BeginConfig(o, i) \/ BeginCancel(o, i)
       \/ BeginDelete(o, i) \/ BeginWatch(o, i) \/ BeginReap(o, i)
       \/ Wake(o, i) \/ ForceDispatch(o, i)
  \/ StartGameInstance(o) \/ StopGameInstance(o)
  \/ \E cfg \in Configs : UpdateInstanceConfig(o, cfg)
  \/ CancelQueued(o) \/ DeleteGameInstance(o)
  \/ WatchRunningInstances(o) \/ reconcileOnce(o)
-----------------------------------------------------------------------------
(* Crashes.  Everything in memory is lost; Recover reloads the rows.       *)

MemoryLost == /\ mem' = [o \in Objects |-> FreeObject]
              /\ retry' = [i \in Instances |-> 0]
              /\ waker' = NoInst
              /\ up' = "down"

Crash ==
  /\ "crash" \in Ops
  /\ MemoryLost
  /\ UNCHANGED <<db, reserved, ports, cred, qrow>>

\* Between TryReserve and the dispatcher's Save: node and status are in the
\* row, the request is not.
CrashAfterReserve(o, a, p, newStatus) ==
  /\ "crashMid" \in Ops
  /\ Taken(o, {"Scheduling"})
  /\ TryReserve(mem[o].inst, a, p)
  /\ db' = IF Exists(mem[o].inst)
           THEN [db EXCEPT ![mem[o].inst].agent = a, ![mem[o].inst].status = newStatus]
           ELSE db
  /\ MemoryLost
  /\ UNCHANGED <<cred, qrow>>

\* Between the releases of FailedInstance or onCleanInstanceSucceeded and
\* their Save: the row still says that the instance holds its reservation.
CrashAfterRelease(o) ==
  /\ "crashMid" \in Ops
  /\ mem[o].at \in {"queue", "poll", "warm", "watch"}
  /\ mem[o].status \in Stages \cup {"Running"}
  /\ cred' = ReleaseByInstance(mem[o].inst)
  /\ reserved' = Released(mem[o])
  /\ MemoryLost
  /\ UNCHANGED <<db, ports, qrow>>

\* Recover: a copy of every row with a dispatchable status is dispatched.
Recover ==
  /\ up = "down"
  /\ LET todo == {i \in Instances : db[i].status \in dispatchableStatuses}
     IN \E f \in [todo -> {o \in Objects : mem[o].at = "free"}] :
          /\ \A i, j \in todo : f[i] = f[j] => i = j
          /\ mem' = [o \in Objects |-> IF \E i \in todo : f[i] = o
                                       THEN Copy(CHOOSE i \in todo : f[i] = o, "queue")
                                       ELSE mem[o]]
  /\ up' = "up"
  /\ UNCHANGED <<db, reserved, ports, cred, qrow, retry, waker>>

Failures ==
  \/ Crash
  \/ \E o \in Objects :
       \/ CrashAfterRelease(o)
       \/ \E a \in Agents, p \in HostPorts, s \in {"CacheWarming", "PreparingBuild"} :
            CrashAfterReserve(o, a, p, s)
  \/ Recover
-----------------------------------------------------------------------------
Next ==
  \/ \E i \in Instances, req \in {"nil", "set"}, cfg \in Configs : CreateGameInstance(i, req, cfg)
  \/ \E o \in Objects : Dispatch(o) \/ Poll(o) \/ Environment(o)
  \/ \E i \in Instances : WakeStale(i)
  \/ WakeDequeue
  \/ Failures

Spec == Init /\ [][Next]_vars

\* The consumer serves every copy it was given and every RPC it makes has a
\* timeout; a poller ends at its deadline; a handler that began commits; the
\* waker visits every due row in each periodic scan, whatever it does for the
\* others (hence SF); Recover runs at start-up.  Nobody is obliged
\* to call the API, and nothing has to fail.
Commit(o) ==
  \/ StartGameInstance(o) \/ StopGameInstance(o) \/ CancelQueued(o) \/ DeleteGameInstance(o)
  \/ \E cfg \in Configs : UpdateInstanceConfig(o, cfg)
  \/ WatchRunningInstances(o) \/ reconcileOnce(o)

Fairness ==
  /\ \A o \in Objects : WF_vars(Dispatch(o)) /\ WF_vars(Poll(o)) /\ WF_vars(Commit(o))
  /\ \A i \in Instances : SF_vars(\E o \in Objects : Wake(o, i))
  /\ WF_vars(WakeDequeue) /\ WF_vars(Recover)

FairSpec == Spec /\ Fairness
-----------------------------------------------------------------------------
\* Types: nodes.*_reserved never goes below zero (the clamp of Release) and
\* operationRetryCounts never exceeds OPERATION_RETRY_MAX (retryOperation).
TypeOK ==
  /\ db \in [Instances -> Row]
  /\ mem \in [Objects -> GameInstance]
  /\ reserved \in [Agents -> Nat]
  /\ ports \in [Instances -> SUBSET (Agents \X HostPorts)]
  /\ cred \in [Creds -> Instances \cup {NoInst}]
  /\ qrow \in SUBSET Instances
  /\ retry \in [Instances -> 0 .. OPERATION_RETRY_MAX]
  /\ waker \in Instances \cup {NoInst}
  /\ up \in {"up", "down"}

Bound == Stages \cup {"Running"}
Holders(a) == {i \in Instances : Exists(i) /\ db[i].agent = a /\ db[i].req = "set"}
Demand(S) == MapThenSumSet(LAMBDA i : Req[i], S)

\* A node's reserved counter is what the rows bound to it request: every exit
\* of the life cycle gives back exactly what scheduling took (the release
\* points of docs/scheduler-design.md 7.2).
ReservationsExact == \A a \in Agents : reserved[a] = Demand(Holders(a))

\* Seen from the nodes, the controller takes and gives back reservations one
\* instance at a time: no step moves one to another node, gives back what it
\* did not take, or takes what no longer fits.  An instance holds what its row
\* says that it does (TryReserve, releaseReservation).
Amount(n) == [d \in {"capacity"} |-> n]
HeldBy(i) == IF Exists(i) /\ db[i].agent # NoAgent /\ db[i].req = "set"
             THEN [agent |-> db[i].agent, req |-> Amount(Req[i])]
             ELSE [agent |-> NoAgent, req |-> Amount(0)]

Reservation == INSTANCE Reservations WITH
  Dims <- {"capacity"}, HardDims <- {"capacity"},
  Limit <- [a \in Agents |-> Amount(Cap[a])],
  reserved <- [a \in Agents |-> Amount(reserved[a])],
  held <- [i \in Instances |-> HeldBy(i)]

ImplementsReservations == Reservation!Spec

\* Whoever works on an instance sees the row as it is; only the build stage,
\* whose success is not written, may run ahead of the row.
CopiesAgree ==
  \A o \in Objects :
    mem[o].at # "free" =>
      \/ RowOf(mem[o]) = db[mem[o].inst]
      \/ /\ mem[o].status = "RestoringSnapshot"
         /\ RowOf(mem[o]) = [db[mem[o].inst] EXCEPT !.status = "RestoringSnapshot"]
         /\ db[mem[o].inst].status = "PreparingBuild"

\* Credentials are allocated late and given back early: only an instance that
\* is starting, running or stopping holds one, and one that runs holds the
\* one it needs.
CredentialsHeld ==
  /\ \A c \in Creds : cred[c] # NoInst =>
       db[cred[c]].status \in {"Starting", "Running", "Stopping", "Cleaning"}
  /\ \A i \in CredUsers : db[i].status = "Running" => Holds(i)

\* An instance that is bound to a node has a port there.
BoundHasPort ==
  \A i \in Instances : db[i].status \in Bound =>
    db[i].agent # NoAgent /\ \E p \in HostPorts : <<db[i].agent, p>> \in ports[i]

\* No host port of a node is mapped for two instances.
PortsExclusive == \A i, j \in Instances : i # j => ports[i] \cap ports[j] = {}

\* Every exit and every retry leaves an instance with what its status needs
\* and nothing else, nor anything of others (FailedInstance, TryReserve,
\* onStopInstanceSucceeded).
HoldsWhatItNeeds == CredentialsHeld /\ BoundHasPort /\ PortsExclusive

\* Nothing is forgotten: an unfinished instance is in memory, or waits in the
\* scheduling queue for the waker.
NothingForgotten ==
  up = "up" => \A i \in Instances : db[i].status \in dispatchableStatuses =>
                 InMemory(i) \/ (db[i].status = "Queued" /\ i \in qrow)

\* Whatever overlaps, the reserved counter stays within the capacity ...
WithinCapacity == \A a \in Agents : reserved[a] <= Cap[a]

\* ... and no instance holds two credentials of a pool.
OneCredential == \A c, d \in Creds : cred[c] = cred[d] /\ cred[c] # NoInst => c = d

\* An instance that is being worked on comes to rest: it runs, stops, fails
\* or waits in the queue.  Retries are bounded and every stage moves on.
Settles ==
  \A i \in Instances : db[i].status \in dispatchableStatuses \ {"Queued"} ~>
                       db[i].status \in {"Running", "Stopped", "Failed", "Queued"}

\* A queued instance is tried again, cancelled or given up, never left.
QueuedIsRetried ==
  \A i \in Instances : db[i].status = "Queued" ~> db[i].status # "Queued"
-----------------------------------------------------------------------------
(* What the documents say and the reaper breaks.                           *)

\* N4: what is bound to a node fits the node.
NoOversell ==
  \A a \in Agents :
    Demand({i \in Instances : db[i].agent = a /\ db[i].status \in Bound}) <= Cap[a]
=============================================================================

----------------------- MODULE InstanceLifecycleProofs -----------------------
(***************************************************************************)
(* What holds of InstanceLifecycle for any number of instances, nodes,     *)
(* ports, credentials and in-memory copies, whichever operations overlap   *)
(* and wherever the controller crashes: types, capacity, ports and         *)
(* credentials.  The last part is about the nominal case, in which nobody  *)
(* begins to work on an instance that somebody works on: what is taken is  *)
(* given back, copies are true and nothing is forgotten.                   *)
(***************************************************************************)
EXTENDS InstanceLifecycle, FiniteSetTheorems, WellFoundedInduction, TLAPS

\* A copy somebody works on.
Live == [at : Places \ {"free"}, inst : Instances, status : InstanceStatus,
         agent : Agents \cup {NoAgent}, req : {"nil", "set"}, cfg : Configs]

\* Copies in use carry an instance and a status of the code.
InUse == \A o \in Objects : mem[o].at # "free" => mem[o] \in Live

Typed == TypeOK /\ InUse

\* The columns of the rows and copies, one predicate per variable.
DbOK == db \in [Instances -> Row]
MemOK == mem \in [Objects -> GameInstance] /\ InUse
ReservedOK == reserved \in [Agents -> Nat]
PortsOK == ports \in [Instances -> SUBSET (Agents \X HostPorts)]
CredOK == cred \in [Creds -> Instances \cup {NoInst}]
RetryOK == retry \in [Instances -> 0 .. OPERATION_RETRY_MAX]
RestOK == qrow \in SUBSET Instances /\ waker \in Instances \cup {NoInst} /\ up \in {"up", "down"}

LEMMA TypedParts ==
  Typed <=> DbOK /\ MemOK /\ ReservedOK /\ PortsOK /\ CredOK /\ RetryOK /\ RestOK
BY DEF Typed, TypeOK, DbOK, MemOK, ReservedOK, PortsOK, CredOK, RetryOK, RestOK

LEMMA TypedNext ==
  DbOK' /\ MemOK' /\ ReservedOK' /\ PortsOK' /\ CredOK' /\ RetryOK' /\ RestOK' => Typed'
BY DEF Typed, TypeOK, DbOK, MemOK, ReservedOK, PortsOK, CredOK, RetryOK, RestOK

LEMMA FreeObjectType == FreeObject \in GameInstance /\ FreeObject.at = "free" /\ RowOf(FreeObject) \in Row
<1>1. AnyConfig \in Configs
  BY LifecycleAssumption DEF AnyConfig
<1> QED BY <1>1 DEF FreeObject, GameInstance, Places, Row, RowOf

LEMMA LiveType == \A m \in Live : m \in GameInstance /\ RowOf(m) \in Row
BY DEF Live, GameInstance, Row, RowOf

-----------------------------------------------------------------------------
(* The helpers keep the types.                                             *)

LEMMA PutType ==
  ASSUME MemOK, NEW o \in Objects, NEW m \in Live, mem' = [mem EXCEPT ![o] = m]
  PROVE  MemOK'
BY LiveType DEF MemOK, InUse

LEMMA DropType ==
  ASSUME MemOK, NEW o \in Objects, Drop(o)
  PROVE  MemOK'
BY FreeObjectType DEF MemOK, InUse, Drop

LEMMA RequestType ==
  ASSUME MemOK, NEW o \in Objects, NEW m \in Live, RequestDispatch(o, m)
  PROVE  MemOK'
<1>1. [m EXCEPT !.at = "queue"] \in Live
  BY DEF Live, Places
<1> QED BY <1>1, PutType DEF RequestDispatch

LEMMA SaveType ==
  ASSUME DbOK, NEW m \in Live, Save(m)
  PROVE  DbOK'
<1>1. m.inst \in Instances
  BY DEF Live
<1> QED BY <1>1, LiveType DEF DbOK, Save

LEMMA UpdateType ==
  ASSUME DbOK, NEW m \in Live, UpdateStatus(m)
  PROVE  DbOK'
<1>1. m.inst \in Instances /\ m.status \in InstanceStatus
  BY DEF Live
<1>2. CASE db' = [db EXCEPT ![m.inst].status = m.status]
  BY <1>1, <1>2 DEF DbOK, Row
<1> QED BY <1>2 DEF UpdateStatus, DbOK

LEMMA ReleasedType ==
  ASSUME ReservedOK, NEW m \in Live
  PROVE  /\ Released(m) \in [Agents -> Nat]
         /\ \A a \in Agents : Released(m)[a] <= reserved[a]
BY LifecycleAssumption DEF ReservedOK, Released, Minus, Live

LEMMA CredReleased ==
  ASSUME CredOK, NEW i
  PROVE  ReleaseByInstance(i) \in [Creds -> Instances \cup {NoInst}]
BY DEF CredOK, ReleaseByInstance

LEMMA FailedType ==
  ASSUME Typed, NEW o \in Objects, mem[o] \in Live, FailedInstance(o)
  PROVE  DbOK' /\ MemOK' /\ ReservedOK' /\ CredOK' /\ PortsOK' /\ RestOK'
<1> DEFINE keep == mem[o].status \in {"Stopping", "Cleaning"}
           m == [mem[o] EXCEPT !.status = "Failed",
                               !.agent = IF keep THEN @ ELSE NoAgent,
                               !.req = IF keep THEN "nil" ELSE @]
<1>0. DbOK /\ MemOK /\ ReservedOK /\ CredOK /\ PortsOK /\ RestOK
  BY TypedParts
<1>1. m \in Live
  BY DEF Live, InstanceStatus
<1>2. Save(m) /\ Drop(o)
  BY DEF FailedInstance
<1>3. DbOK' /\ MemOK'
  BY <1>0, <1>1, <1>2, SaveType, DropType
<1>4. ReservedOK'
  BY <1>0, ReleasedType DEF FailedInstance, ReservedOK
<1>5. CredOK'
  BY <1>0, CredReleased DEF FailedInstance, CredOK
<1>6. PortsOK' /\ RestOK'
  BY <1>0 DEF FailedInstance, PortsOK, RestOK
<1> QED BY <1>3, <1>4, <1>5, <1>6

\* A copy that only changes its status stays a copy in use.
LEMMA StatusLive ==
  ASSUME NEW m \in Live, NEW s \in InstanceStatus
  PROVE  [m EXCEPT !.status = s] \in Live
BY DEF Live

LEMMA RetryType ==
  ASSUME RetryOK, NEW i \in Instances
  PROVE  /\ retryOperation(i) => RetryOK'
         /\ retryExhausted(i) => RetryOK'
         /\ clearRetryCount(i) => RetryOK'
BY LifecycleAssumption DEF RetryOK, retryOperation, retryExhausted, clearRetryCount

LEMMA ReserveType ==
  ASSUME ReservedOK, PortsOK, NEW i \in Instances, NEW a \in Agents, NEW p \in HostPorts,
         TryReserve(i, a, p)
  PROVE  ReservedOK' /\ PortsOK'
<1>1. ReservedOK'
  BY LifecycleAssumption DEF ReservedOK, TryReserve
<1>2. PortsOK'
  <2>1. ports[i] \cup {<<a, p>>} \in SUBSET (Agents \X HostPorts)
    BY DEF PortsOK
  <2> QED BY <2>1 DEF PortsOK, TryReserve
<1> QED BY <1>1, <1>2

LEMMA AllocateType ==
  ASSUME CredOK, NEW o \in Objects, mem[o].inst \in Instances, Allocate(o)
  PROVE  CredOK'
<1> DEFINE i == mem[o].inst
<1>1. CASE UNCHANGED cred
  BY <1>1 DEF CredOK
<1>2. ASSUME NEW c \in Creds, cred' = [cred EXCEPT ![c] = i]
      PROVE  CredOK'
  BY <1>2 DEF CredOK
<1>3. AllocateForInstance(i) => CredOK'
  <2>1. AllocateForInstance(i) =>
          \/ UNCHANGED cred
          \/ \E c \in Creds : cred' = [cred EXCEPT ![c] = i]
    BY Zenon DEF AllocateForInstance
  <2> QED BY <1>1, <1>2, <2>1
<1> HIDE DEF i
<1>4. AllocateForInstance(i) \/ UNCHANGED cred
  BY Zenon DEF Allocate, i
<1> QED BY <1>1, <1>3, <1>4

LEMMA CopyType ==
  ASSUME DbOK, NEW i \in Instances, db[i].status \in InstanceStatus, NEW k \in Places \ {"free"}
  PROVE  Copy(i, k) \in Live
BY DEF DbOK, Copy, Live, Row

LEMMA BeginType ==
  ASSUME Typed, NEW o \in Objects, NEW i \in Instances, NEW k \in Places \ {"free"},
         db[i].status \in InstanceStatus, Begin(o, i, k)
  PROVE  Typed'
<1>0. DbOK /\ MemOK /\ ReservedOK /\ PortsOK /\ CredOK /\ RetryOK /\ RestOK
  BY TypedParts
<1>1. Copy(i, k) \in Live
  BY <1>0, CopyType
<1>2. MemOK'
  BY <1>0, <1>1, PutType DEF Begin
<1>3. DbOK' /\ ReservedOK' /\ PortsOK' /\ CredOK' /\ RetryOK' /\ RestOK'
  BY <1>0 DEF Begin, DbOK, ReservedOK, PortsOK, CredOK, RetryOK, RestOK
<1> QED BY <1>2, <1>3, TypedNext

-----------------------------------------------------------------------------
(* Dispatch.                                                               *)

LEMMA DispatchTyped ==
  ASSUME Typed, NEW o \in Objects, Dispatch(o)
  PROVE  Typed'
<1>0. DbOK /\ MemOK /\ ReservedOK /\ PortsOK /\ CredOK /\ RetryOK /\ RestOK
  BY TypedParts
<1>a. mem[o].at = "queue"
  BY DEF Dispatch, DispatchPending, ScheduleScheduled, ScheduleQueued, ScheduleStillQueued,
         ScheduleTimeout, ScheduleFailed, StageFailed, StageSent, StageRetried, StageExhausted,
         NoSnapshot, DispatchDefault, Taken
<1>b. mem[o] \in Live /\ mem[o].inst \in Instances
  BY <1>0, <1>a DEF MemOK, InUse, Live
<1>1. ASSUME DispatchPending(o) PROVE Typed'
  <2>1. PICK m \in Live : UpdateStatus(m) /\ RequestDispatch(o, m)
    BY <1>1, <1>b, StatusLive DEF DispatchPending, InstanceStatus, dispatchableStatuses
  <2>2. DbOK' /\ MemOK'
    BY <1>0, <2>1, UpdateType, RequestType
  <2>3. ReservedOK' /\ PortsOK' /\ CredOK' /\ RetryOK' /\ RestOK'
    BY <1>0, <1>1 DEF DispatchPending, ReservedOK, PortsOK, CredOK, RetryOK, RestOK
  <2> QED BY <2>2, <2>3, TypedNext
<1>2. ASSUME NEW a \in Agents, NEW p \in HostPorts, NEW s \in {"CacheWarming", "PreparingBuild"},
             ScheduleScheduled(o, a, p, s)
      PROVE  Typed'
  <2> DEFINE m == [mem[o] EXCEPT !.status = s, !.agent = a, !.req = "set"]
  <2>1. m \in Live
    BY <1>b DEF Live, InstanceStatus, dispatchableStatuses, Stages
  <2>2. Save(m) /\ RequestDispatch(o, m)
    BY <1>2 DEF ScheduleScheduled
  <2>3. DbOK' /\ MemOK'
    BY <1>0, <2>1, <2>2, SaveType, RequestType
  <2>4. ReservedOK' /\ PortsOK'
    BY <1>0, <1>b, <1>2, ReserveType DEF ScheduleScheduled
  <2>5. CredOK' /\ RetryOK' /\ RestOK'
    BY <1>0, <1>2 DEF ScheduleScheduled, CredOK, RetryOK, RestOK
  <2> QED BY <2>3, <2>4, <2>5, TypedNext
<1>3. ASSUME ScheduleQueued(o) \/ ScheduleTimeout(o) PROVE Typed'
  <2>1. PICK m \in Live : Save(m)
    BY <1>3, <1>b, StatusLive DEF ScheduleQueued, ScheduleTimeout, InstanceStatus, dispatchableStatuses
  <2>2. Drop(o)
    BY <1>3 DEF ScheduleQueued, ScheduleTimeout
  <2>3. DbOK' /\ MemOK'
    BY <1>0, <2>1, <2>2, SaveType, DropType
  <2>4. ReservedOK' /\ PortsOK' /\ CredOK' /\ RetryOK' /\ RestOK'
    BY <1>0, <1>b, <1>3
    DEF ScheduleQueued, ScheduleTimeout, ReservedOK, PortsOK, CredOK, RetryOK, RestOK
  <2> QED BY <2>3, <2>4, TypedNext
<1>4. ASSUME ScheduleStillQueued(o) \/ DispatchDefault(o) PROVE Typed'
  <2>1. PICK m \in Live : UpdateStatus(m)
    BY <1>4, <1>b, StatusLive DEF ScheduleStillQueued, DispatchDefault, InstanceStatus, dispatchableStatuses
  <2>2. Drop(o)
    BY <1>4 DEF ScheduleStillQueued, DispatchDefault
  <2>3. DbOK' /\ MemOK'
    BY <1>0, <2>1, <2>2, UpdateType, DropType
  <2>4. ReservedOK' /\ PortsOK' /\ CredOK' /\ RetryOK' /\ RestOK'
    BY <1>0, <1>4
    DEF ScheduleStillQueued, DispatchDefault, ReservedOK, PortsOK, CredOK, RetryOK, RestOK
  <2> QED BY <2>3, <2>4, TypedNext
<1>5. ASSUME ScheduleFailed(o) \/ StageFailed(o) \/ StageExhausted(o) PROVE Typed'
  <2>1. DbOK' /\ MemOK' /\ ReservedOK' /\ CredOK' /\ PortsOK' /\ RestOK'
    BY <1>5, <1>b, FailedType DEF ScheduleFailed, StageFailed, StageExhausted
  <2>2. RetryOK'
    BY <1>0, <1>b, <1>5, RetryType DEF ScheduleFailed, StageFailed, StageExhausted, RetryOK
  <2> QED BY <2>1, <2>2, TypedNext
<1>6. ASSUME StageSent(o) PROVE Typed'
  <2>1. PICK k \in {"warm", "poll"} : mem' = [mem EXCEPT ![o].at = k]
    BY <1>6 DEF StageSent
  <2>2. [mem[o] EXCEPT !.at = k] \in Live
    BY <1>b DEF Live, Places
  <2>3. mem' = [mem EXCEPT ![o] = [mem[o] EXCEPT !.at = k]]
    BY <1>0, <2>1 DEF MemOK
  <2>4. MemOK'
    BY <1>0, <2>2, <2>3, PutType
  <2>5. CredOK'
    BY <1>0, <1>b, <1>6, AllocateType DEF StageSent
  <2>6. DbOK' /\ ReservedOK' /\ PortsOK' /\ RetryOK' /\ RestOK'
    BY <1>0, <1>6 DEF StageSent, DbOK, ReservedOK, PortsOK, RetryOK, RestOK
  <2> QED BY <2>4, <2>5, <2>6, TypedNext
<1>7. ASSUME StageRetried(o) PROVE Typed'
  <2>1. CredOK' /\ RetryOK'
    BY <1>0, <1>b, <1>7, AllocateType, RetryType DEF StageRetried
  <2>2. DbOK' /\ MemOK' /\ ReservedOK' /\ PortsOK' /\ RestOK'
    BY <1>0, <1>7 DEF StageRetried, DbOK, MemOK, InUse, ReservedOK, PortsOK, RestOK
  <2> QED BY <2>1, <2>2, TypedNext
<1>8. ASSUME NoSnapshot(o) PROVE Typed'
  <2>1. PICK m \in Live : UpdateStatus(m) /\ RequestDispatch(o, m)
    BY <1>8, <1>b, StatusLive DEF NoSnapshot, InstanceStatus, dispatchableStatuses, Stages
  <2>2. DbOK' /\ MemOK'
    BY <1>0, <2>1, UpdateType, RequestType
  <2>3. ReservedOK' /\ PortsOK' /\ CredOK' /\ RetryOK' /\ RestOK'
    BY <1>0, <1>8 DEF NoSnapshot, ReservedOK, PortsOK, CredOK, RetryOK, RestOK
  <2> QED BY <2>2, <2>3, TypedNext
<1> QED BY <1>1, <1>2, <1>3, <1>4, <1>5, <1>6, <1>7, <1>8 DEF Dispatch

-----------------------------------------------------------------------------
(* The pollers.                                                            *)

LEMMA PollTyped ==
  ASSUME Typed, NEW o \in Objects, Poll(o)
  PROVE  Typed'
<1>0. DbOK /\ MemOK /\ ReservedOK /\ PortsOK /\ CredOK /\ RetryOK /\ RestOK
  BY TypedParts
<1>a. mem[o].at # "free"
  BY DEF Poll, onPrepareBuildSucceeded, onRestoreSnapshotSucceeded, onStartInstanceSucceeded,
         onStopInstanceSucceeded, onCleanInstanceSucceeded, PollRetried, PollExhausted,
         PollFailed, onCacheWarmReady, WarmFailed, Polled
<1>b. mem[o] \in Live /\ mem[o].inst \in Instances
  BY <1>0, <1>a DEF MemOK, InUse, Live
<1>1. ASSUME onPrepareBuildSucceeded(o) PROVE Typed'
  <2>1. PICK m \in Live : RequestDispatch(o, m)
    BY <1>1, <1>b, StatusLive DEF onPrepareBuildSucceeded, InstanceStatus, dispatchableStatuses, Stages
  <2>2. MemOK' /\ RetryOK'
    BY <1>0, <1>b, <1>1, <2>1, RequestType, RetryType DEF onPrepareBuildSucceeded
  <2>3. DbOK' /\ ReservedOK' /\ PortsOK' /\ CredOK' /\ RestOK'
    BY <1>0, <1>1 DEF onPrepareBuildSucceeded, DbOK, ReservedOK, PortsOK, CredOK, RestOK
  <2> QED BY <2>2, <2>3, TypedNext
<1>2. ASSUME onRestoreSnapshotSucceeded(o) \/ onStopInstanceSucceeded(o) PROVE Typed'
  <2>1. PICK m \in Live : UpdateStatus(m) /\ RequestDispatch(o, m)
    BY <1>2, <1>b, StatusLive
    DEF onRestoreSnapshotSucceeded, onStopInstanceSucceeded, InstanceStatus, dispatchableStatuses, Stages
  <2>2. DbOK' /\ MemOK' /\ RetryOK'
    BY <1>0, <1>b, <1>2, <2>1, UpdateType, RequestType, RetryType
    DEF onRestoreSnapshotSucceeded, onStopInstanceSucceeded
  <2>3. ReservedOK' /\ PortsOK' /\ CredOK' /\ RestOK'
    BY <1>0, <1>2
    DEF onRestoreSnapshotSucceeded, onStopInstanceSucceeded, ReservedOK, PortsOK, CredOK, RestOK
  <2> QED BY <2>2, <2>3, TypedNext
<1>3. ASSUME onStartInstanceSucceeded(o) PROVE Typed'
  <2>1. PICK m \in Live : UpdateStatus(m)
    BY <1>3, <1>b, StatusLive DEF onStartInstanceSucceeded, InstanceStatus
  <2>2. DbOK' /\ MemOK' /\ RetryOK'
    BY <1>0, <1>b, <1>3, <2>1, UpdateType, DropType, RetryType DEF onStartInstanceSucceeded
  <2>3. ReservedOK' /\ PortsOK' /\ CredOK' /\ RestOK'
    BY <1>0, <1>3 DEF onStartInstanceSucceeded, ReservedOK, PortsOK, CredOK, RestOK
  <2> QED BY <2>2, <2>3, TypedNext
<1>4. ASSUME onCleanInstanceSucceeded(o) PROVE Typed'
  <2> DEFINE m == [mem[o] EXCEPT !.status = "Stopped", !.agent = NoAgent]
  <2>1. m \in Live /\ Save(m)
    BY <1>4, <1>b DEF onCleanInstanceSucceeded, Live, InstanceStatus
  <2>2. DbOK' /\ MemOK' /\ RetryOK'
    BY <1>0, <1>b, <1>4, <2>1, SaveType, DropType, RetryType DEF onCleanInstanceSucceeded
  <2>3. ReservedOK' /\ CredOK'
    BY <1>0, <1>b, <1>4, ReleasedType, CredReleased DEF onCleanInstanceSucceeded, ReservedOK, CredOK
  <2>4. PortsOK' /\ RestOK'
    BY <1>0, <1>b, <1>4 DEF onCleanInstanceSucceeded, PortsOK, RestOK
  <2> QED BY <2>2, <2>3, <2>4, TypedNext
<1>5. ASSUME PollRetried(o) PROVE Typed'
  <2>1. MemOK' /\ RetryOK'
    BY <1>0, <1>b, <1>5, RequestType, RetryType DEF PollRetried
  <2>2. DbOK' /\ ReservedOK' /\ PortsOK' /\ CredOK' /\ RestOK'
    BY <1>0, <1>5 DEF PollRetried, DbOK, ReservedOK, PortsOK, CredOK, RestOK
  <2> QED BY <2>1, <2>2, TypedNext
<1>6. ASSUME PollExhausted(o) \/ PollFailed(o) \/ WarmFailed(o) PROVE Typed'
  <2>1. DbOK' /\ MemOK' /\ ReservedOK' /\ CredOK' /\ PortsOK' /\ RestOK'
    BY <1>6, <1>b, FailedType DEF PollExhausted, PollFailed, WarmFailed
  <2>2. RetryOK'
    BY <1>0, <1>b, <1>6, RetryType DEF PollExhausted, PollFailed, WarmFailed, RetryOK
  <2> QED BY <2>1, <2>2, TypedNext
<1>7. ASSUME onCacheWarmReady(o) PROVE Typed'
  <2>1. PICK m \in Live : Save(m) /\ RequestDispatch(o, m)
    BY <1>7, <1>b, StatusLive DEF onCacheWarmReady, InstanceStatus, dispatchableStatuses, Stages
  <2>2. DbOK' /\ MemOK'
    BY <1>0, <2>1, SaveType, RequestType
  <2>3. ReservedOK' /\ PortsOK' /\ CredOK' /\ RetryOK' /\ RestOK'
    BY <1>0, <1>7 DEF onCacheWarmReady, ReservedOK, PortsOK, CredOK, RetryOK, RestOK
  <2> QED BY <2>2, <2>3, TypedNext
<1> QED BY <1>1, <1>2, <1>3, <1>4, <1>5, <1>6, <1>7 DEF Poll

-----------------------------------------------------------------------------
(* The API, the watch, the reaper and the waker.                           *)

LEMMA EnvironmentTyped ==
  ASSUME Typed, NEW o \in Objects, Environment(o)
  PROVE  Typed'
<1>0. DbOK /\ MemOK /\ ReservedOK /\ PortsOK /\ CredOK /\ RetryOK /\ RestOK
  BY TypedParts
<1>1. ASSUME NEW i \in Instances,
             \/ BeginStart(o, i) \/ BeginStop(o, i) \/ BeginConfig(o, i) \/ BeginCancel(o, i)
             \/ BeginDelete(o, i) \/ BeginWatch(o, i) \/ BeginReap(o, i)
             \/ Wake(o, i) \/ ForceDispatch(o, i)
      PROVE  Typed'
  <2>1. db[i].status \in InstanceStatus
    BY <1>1 DEF BeginStart, BeginStop, BeginConfig, BeginCancel, BeginDelete, BeginWatch,
                BeginReap, Wake, ForceDispatch, Exists, IsStopFailure, InstanceStatus,
                dispatchableStatuses, Stages
  <2>2. PICK k \in Places \ {"free"} : Begin(o, i, k)
    BY <1>1 DEF BeginStart, BeginStop, BeginConfig, BeginCancel, BeginDelete, BeginWatch,
                BeginReap, Wake, ForceDispatch, Places
  <2> QED BY <2>1, <2>2, BeginType
<1>2. ASSUME mem[o].at # "free" PROVE mem[o] \in Live /\ mem[o].inst \in Instances
  BY <1>0, <1>2 DEF MemOK, InUse, Live
<1>3. ASSUME StartGameInstance(o) PROVE Typed'
  <2>1. PICK m \in Live : Save(m) /\ RequestDispatch(o, m)
    BY <1>2, <1>3, StatusLive DEF StartGameInstance, InstanceStatus, dispatchableStatuses
  <2>2. DbOK' /\ MemOK'
    BY <1>0, <2>1, SaveType, RequestType
  <2>3. ReservedOK' /\ PortsOK' /\ CredOK' /\ RetryOK' /\ RestOK'
    BY <1>0, <1>3 DEF StartGameInstance, ReservedOK, PortsOK, CredOK, RetryOK, RestOK
  <2> QED BY <2>2, <2>3, TypedNext
<1>4. ASSUME StopGameInstance(o) PROVE Typed'
  <2>1. PICK m \in Live : UpdateStatus(m) /\ RequestDispatch(o, m)
    BY <1>2, <1>4, StatusLive DEF StopGameInstance, InstanceStatus, dispatchableStatuses, Stages
  <2>2. DbOK' /\ MemOK'
    BY <1>0, <2>1, UpdateType, RequestType
  <2>3. ReservedOK' /\ PortsOK' /\ CredOK' /\ RetryOK' /\ RestOK'
    BY <1>0, <1>4 DEF StopGameInstance, ReservedOK, PortsOK, CredOK, RetryOK, RestOK
  <2> QED BY <2>2, <2>3, TypedNext
<1>5. ASSUME NEW cfg \in Configs, UpdateInstanceConfig(o, cfg) PROVE Typed'
  <2> DEFINE m == [mem[o] EXCEPT !.cfg = cfg]
  <2>1. m \in Live /\ Save(m) /\ Drop(o)
    BY <1>2, <1>5 DEF UpdateInstanceConfig, Live
  <2>2. DbOK' /\ MemOK'
    BY <1>0, <2>1, SaveType, DropType
  <2>3. ReservedOK' /\ PortsOK' /\ CredOK' /\ RetryOK' /\ RestOK'
    BY <1>0, <1>5 DEF UpdateInstanceConfig, ReservedOK, PortsOK, CredOK, RetryOK, RestOK
  <2> QED BY <2>2, <2>3, TypedNext
<1>6. ASSUME CancelQueued(o) PROVE Typed'
  <2>1. PICK m \in Live : Save(m) /\ Drop(o)
    BY <1>2, <1>6, StatusLive DEF CancelQueued, InstanceStatus
  <2>2. DbOK' /\ MemOK'
    BY <1>0, <2>1, SaveType, DropType
  <2>3. ReservedOK' /\ PortsOK' /\ CredOK' /\ RetryOK' /\ RestOK'
    BY <1>0, <1>6 DEF CancelQueued, ReservedOK, PortsOK, CredOK, RetryOK, RestOK
  <2> QED BY <2>2, <2>3, TypedNext
<1>7. ASSUME DeleteGameInstance(o) PROVE Typed'
  <2>0. mem[o].inst \in Instances /\ Drop(o)
    BY <1>2, <1>7 DEF DeleteGameInstance
  <2>1. [RowOf(FreeObject) EXCEPT !.status = "deleted"] \in Row
    BY FreeObjectType DEF Row
  <2>2. DbOK' /\ PortsOK'
    BY <1>0, <1>7, <2>0, <2>1 DEF DeleteGameInstance, DbOK, PortsOK
  <2>3. MemOK'
    BY <1>0, <2>0, DropType
  <2>4. ReservedOK' /\ CredOK' /\ RetryOK' /\ RestOK'
    BY <1>0, <1>7 DEF DeleteGameInstance, ReservedOK, CredOK, RetryOK, RestOK
  <2> QED BY <2>2, <2>3, <2>4, TypedNext
<1>8. ASSUME WatchRunningInstances(o) PROVE Typed'
  <2>1. DbOK' /\ MemOK' /\ ReservedOK' /\ CredOK' /\ PortsOK' /\ RestOK'
    BY <1>2, <1>8, FailedType DEF WatchRunningInstances
  <2>2. RetryOK'
    BY <1>0, <1>8 DEF WatchRunningInstances, RetryOK
  <2> QED BY <2>1, <2>2, TypedNext
<1>9. ASSUME reconcileOnce(o) PROVE Typed'
  <2>1. PICK m \in Live : Save(m) /\ Drop(o)
    BY <1>2, <1>9, StatusLive DEF reconcileOnce, InstanceStatus
  <2>2. DbOK' /\ MemOK'
    BY <1>0, <2>1, SaveType, DropType
  <2>3. ReservedOK'
    BY <1>0, <1>2, <1>9, ReleasedType DEF reconcileOnce, ReservedOK
  <2>4. PortsOK' /\ CredOK' /\ RetryOK' /\ RestOK'
    BY <1>0, <1>9 DEF reconcileOnce, PortsOK, CredOK, RetryOK, RestOK
  <2> QED BY <2>2, <2>3, <2>4, TypedNext
<1> QED BY <1>1, <1>3, <1>4, <1>5, <1>6, <1>7, <1>8, <1>9 DEF Environment

-----------------------------------------------------------------------------
(* Crashes, and the remaining steps.                                       *)

LEMMA LostType == MemoryLost => MemOK' /\ RetryOK' /\ waker' = NoInst /\ up' = "down"
BY FreeObjectType, LifecycleAssumption DEF MemoryLost, MemOK, InUse, RetryOK

LEMMA FailuresTyped ==
  ASSUME Typed, Failures
  PROVE  Typed'
<1>0. DbOK /\ MemOK /\ ReservedOK /\ PortsOK /\ CredOK /\ RetryOK /\ RestOK
  BY TypedParts
<1>1. ASSUME Crash PROVE Typed'
  BY <1>0, <1>1, LostType, TypedNext
  DEF Crash, DbOK, ReservedOK, PortsOK, CredOK, RestOK
<1>2. ASSUME NEW o \in Objects, CrashAfterRelease(o) PROVE Typed'
  <2>1. mem[o] \in Live /\ mem[o].inst \in Instances
    BY <1>0, <1>2 DEF CrashAfterRelease, MemOK, InUse, Live
  <2>2. ReservedOK' /\ CredOK'
    BY <1>0, <1>2, <2>1, ReleasedType, CredReleased DEF CrashAfterRelease, ReservedOK, CredOK
  <2>3. DbOK' /\ PortsOK' /\ MemOK' /\ RetryOK' /\ RestOK'
    BY <1>0, <1>2, LostType DEF CrashAfterRelease, DbOK, PortsOK, RestOK
  <2> QED BY <2>2, <2>3, TypedNext
<1>3. ASSUME NEW o \in Objects, NEW a \in Agents, NEW p \in HostPorts,
             NEW s \in {"CacheWarming", "PreparingBuild"}, CrashAfterReserve(o, a, p, s)
      PROVE  Typed'
  <2>1. mem[o].inst \in Instances
    BY <1>0, <1>3 DEF CrashAfterReserve, Taken, MemOK, InUse, Live
  <2>2. ReservedOK' /\ PortsOK'
    BY <1>0, <1>3, <2>1, ReserveType DEF CrashAfterReserve
  <2>3. DbOK'
    <3>1. CASE db' = db
      BY <1>0, <3>1 DEF DbOK
    <3>2. CASE db' = [db EXCEPT ![mem[o].inst].agent = a, ![mem[o].inst].status = s]
      BY <1>0, <2>1, <3>2 DEF DbOK, Row, InstanceStatus, dispatchableStatuses, Stages
    <3> QED BY <1>3, <3>1, <3>2 DEF CrashAfterReserve
  <2>4. CredOK' /\ MemOK' /\ RetryOK' /\ RestOK'
    BY <1>0, <1>3, LostType DEF CrashAfterReserve, CredOK, RestOK
  <2> QED BY <2>2, <2>3, <2>4, TypedNext
<1>4. ASSUME Recover PROVE Typed'
  <2> DEFINE todo == {i \in Instances : db[i].status \in dispatchableStatuses}
  <2>1. PICK f : mem' = [o \in Objects |-> IF \E i \in todo : f[i] = o
                                           THEN Copy(CHOOSE i \in todo : f[i] = o, "queue")
                                           ELSE mem[o]]
    BY <1>4 DEF Recover
  <2>2. \A i \in todo : Copy(i, "queue") \in Live
    BY <1>0, CopyType DEF InstanceStatus, Places
  <2>3. \A o \in Objects : mem'[o] \in Live \/ mem'[o] = mem[o]
    BY <2>1, <2>2
  <2>4. MemOK'
    BY <1>0, <2>1, <2>3, LiveType DEF MemOK, InUse
  <2>5. DbOK' /\ ReservedOK' /\ PortsOK' /\ CredOK' /\ RetryOK' /\ RestOK'
    BY <1>0, <1>4 DEF Recover, DbOK, ReservedOK, PortsOK, CredOK, RetryOK, RestOK
  <2> QED BY <2>4, <2>5, TypedNext
<1> QED BY <1>1, <1>2, <1>3, <1>4 DEF Failures

LEMMA OthersTyped ==
  ASSUME Typed, \/ \E i \in Instances, req \in {"nil", "set"}, cfg \in Configs :
                     CreateGameInstance(i, req, cfg)
                \/ \E i \in Instances : WakeStale(i)
                \/ WakeDequeue
                \/ UNCHANGED vars
  PROVE  Typed'
<1>0. DbOK /\ MemOK /\ ReservedOK /\ PortsOK /\ CredOK /\ RetryOK /\ RestOK
  BY TypedParts
<1>1. ASSUME NEW i \in Instances, NEW req \in {"nil", "set"}, NEW cfg \in Configs,
             CreateGameInstance(i, req, cfg)
      PROVE  Typed'
  <2>1. DbOK'
    BY <1>0, <1>1 DEF CreateGameInstance, DbOK, Row, InstanceStatus
  <2>2. MemOK' /\ ReservedOK' /\ PortsOK' /\ CredOK' /\ RetryOK' /\ RestOK'
    BY <1>0, <1>1 DEF CreateGameInstance, MemOK, InUse, ReservedOK, PortsOK, CredOK, RetryOK, RestOK
  <2> QED BY <2>1, <2>2, TypedNext
<1>2. ASSUME \/ \E i \in Instances : WakeStale(i)
             \/ WakeDequeue
             \/ UNCHANGED vars
      PROVE  Typed'
  <2>1. RestOK'
    BY <1>0, <1>2 DEF WakeStale, WakeDequeue, vars, RestOK
  <2>2. DbOK' /\ MemOK' /\ ReservedOK' /\ PortsOK' /\ CredOK' /\ RetryOK'
    BY <1>0, <1>2 DEF WakeStale, WakeDequeue, vars, DbOK, MemOK, InUse, ReservedOK, PortsOK, CredOK, RetryOK
  <2> QED BY <2>1, <2>2, TypedNext
<1> QED BY <1>1, <1>2

LEMMA TypedStep == Typed /\ [Next]_vars => Typed'
BY DispatchTyped, PollTyped, EnvironmentTyped, FailuresTyped, OthersTyped DEF Next

LEMMA InitTyped == Init => Typed
<1> SUFFICES ASSUME Init PROVE Typed
  OBVIOUS
<1>1. DbOK /\ MemOK
  BY FreeObjectType DEF Init, DbOK, MemOK, InUse
<1>2. ReservedOK /\ PortsOK /\ CredOK /\ RetryOK /\ RestOK
  BY LifecycleAssumption DEF Init, ReservedOK, PortsOK, CredOK, RetryOK, RestOK
<1> QED BY <1>1, <1>2, TypedParts

\* Rows, copies, counters and mappings keep their types whatever overlaps;
\* in particular a reserved counter never goes below zero (Release clamps)
\* and a retry count never passes OPERATION_RETRY_MAX.
THEOREM TypeCorrect == Spec => []TypeOK
<1>1. Typed => TypeOK
  BY DEF Typed
<1> QED BY <1>1, InitTyped, TypedStep, PTL DEF Spec

-----------------------------------------------------------------------------
(* What a step does to the holdings: it takes a reservation and a port, it *)
(* allocates a credential, or it gives back.                               *)

Takes == /\ \E i \in Instances, a \in Agents, p \in HostPorts : TryReserve(i, a, p)
         /\ UNCHANGED cred
Allocates == /\ \E i \in Instances : AllocateForInstance(i)
             /\ UNCHANGED <<reserved, ports>>
Gives == /\ UNCHANGED reserved \/ \E m \in Live : reserved' = Released(m)
         /\ UNCHANGED ports \/ \E i \in Instances : ports' = [ports EXCEPT ![i] = {}]
         /\ UNCHANGED cred \/ \E i \in Instances : cred' = ReleaseByInstance(i)

LEMMA FailedGives ==
  ASSUME NEW o \in Objects, mem[o] \in Live, FailedInstance(o)
  PROVE  Gives
<1>1. mem[o].inst \in Instances
  BY DEF Live
<1>2. UNCHANGED reserved \/ reserved' = Released(mem[o])
  BY DEF FailedInstance
<1>3. UNCHANGED ports /\ cred' = ReleaseByInstance(mem[o].inst)
  BY DEF FailedInstance
<1> QED BY <1>1, <1>2, <1>3 DEF Gives

LEMMA AllocateHeld ==
  ASSUME NEW o \in Objects, mem[o].inst \in Instances, Allocate(o), UNCHANGED <<reserved, ports>>
  PROVE  Allocates \/ Gives
<1>1. AllocateForInstance(mem[o].inst) \/ UNCHANGED cred
  BY Zenon DEF Allocate
<1> QED BY <1>1 DEF Allocates, Gives

LEMMA DispatchHeld ==
  ASSUME Typed, NEW o \in Objects, Dispatch(o)
  PROVE  Takes \/ Allocates \/ Gives
<1>a. mem[o].at = "queue"
  BY DEF Dispatch, DispatchPending, ScheduleScheduled, ScheduleQueued, ScheduleStillQueued,
         ScheduleTimeout, ScheduleFailed, StageFailed, StageSent, StageRetried, StageExhausted,
         NoSnapshot, DispatchDefault, Taken
<1>b. mem[o] \in Live /\ mem[o].inst \in Instances
  BY <1>a, TypedParts DEF MemOK, InUse, Live
<1>1. ASSUME \/ DispatchPending(o) \/ ScheduleQueued(o) \/ ScheduleStillQueued(o)
             \/ ScheduleTimeout(o) \/ NoSnapshot(o) \/ DispatchDefault(o)
      PROVE  Gives
  BY <1>1 DEF DispatchPending, ScheduleQueued, ScheduleStillQueued, ScheduleTimeout,
              NoSnapshot, DispatchDefault, Gives
<1>2. ASSUME NEW a \in Agents, NEW p \in HostPorts, NEW s \in {"CacheWarming", "PreparingBuild"},
             ScheduleScheduled(o, a, p, s)
      PROVE  Takes
  <2>1. TryReserve(mem[o].inst, a, p) /\ UNCHANGED cred
    BY <1>2 DEF ScheduleScheduled
  <2> QED BY <1>b, <2>1 DEF Takes
<1>3. ASSUME ScheduleFailed(o) \/ StageFailed(o) \/ StageExhausted(o) PROVE Gives
  BY <1>3, <1>b, FailedGives DEF ScheduleFailed, StageFailed, StageExhausted
<1>4. ASSUME StageSent(o) \/ StageRetried(o) PROVE Allocates \/ Gives
  <2>1. Allocate(o) /\ UNCHANGED <<reserved, ports>>
    BY <1>4 DEF StageSent, StageRetried
  <2> QED BY <1>b, <2>1, AllocateHeld
<1> QED BY <1>1, <1>2, <1>3, <1>4 DEF Dispatch

LEMMA PollHeld ==
  ASSUME Typed, NEW o \in Objects, Poll(o)
  PROVE  Gives
<1>a. mem[o].at # "free"
  BY DEF Poll, onPrepareBuildSucceeded, onRestoreSnapshotSucceeded, onStartInstanceSucceeded,
         onStopInstanceSucceeded, onCleanInstanceSucceeded, PollRetried, PollExhausted,
         PollFailed, onCacheWarmReady, WarmFailed, Polled
<1>b. mem[o] \in Live /\ mem[o].inst \in Instances
  BY <1>a, TypedParts DEF MemOK, InUse, Live
<1>1. ASSUME \/ onPrepareBuildSucceeded(o) \/ onRestoreSnapshotSucceeded(o)
             \/ onStartInstanceSucceeded(o) \/ onStopInstanceSucceeded(o)
             \/ PollRetried(o) \/ onCacheWarmReady(o)
      PROVE  Gives
  BY <1>1 DEF onPrepareBuildSucceeded, onRestoreSnapshotSucceeded, onStartInstanceSucceeded,
              onStopInstanceSucceeded, PollRetried, onCacheWarmReady, Gives
<1>2. ASSUME onCleanInstanceSucceeded(o) PROVE Gives
  <2>1. /\ reserved' = Released(mem[o])
        /\ ports' = [ports EXCEPT ![mem[o].inst] = {}]
        /\ cred' = ReleaseByInstance(mem[o].inst)
    BY <1>2 DEF onCleanInstanceSucceeded
  <2> QED BY <1>b, <2>1 DEF Gives
<1>3. ASSUME PollExhausted(o) \/ PollFailed(o) \/ WarmFailed(o) PROVE Gives
  BY <1>3, <1>b, FailedGives DEF PollExhausted, PollFailed, WarmFailed
<1> QED BY <1>1, <1>2, <1>3 DEF Poll

LEMMA EnvironmentHeld ==
  ASSUME Typed, NEW o \in Objects, Environment(o)
  PROVE  Gives
<1>b. mem[o].at # "free" => mem[o] \in Live /\ mem[o].inst \in Instances
  BY TypedParts DEF MemOK, InUse, Live
<1>1. ASSUME NEW i \in Instances,
             \/ BeginStart(o, i) \/ BeginStop(o, i) \/ BeginConfig(o, i) \/ BeginCancel(o, i)
             \/ BeginDelete(o, i) \/ BeginWatch(o, i) \/ BeginReap(o, i)
             \/ Wake(o, i) \/ ForceDispatch(o, i)
      PROVE  Gives
  BY <1>1 DEF BeginStart, BeginStop, BeginConfig, BeginCancel, BeginDelete, BeginWatch, BeginReap,
              Wake, ForceDispatch, Begin, Gives
<1>2. ASSUME \/ StartGameInstance(o) \/ StopGameInstance(o) \/ CancelQueued(o)
             \/ \E cfg \in Configs : UpdateInstanceConfig(o, cfg)
      PROVE  Gives
  BY <1>2 DEF StartGameInstance, StopGameInstance, UpdateInstanceConfig, CancelQueued, Gives
<1>3. ASSUME DeleteGameInstance(o) PROVE Gives
  <2>1. /\ mem[o].at # "free"
        /\ ports' = [ports EXCEPT ![mem[o].inst] = {}]
        /\ UNCHANGED <<reserved, cred>>
    BY <1>3 DEF DeleteGameInstance
  <2> QED BY <1>b, <2>1 DEF Gives
<1>4. ASSUME WatchRunningInstances(o) PROVE Gives
  BY <1>4, <1>b, FailedGives DEF WatchRunningInstances
<1>5. ASSUME reconcileOnce(o) PROVE Gives
  <2>1. mem[o].at # "free" /\ reserved' = Released(mem[o]) /\ UNCHANGED <<ports, cred>>
    BY <1>5 DEF reconcileOnce
  <2> QED BY <1>b, <2>1 DEF Gives
<1> QED BY <1>1, <1>2, <1>3, <1>4, <1>5 DEF Environment

LEMMA FailuresHeld ==
  ASSUME Typed, Failures
  PROVE  Takes \/ Gives
<1>b. \A o \in Objects : mem[o].at # "free" => mem[o] \in Live /\ mem[o].inst \in Instances
  BY TypedParts DEF MemOK, InUse, Live
<1>1. ASSUME Crash \/ Recover PROVE Gives
  BY <1>1 DEF Crash, Recover, Gives
<1>2. ASSUME NEW o \in Objects, CrashAfterRelease(o) PROVE Gives
  <2>1. /\ mem[o].at # "free"
        /\ reserved' = Released(mem[o])
        /\ cred' = ReleaseByInstance(mem[o].inst)
        /\ UNCHANGED ports
    BY <1>2 DEF CrashAfterRelease
  <2> QED BY <1>b, <2>1 DEF Gives
<1>3. ASSUME NEW o \in Objects, NEW a \in Agents, NEW p \in HostPorts,
             NEW s \in {"CacheWarming", "PreparingBuild"}, CrashAfterReserve(o, a, p, s)
      PROVE  Takes
  <2>1. mem[o].at # "free" /\ TryReserve(mem[o].inst, a, p) /\ UNCHANGED cred
    BY <1>3 DEF CrashAfterReserve, Taken
  <2> QED BY <1>b, <2>1 DEF Takes
<1> QED BY <1>1, <1>2, <1>3 DEF Failures

LEMMA StepHeld == Typed /\ [Next]_vars => Takes \/ Allocates \/ Gives
<1>1. ASSUME \/ \E i \in Instances, req \in {"nil", "set"}, cfg \in Configs :
                  CreateGameInstance(i, req, cfg)
             \/ \E i \in Instances : WakeStale(i)
             \/ WakeDequeue
             \/ UNCHANGED vars
      PROVE  Gives
  BY <1>1 DEF CreateGameInstance, WakeStale, WakeDequeue, vars, Gives
<1> QED BY <1>1, DispatchHeld, PollHeld, EnvironmentHeld, FailuresHeld DEF Next

LEMMA CapacityInit == Init => WithinCapacity
BY LifecycleAssumption DEF Init, WithinCapacity

LEMMA CapacityStep == Typed /\ WithinCapacity /\ [Next]_vars => WithinCapacity'
<1> SUFFICES ASSUME Typed, WithinCapacity, [Next]_vars PROVE WithinCapacity'
  OBVIOUS
<1>0. ReservedOK
  BY TypedParts
<1>1. CASE Takes
  BY <1>0, <1>1, LifecycleAssumption DEF Takes, TryReserve, WithinCapacity, ReservedOK
<1>2. CASE UNCHANGED reserved
  BY <1>2 DEF WithinCapacity
<1>3. ASSUME NEW m \in Live, reserved' = Released(m) PROVE WithinCapacity'
  <2> SUFFICES ASSUME NEW a \in Agents PROVE reserved'[a] <= Cap[a]
    BY DEF WithinCapacity
  <2>1. Released(m)[a] \in Nat /\ Released(m)[a] <= reserved[a]
    BY <1>0, ReleasedType
  <2>2. reserved[a] \in Nat /\ reserved[a] <= Cap[a] /\ Cap[a] \in Nat
    BY <1>0, LifecycleAssumption DEF WithinCapacity, ReservedOK
  <2> QED BY <1>3, <2>1, <2>2
<1> QED BY <1>1, <1>2, <1>3, StepHeld DEF Allocates, Gives

\* No interleaving of schedulings, stops, failures, reaper runs, deletes and
\* crashes reserves more than a node's capacity: TryReserve's recheck inside
\* the transaction suffices.
THEOREM CapacityHolds == Spec => []WithinCapacity
BY CapacityInit, CapacityStep, InitTyped, TypedStep, PTL DEF Spec

\* No host port of a node is ever mapped for two instances.
THEOREM PortsHold == Spec => []PortsExclusive
<1>1. Init => PortsExclusive
  BY DEF Init, PortsExclusive
<1>2. ASSUME Typed, PortsExclusive, [Next]_vars PROVE PortsExclusive'
  <2>0. PortsOK
    BY <1>2, TypedParts
  <2>1. ASSUME NEW i \in Instances, NEW a \in Agents, NEW p \in HostPorts, TryReserve(i, a, p)
        PROVE  PortsExclusive'
    <3>1. \A j \in Instances : <<a, p>> \notin ports[j]
      BY <2>1 DEF TryReserve, PlanPorts, FreePorts
    <3>2. \A j \in Instances : ports'[j] = IF j = i THEN ports[j] \cup {<<a, p>>} ELSE ports[j]
      BY <2>0, <2>1 DEF TryReserve, PortsOK
    <3> QED BY <1>2, <3>1, <3>2 DEF PortsExclusive
  <2>2. CASE UNCHANGED ports
    BY <1>2, <2>2 DEF PortsExclusive
  <2>3. ASSUME NEW i \in Instances, ports' = [ports EXCEPT ![i] = {}] PROVE PortsExclusive'
    BY <1>2, <2>0, <2>3 DEF PortsExclusive, PortsOK
  <2> QED BY <1>2, <2>1, <2>2, <2>3, StepHeld DEF Takes, Allocates, Gives
<1> QED BY <1>1, <1>2, InitTyped, TypedStep, PTL DEF Spec

\* However often an instance is started, restarted after a crash or
\* dispatched twice, it has at most one credential of a pool in use.
THEOREM CredentialsHold == Spec => []OneCredential
<1>1. Init => OneCredential
  BY DEF Init, OneCredential
<1>2. ASSUME Typed, OneCredential, [Next]_vars PROVE OneCredential'
  <2>0. CredOK
    BY <1>2, TypedParts
  <2>1. ASSUME NEW i \in Instances, AllocateForInstance(i) PROVE OneCredential'
    <3>1. CASE UNCHANGED cred
      BY <1>2, <3>1 DEF OneCredential
    <3>2. CASE ~ UNCHANGED cred
      <4>1. ~ Holds(i) /\ \E c \in Creds : cred' = [cred EXCEPT ![c] = i]
        BY <2>1, <3>2, Zenon DEF AllocateForInstance
      <4>2. \A c \in Creds : cred[c] # i
        BY <4>1 DEF Holds
      <4>3. PICK c \in Creds : cred' = [cred EXCEPT ![c] = i]
        BY <4>1
      <4> QED BY <1>2, <2>0, <4>2, <4>3 DEF OneCredential, CredOK
    <3> QED BY <3>1, <3>2
  <2>2. CASE UNCHANGED cred
    BY <1>2, <2>2 DEF OneCredential
  <2>3. ASSUME NEW i \in Instances, cred' = ReleaseByInstance(i) PROVE OneCredential'
    BY <1>2, <2>0, <2>3 DEF ReleaseByInstance, OneCredential, CredOK
  <2> QED BY <1>2, <2>1, <2>2, <2>3, StepHeld DEF Takes, Allocates, Gives
<1> QED BY <1>1, <1>2, InitTyped, TypedStep, PTL DEF Spec

-----------------------------------------------------------------------------
(* The nominal controller: the API calls of one instance do not overlap    *)
(* each other nor the dispatcher, and neither the reaper, the deletion of  *)
(* a running instance, ForceDispatch nor a crash within a transaction's    *)
(* aftermath takes part; plain crashes do.                                 *)

Nominal == Overlap = {} /\ Ops \cap {"deleteRunning", "reap", "force", "crashMid"} = {}

\* A row and the ports of its instance: bound rows have a node and a port
\* there; a failed stop keeps both and forgets the request.
RowFits(r, P) ==
  /\ r.status \in Bound => r.agent # NoAgent
  /\ r.status \notin Bound \cup {"Failed"} => r.agent = NoAgent
  /\ r.status = "Failed" /\ r.agent # NoAgent => r.req = "nil"
  /\ r.agent # NoAgent => \E p \in HostPorts : <<r.agent, p>> \in P

\* A copy and the row it was read from.
Agrees(m, r) ==
  \/ RowOf(m) = r
  \/ /\ m.status = "RestoringSnapshot" /\ r.status = "PreparingBuild"
     /\ RowOf(m) = [r EXCEPT !.status = "RestoringSnapshot"]

\* Who works on a copy of which status.
PlaceFits(m) ==
  /\ m.at = "queue" => m.status \in dispatchableStatuses
  /\ m.at = "poll" => m.status \in Stages \ {"CacheWarming"}
  /\ m.at = "warm" => m.status = "CacheWarming"
  /\ m.at = "start" => m.status \in {"Stopped", "Failed"} /\ m.agent = NoAgent
  /\ m.at = "stop" => m.status \in {"Running", "Failed"} /\ m.agent # NoAgent
  /\ m.at = "config" => m.status \in {"Running", "Stopped", "Failed", "Queued"}
  /\ m.at = "cancel" => m.status = "Queued"
  /\ m.at = "delete" => m.status \in {"Queued", "Stopped", "Failed"}
  /\ m.at = "watch" => m.status = "Running"
  /\ m.at # "reap"

RowsFit == \A i \in Instances : RowFits(db[i], ports[i])

CopiesFit == \A o \in Objects : /\ mem[o].at = "free" => mem[o].inst = NoInst
                                /\ mem[o].at # "free" => Agrees(mem[o], db[mem[o].inst]) /\ PlaceFits(mem[o])

\* No instance has two copies.
Single == \A o, q \in Objects : mem[o].at # "free" /\ mem[o].inst = mem[q].inst => o = q

\* An instance that waits has its queue row, any other unfinished one a copy.
QueueFits == /\ \A i \in Instances : db[i].status = "Queued" => i \in qrow
             /\ \A i \in Instances : up = "up" /\ db[i].status \in dispatchableStatuses \ {"Queued"} => InMemory(i)

\* The waker deletes the row of an instance that nobody works on; between a
\* crash and Recover nobody works at all.
WakerFits == /\ waker # NoInst => ~InMemory(waker) /\ db[waker].status # "Queued"
             /\ up = "down" => waker = NoInst /\ \A o \in Objects : mem[o].at = "free"

Uses == {"Starting", "Running", "Stopping", "Cleaning"}
CredsFit == /\ \A i \in Instances : Holds(i) => db[i].status \in Uses
            /\ \A i \in CredUsers : db[i].status = "Running" => Holds(i)
            /\ \A o \in Objects : mem[o].at = "poll" /\ mem[o].status = "Starting" /\ mem[o].inst \in CredUsers
                                    => Holds(mem[o].inst)

Fits == RowsFit /\ CopiesFit /\ Single /\ QueueFits /\ WakerFits /\ CredsFit /\ ReservationsExact
NomInv == Typed /\ Fits

-----------------------------------------------------------------------------
(* What a set of instances requests: adding and removing one of them.      *)

LEMMA Least ==
  ASSUME NEW T \in SUBSET Nat, T # {}
  PROVE  \E x \in T : \A y \in T : x <= y
<1> DEFINE R == OpToRel(<, Nat)
<1>1. IsWellFoundedOn(R, Nat)
  BY NatLessThanWellFounded
<1>2. PICK x \in T : \A y \in T : ~(<<y, x>> \in R)
  <2> HIDE DEF R
  <2> QED BY <1>1, WFMin
<1>3. \A y \in T : ~(y < x)
  BY <1>2 DEF OpToRel
<1> QED BY <1>3

\* A property that fails for some set of instances fails for a smallest one.
LEMMA Smallest ==
  ASSUME NEW B \in SUBSET SUBSET Instances, B # {}
  PROVE  \E S \in B : \A T \in B : ~(T \subseteq S /\ T # S)
<1> DEFINE N == {n \in Nat : \E S \in B : n = Cardinality(S)}
<1>1. \A S \in B : IsFiniteSet(S) /\ Cardinality(S) \in Nat
  BY LifecycleAssumption, FS_Subset, FS_CardinalityType
<1>2. PICK n \in N : \A k \in N : n <= k
  BY <1>1, Least
<1>3. PICK S \in B : n = Cardinality(S)
  OBVIOUS
<1>4. ASSUME NEW T \in B, T \subseteq S, T # S PROVE FALSE
  <2>1. Cardinality(T) < Cardinality(S)
    BY <1>1, <1>4, FS_Subset
  <2>2. Cardinality(S) <= Cardinality(T) /\ Cardinality(S) \in Nat /\ Cardinality(T) \in Nat
    BY <1>1, <1>2, <1>3
  <2> QED BY <2>1, <2>2
<1> QED BY <1>4

Pick1(s) == CHOOSE x \in s : TRUE
SumOn(T, g) == g = [s \in SUBSET T |-> IF s = {} THEN 0 ELSE Req[Pick1(s)] + g[s \ {Pick1(s)}]]

LEMMA DemandIs == ASSUME NEW S PROVE Demand(S) = (CHOOSE g : SumOn(S, g))[S]
BY DEF Demand, MapThenSumSet, MapThenFoldSet, SumOn, Pick1

LEMMA Picked == ASSUME NEW s, s # {} PROVE Pick1(s) \in s
BY DEF Pick1

LEMMA SumUnique ==
  ASSUME NEW A \in SUBSET Instances, NEW B \in SUBSET Instances, NEW g, NEW k, SumOn(A, g), SumOn(B, k)
  PROVE  \A v \in SUBSET (A \cap B) : g[v] = k[v]
<1> DEFINE Bad == {v \in SUBSET (A \cap B) : g[v] # k[v]}
<1> SUFFICES ASSUME Bad # {} PROVE FALSE
  OBVIOUS
<1>1. PICK v \in Bad : \A w \in Bad : ~(w \subseteq v /\ w # v)
  <2>1. Bad \in SUBSET SUBSET Instances
    OBVIOUS
  <2> HIDE DEF Bad
  <2> QED BY <2>1, Smallest
<1>2. v # {}
  BY DEF SumOn
<1>3. Pick1(v) \in v
  BY <1>2, Picked
<1>4. v \ {Pick1(v)} \notin Bad
  BY <1>1, <1>3
<1>5. g[v] = Req[Pick1(v)] + g[v \ {Pick1(v)}] /\ k[v] = Req[Pick1(v)] + k[v \ {Pick1(v)}]
  BY <1>1, <1>2 DEF SumOn
<1> QED BY <1>1, <1>4, <1>5

LEMMA SumExists ==
  ASSUME NEW S \in SUBSET Instances
  PROVE  \E g : SumOn(S, g)
<1> DEFINE Bad == {s \in SUBSET Instances : ~ \E g : SumOn(s, g)}
<1> SUFFICES ASSUME Bad # {} PROVE FALSE
  OBVIOUS
<1>1. PICK T \in Bad : \A w \in Bad : ~(w \subseteq T /\ w # T)
  <2>1. Bad \in SUBSET SUBSET Instances
    OBVIOUS
  <2> HIDE DEF Bad
  <2> QED BY <2>1, Smallest
<1> DEFINE G(s) == CHOOSE g : SumOn(s, g)
           h == [s \in SUBSET T |-> IF s = {} THEN 0 ELSE Req[Pick1(s)] + G(s \ {Pick1(s)})[s \ {Pick1(s)}]]
<1>2. \A s \in SUBSET T : s # T => SumOn(s, G(s))
  BY <1>1
<1> HIDE DEF G
<1>3. ASSUME NEW u \in SUBSET T, u # T PROVE G(u)[u] = h[u]
  <2>1. SumOn(u, G(u))
    BY <1>2, <1>3
  <2>2. G(u)[u] = IF u = {} THEN 0 ELSE Req[Pick1(u)] + G(u)[u \ {Pick1(u)}]
    BY <2>1 DEF SumOn
  <2>3. CASE u = {}
    BY <2>2, <2>3
  <2>4. CASE u # {}
    <3>1. Pick1(u) \in u
      BY <2>4, Picked
    <3> DEFINE v == u \ {Pick1(u)}
    <3>2. v \in SUBSET T /\ v # T /\ v \in SUBSET u /\ u \in SUBSET Instances /\ v \in SUBSET Instances
      BY <1>1, <3>1
    <3>3. SumOn(v, G(v))
      BY <1>2, <3>2
    <3> HIDE DEF v
    <3>4. v \in SUBSET (u \cap v)
      BY <3>2
    <3>5. G(u)[v] = G(v)[v]
      BY <2>1, <3>2, <3>3, <3>4, SumUnique
    <3> QED BY <2>2, <2>4, <3>5 DEF v
  <2> QED BY <2>3, <2>4
<1>4. \A s \in SUBSET T : s # {} => G(s \ {Pick1(s)})[s \ {Pick1(s)}] = h[s \ {Pick1(s)}]
  <2> SUFFICES ASSUME NEW s \in SUBSET T, s # {} PROVE G(s \ {Pick1(s)})[s \ {Pick1(s)}] = h[s \ {Pick1(s)}]
    OBVIOUS
  <2>1. Pick1(s) \in s /\ s \ {Pick1(s)} \in SUBSET T /\ s \ {Pick1(s)} # T
    BY Picked
  <2> HIDE DEF h
  <2> QED BY <1>3, <2>1
<1>5. SumOn(T, h)
  <2>1. h = [s \in SUBSET T |-> IF s = {} THEN 0 ELSE Req[Pick1(s)] + h[s \ {Pick1(s)}]]
    BY <1>4
  <2> HIDE DEF h
  <2> QED BY <2>1 DEF SumOn
<1> QED BY <1>1, <1>5

LEMMA DemandStep ==
  ASSUME NEW S \in SUBSET Instances
  PROVE  /\ S = {} => Demand(S) = 0
         /\ S # {} => Demand(S) = Req[Pick1(S)] + Demand(S \ {Pick1(S)})
<1> DEFINE g == CHOOSE x : SumOn(S, x)
<1>1. SumOn(S, g) /\ Demand(S) = g[S]
  BY SumExists, DemandIs
<1> HIDE DEF g
<1>2. g[S] = IF S = {} THEN 0 ELSE Req[Pick1(S)] + g[S \ {Pick1(S)}]
  BY <1>1 DEF SumOn
<1>3. ASSUME S # {} PROVE g[S \ {Pick1(S)}] = Demand(S \ {Pick1(S)})
  <2> DEFINE v == S \ {Pick1(S)}
             k == CHOOSE x : SumOn(v, x)
  <2>1. v \in SUBSET Instances /\ v \in SUBSET (S \cap v)
    OBVIOUS
  <2> HIDE DEF v
  <2>2. SumOn(v, k) /\ Demand(v) = k[v]
    BY <2>1, SumExists, DemandIs
  <2> HIDE DEF k
  <2>3. g[v] = k[v]
    BY ONLY S \in SUBSET Instances, <1>1, <2>1, <2>2, SumUnique
  <2> QED BY <2>2, <2>3 DEF v
<1> QED BY <1>1, <1>2, <1>3

LEMMA DemandType == \A S \in SUBSET Instances : Demand(S) \in Nat
<1> DEFINE Bad == {S \in SUBSET Instances : Demand(S) \notin Nat}
<1> SUFFICES ASSUME Bad # {} PROVE FALSE
  OBVIOUS
<1>1. PICK S \in Bad : \A w \in Bad : ~(w \subseteq S /\ w # S)
  <2>1. Bad \in SUBSET SUBSET Instances
    OBVIOUS
  <2> HIDE DEF Bad
  <2> QED BY <2>1, Smallest
<1>2. S # {} /\ Demand(S) = Req[Pick1(S)] + Demand(S \ {Pick1(S)})
  <2>1. S \in SUBSET Instances /\ Demand(S) # 0
    BY <1>1
  <2> QED BY <2>1, DemandStep
<1>3. Pick1(S) \in S
  BY <1>2, Picked
<1>4. Demand(S \ {Pick1(S)}) \in Nat /\ Req[Pick1(S)] \in Nat
  BY <1>1, <1>3, LifecycleAssumption
<1> QED BY <1>1, <1>2, <1>4

\* The order of summing does not matter.
LEMMA DemandRemoves ==
  ASSUME NEW S \in SUBSET Instances, NEW i \in S
  PROVE  Demand(S) = Req[i] + Demand(S \ {i})
<1> DEFINE Bad == {T \in SUBSET Instances : \E x \in T : Demand(T) # Req[x] + Demand(T \ {x})}
<1> SUFFICES ASSUME Bad # {} PROVE FALSE
  OBVIOUS
<1>1. PICK T \in Bad : \A w \in Bad : ~(w \subseteq T /\ w # T)
  <2>1. Bad \in SUBSET SUBSET Instances
    OBVIOUS
  <2> HIDE DEF Bad
  <2> QED BY <2>1, Smallest
<1>2. PICK x \in T : Demand(T) # Req[x] + Demand(T \ {x})
  BY <1>1
<1> DEFINE c == Pick1(T)
<1>3. c \in T /\ Demand(T) = Req[c] + Demand(T \ {c})
  BY <1>1, <1>2, Picked, DemandStep
<1> HIDE DEF c
<1>4. x # c
  BY <1>2, <1>3
<1>5. T \ {c} \notin Bad /\ T \ {x} \notin Bad /\ T \ {c} \in SUBSET Instances /\ T \ {x} \in SUBSET Instances
  BY <1>1, <1>2, <1>3
<1>6. x \in T \ {c} /\ c \in T \ {x}
  BY <1>2, <1>3, <1>4
<1>7. Demand(T \ {c}) = Req[x] + Demand((T \ {c}) \ {x}) /\ Demand(T \ {x}) = Req[c] + Demand((T \ {x}) \ {c})
  BY <1>5, <1>6
<1>8. (T \ {c}) \ {x} = (T \ {x}) \ {c}
  OBVIOUS
<1>9. Demand((T \ {c}) \ {x}) \in Nat /\ Req[x] \in Nat /\ Req[c] \in Nat
  BY <1>1, <1>2, <1>3, DemandType, LifecycleAssumption
<1> QED BY <1>2, <1>3, <1>7, <1>8, <1>9

-----------------------------------------------------------------------------
(* A step of whoever works on copy o of instance i: the copy becomes n (or *)
(* is dropped), the row becomes r.                                         *)

HoldsAt(r, a) == r.status \in InstanceStatus /\ r.agent = a /\ r.req = "set"

\* The counters follow the row, which does not move to another node.
Accounts(i, r) ==
  /\ \A a, b \in Agents : HoldsAt(db[i], a) /\ HoldsAt(r, b) => a = b
  /\ \A a \in Agents :
    /\ HoldsAt(db[i], a) /\ ~HoldsAt(r, a) => reserved'[a] = Minus(reserved[a], Req[i])
    /\ ~HoldsAt(db[i], a) /\ HoldsAt(r, a) => reserved'[a] = reserved[a] + Req[i]
    /\ (HoldsAt(db[i], a) /\ HoldsAt(r, a)) \/ (~HoldsAt(db[i], a) /\ ~HoldsAt(r, a)) => reserved'[a] = reserved[a]

LEMMA AccountsExact ==
  ASSUME Typed, ReservationsExact, NEW i \in Instances, NEW r \in Row, db' = [db EXCEPT ![i] = r], Accounts(i, r)
  PROVE  ReservationsExact'
<1> SUFFICES ASSUME NEW a \in Agents PROVE reserved'[a] = Demand(Holders(a)')
  BY DEF ReservationsExact
<1> DEFINE H == Holders(a)
           K == Holders(a)'
<1>1. H \in SUBSET Instances /\ K \in SUBSET Instances /\ reserved[a] = Demand(H)
  BY DEF Holders, ReservationsExact
<1>2. db'[i] = r /\ \A j \in Instances : j # i => db'[j] = db[j]
  BY DEF Typed, TypeOK
<1>3. (i \in H <=> HoldsAt(db[i], a)) /\ (i \in K <=> HoldsAt(r, a))
  BY <1>2 DEF Holders, HoldsAt, Exists
<1>4. \A j \in Instances : j # i => (j \in H <=> j \in K)
  BY <1>2 DEF Holders, Exists
<1> HIDE DEF H, K
<1>5. Demand(H) \in Nat /\ Demand(K) \in Nat /\ Req[i] \in Nat
  BY <1>1, DemandType, LifecycleAssumption
<1>6. CASE i \in H /\ i \notin K
  <2>1. K = H \ {i}
    BY <1>1, <1>4, <1>6
  <2>2. Demand(H) = Req[i] + Demand(K)
    BY <1>1, <1>6, <2>1, DemandRemoves
  <2>3. reserved'[a] = Minus(reserved[a], Req[i])
    BY <1>3, <1>6 DEF Accounts
  <2> QED BY <1>1, <1>5, <2>2, <2>3 DEF Minus, K
<1>7. CASE i \notin H /\ i \in K
  <2>1. H = K \ {i}
    BY <1>1, <1>4, <1>7
  <2>2. Demand(K) = Req[i] + Demand(H)
    BY <1>1, <1>7, <2>1, DemandRemoves
  <2>3. reserved'[a] = reserved[a] + Req[i]
    BY <1>3, <1>7 DEF Accounts
  <2> QED BY <1>1, <1>5, <2>2, <2>3 DEF K
<1>8. CASE (i \in H /\ i \in K) \/ (i \notin H /\ i \notin K)
  <2>1. H = K
    BY <1>1, <1>4, <1>8
  <2>2. reserved'[a] = reserved[a]
    BY <1>3, <1>8 DEF Accounts
  <2> QED BY <1>1, <2>1, <2>2 DEF K
<1> QED BY <1>6, <1>7, <1>8

\* What a step does to the copy, the row, the queue, the ports and the
\* credentials of i, and of nobody else.
Works(o, i, n, r) ==
  /\ mem' = [mem EXCEPT ![o] = n] /\ db' = [db EXCEPT ![i] = r]
  /\ n = FreeObject \/ (n \in Live /\ n.inst = i /\ Agrees(n, r) /\ PlaceFits(n))
  /\ n = FreeObject => r.status \notin dispatchableStatuses \ {"Queued"}
  /\ r.status = "Queued" => i \in qrow'
  /\ \A j \in Instances : j # i /\ j \in qrow => j \in qrow'
  /\ UNCHANGED <<waker, up>>

Keeps(i, n, r) ==
  /\ \A j \in Instances : j # i => ports'[j] = ports[j]
  /\ RowFits(r, ports'[i])
  /\ \A j \in Instances : j # i => (Holds(j)' <=> Holds(j))
  /\ Holds(i)' => r.status \in Uses
  /\ i \in CredUsers /\ (r.status = "Running" \/ (n.at = "poll" /\ n.status = "Starting")) => Holds(i)'

LEMMA FreeIs == FreeObject.at = "free" /\ FreeObject.inst = NoInst /\ NoInst \notin Instances
BY LifecycleAssumption DEF FreeObject

LEMMA Worked ==
  ASSUME NomInv, NEW o \in Objects, mem[o].at # "free", NEW i \in Instances, i = mem[o].inst, NEW n, NEW r \in Row,
         Works(o, i, n, r), Keeps(i, n, r)
  PROVE  RowsFit' /\ CopiesFit' /\ Single' /\ QueueFits' /\ WakerFits' /\ CredsFit'
<1>0. /\ db \in [Instances -> Row] /\ mem \in [Objects -> GameInstance] /\ InUse
      /\ RowsFit /\ CopiesFit /\ Single /\ QueueFits /\ WakerFits /\ CredsFit
  BY DEF NomInv, Fits, Typed, TypeOK
<1>1. db'[i] = r /\ \A j \in Instances : j # i => db'[j] = db[j]
  BY <1>0 DEF Works
<1>2. mem'[o] = n /\ \A q \in Objects : q # o => mem'[q] = mem[q]
  BY <1>0 DEF Works
<1>3. \A q \in Objects : q # o => mem[q].inst # i /\ (mem[q].at # "free" => mem[q].inst \in Instances)
  BY <1>0 DEF Single, InUse, Live
<1>4. n.at = "free" \/ (n \in Live /\ n.inst = i /\ n.at # "free")
  <2>1. n \in Live => n.at # "free"
    BY DEF Live
  <2> QED BY <2>1, FreeIs DEF Works
<1>5. n.at = "free" => n = FreeObject /\ n.inst = NoInst
  BY FreeIs DEF Works, Live
<1>6. RowsFit'
  BY <1>0, <1>1 DEF RowsFit, Keeps
<1>7. CopiesFit'
  <2> SUFFICES ASSUME NEW q \in Objects
               PROVE  /\ mem'[q].at = "free" => mem'[q].inst = NoInst
                      /\ mem'[q].at # "free" => Agrees(mem'[q], db'[mem'[q].inst]) /\ PlaceFits(mem'[q])
    BY DEF CopiesFit, Agrees, PlaceFits
  <2>1. CASE q = o
    BY <1>1, <1>2, <1>4, <1>5, <2>1, FreeIs DEF Works
  <2>2. CASE q # o
    <3>1. mem[q].at # "free" => db'[mem[q].inst] = db[mem[q].inst]
      BY <1>1, <1>3, <2>2
    <3> QED BY <1>0, <1>2, <2>2, <3>1 DEF CopiesFit
  <2> QED BY <2>1, <2>2
<1>8. Single'
  <2> SUFFICES ASSUME NEW p \in Objects, NEW q \in Objects, mem'[p].at # "free", mem'[p].inst = mem'[q].inst
               PROVE  p = q
    BY DEF Single
  <2>1. CASE p = o
    BY <1>2, <1>3, <1>4, <2>1
  <2>2. CASE p # o
    BY <1>0, <1>2, <1>3, <1>4, <1>5, <2>2, FreeIs DEF Single
  <2> QED BY <2>1, <2>2
<1>9. \A j \in Instances : j # i /\ InMemory(j) => InMemory(j)'
  BY <1>2, <1>3 DEF InMemory
<1>10. n.at # "free" => InMemory(i)'
  BY <1>2, <1>4 DEF InMemory
<1>11. QueueFits'
  <2>1. \A j \in Instances : db'[j].status = "Queued" => j \in qrow'
    BY <1>0, <1>1 DEF QueueFits, Works
  <2>2. ASSUME NEW j \in Instances, up' = "up", db'[j].status \in dispatchableStatuses \ {"Queued"} PROVE InMemory(j)'
    <3>1. CASE j = i
      BY <1>1, <1>5, <1>10, <2>2, <3>1 DEF Works
    <3>2. CASE j # i
      BY <1>0, <1>1, <1>9, <2>2, <3>2 DEF QueueFits, Works
    <3> QED BY <3>1, <3>2
  <2> QED BY <2>1, <2>2 DEF QueueFits
<1>12. WakerFits'
  <2>1. waker' = waker /\ up' = up /\ up # "down" /\ waker \in Instances \cup {NoInst}
    BY <1>0 DEF Works, WakerFits, NomInv, Typed, TypeOK
  <2>2. ASSUME waker # NoInst PROVE ~InMemory(waker') /\ waker # i
    BY <1>0, <2>1, <2>2 DEF WakerFits, InMemory
  <2>3. ASSUME waker # NoInst PROVE \A q \in Objects : mem'[q].inst # waker
    BY <1>0, <1>2, <1>4, <1>5, <2>2, <2>3, <2>1 DEF InMemory
  <2> QED BY <1>0, <1>1, <2>1, <2>2, <2>3 DEF WakerFits, InMemory
<1>13. CredsFit'
  <2>1. \A j \in Instances : Holds(j)' => db'[j].status \in Uses
    BY <1>0, <1>1 DEF CredsFit, Keeps
  <2>2. \A j \in CredUsers : db'[j].status = "Running" => Holds(j)'
    BY <1>0, <1>1, LifecycleAssumption DEF CredsFit, Keeps
  <2>3. ASSUME NEW q \in Objects, mem'[q].at = "poll", mem'[q].status = "Starting", mem'[q].inst \in CredUsers, NEW j, j = mem'[q].inst
        PROVE  Holds(j)'
    <3>0. j \in Instances
      BY <2>3, LifecycleAssumption
    <3>1. CASE q = o
      BY <1>2, <1>4, <2>3, <3>1 DEF Keeps
    <3>2. CASE q # o
      BY <1>0, <1>2, <1>3, <2>3, <3>0, <3>2 DEF CredsFit, Keeps
    <3> QED BY <3>1, <3>2
  <2> QED BY <2>1, <2>2, <2>3 DEF CredsFit
<1> QED BY <1>6, <1>7, <1>8, <1>11, <1>12, <1>13

\* What is known of a copy in use and its row.
LEMMA Copied ==
  ASSUME NomInv, NEW o \in Objects, mem[o].at # "free", NEW i, i = mem[o].inst
  PROVE  /\ mem[o] \in Live /\ i \in Instances /\ db[i] \in Row /\ Exists(i) /\ mem[o] \in GameInstance
         /\ db \in [Instances -> Row] /\ mem \in [Objects -> GameInstance]
         /\ Agrees(mem[o], db[i]) /\ PlaceFits(mem[o]) /\ RowFits(db[i], ports[i])
         /\ db[i].agent = mem[o].agent /\ db[i].req = mem[o].req /\ db[i].cfg = mem[o].cfg
         /\ \/ db[i].status = mem[o].status
            \/ db[i].status = "PreparingBuild" /\ mem[o].status = "RestoringSnapshot"
         /\ Holds(i) => db[i].status \in Uses
<1>1. mem[o] \in Live /\ i \in Instances /\ db \in [Instances -> Row] /\ mem \in [Objects -> GameInstance]
  BY DEF NomInv, Typed, TypeOK, InUse, Live
<1>2. Agrees(mem[o], db[i]) /\ PlaceFits(mem[o]) /\ RowFits(db[i], ports[i])
  BY <1>1 DEF NomInv, Fits, CopiesFit, RowsFit
<1>3. db[i] \in Row /\ mem[o] \in GameInstance
  BY <1>1
<1>4. /\ db[i].agent = mem[o].agent /\ db[i].req = mem[o].req /\ db[i].cfg = mem[o].cfg
      /\ \/ db[i].status = mem[o].status
         \/ db[i].status = "PreparingBuild" /\ mem[o].status = "RestoringSnapshot"
  BY <1>2, <1>3 DEF Agrees, RowOf, Row
<1>5. Exists(i)
  BY <1>1, <1>4 DEF Exists, Live, InstanceStatus, dispatchableStatuses, Stages
<1>6. Holds(i) => db[i].status \in Uses
  BY <1>1 DEF NomInv, Fits, CredsFit
<1> QED BY <1>1, <1>2, <1>3, <1>4, <1>5, <1>6

\* A step keeps the invariant, and the counters follow the one row it writes.
OneRow ==
  \/ UNCHANGED <<db, reserved>>
  \/ \E i \in Instances, r \in Row : db' = [db EXCEPT ![i] = r] /\ Accounts(i, r)
Followed == Fits' /\ OneRow

LEMMA WorkedFits ==
  ASSUME NomInv, NEW o \in Objects, mem[o].at # "free", NEW i \in Instances, i = mem[o].inst, NEW n, NEW r \in Row,
         Works(o, i, n, r), Keeps(i, n, r), Accounts(i, r)
  PROVE  Followed
<1>1. Typed /\ ReservationsExact /\ db' = [db EXCEPT ![i] = r]
  BY DEF NomInv, Fits, Works
<1>2. Fits'
  BY <1>1, Worked, AccountsExact DEF Fits
<1> QED BY <1>1, <1>2 DEF Followed, OneRow

\* The row a changed copy is written to, whole or the status only.
LEMMA Written ==
  ASSUME NomInv, NEW o \in Objects, mem[o].at # "free", NEW i, i = mem[o].inst, NEW s \in InstanceStatus,
         NEW m, m = [mem[o] EXCEPT !.status = s], UpdateStatus(m) \/ Save(m)
  PROVE  /\ m \in Live /\ m.inst = i /\ m.status = s /\ m.agent = mem[o].agent /\ m.req = mem[o].req
         /\ RowOf(m) \in Row /\ RowOf(m).status = s /\ RowOf(m).agent = mem[o].agent /\ RowOf(m).req = mem[o].req
         /\ db' = [db EXCEPT ![i] = RowOf(m)]
<1>0. /\ mem[o] \in Live /\ i \in Instances /\ db[i] \in Row /\ Exists(i) /\ db \in [Instances -> Row]
      /\ db[i].agent = mem[o].agent /\ db[i].req = mem[o].req /\ db[i].cfg = mem[o].cfg
  BY Copied
<1>1. m \in Live /\ m.inst = i /\ m.status = s /\ m.agent = mem[o].agent /\ m.req = mem[o].req /\ m.cfg = mem[o].cfg
  BY <1>0 DEF Live
<1>2. RowOf(m) \in Row /\ RowOf(m).status = s /\ RowOf(m).agent = mem[o].agent /\ RowOf(m).req = mem[o].req
  BY <1>1, LiveType DEF RowOf
<1>3. RowOf(m) = [db[i] EXCEPT !.status = s]
  BY <1>0, <1>1 DEF RowOf, Row
<1>4. CASE Save(m)
  BY <1>1, <1>2, <1>4 DEF Save
<1>5. CASE UpdateStatus(m)
  <2>1. db' = [db EXCEPT ![i].status = s]
    BY <1>0, <1>1, <1>5 DEF UpdateStatus
  <2> QED BY <1>0, <1>3, <2>1, <1>1, <1>2
<1> QED BY <1>1, <1>2, <1>4, <1>5

\* Nobody's holdings change.
LEMMA Untouched ==
  ASSUME UNCHANGED cred, NEW j PROVE Holds(j)' <=> Holds(j)
BY DEF Holds

LEMMA StatusStep ==
  ASSUME NomInv, NEW o \in Objects, mem[o].at # "free", NEW i, i = mem[o].inst, NEW s \in InstanceStatus,
         NEW m, m = [mem[o] EXCEPT !.status = s], UpdateStatus(m) \/ Save(m),
         \/ RequestDispatch(o, m) /\ s \in dispatchableStatuses
         \/ Drop(o) /\ s \notin dispatchableStatuses \ {"Queued"},
         UNCHANGED <<reserved, ports, cred, waker, up>>,
         s = "Queued" => i \in qrow', \A j \in Instances : j # i /\ j \in qrow => j \in qrow',
         s \in Bound => m.agent # NoAgent, s \notin Bound => m.agent = NoAgent,
         Holds(i) => s \in Uses, s = "Running" /\ i \in CredUsers => Holds(i)
  PROVE  Followed
<1> DEFINE r == RowOf(m)
<1>0. /\ mem[o] \in Live /\ i \in Instances /\ db[i] \in Row /\ Exists(i) /\ mem[o] \in GameInstance
      /\ RowFits(db[i], ports[i])
      /\ db[i].agent = mem[o].agent /\ db[i].req = mem[o].req
  BY Copied
<1>1. /\ m \in Live /\ m.inst = i /\ m.status = s /\ m.agent = mem[o].agent /\ m.req = mem[o].req
      /\ r \in Row /\ r.status = s /\ r.agent = mem[o].agent /\ r.req = mem[o].req
      /\ db' = [db EXCEPT ![i] = r]
  BY Written
<1>2. [m EXCEPT !.at = "queue"] \in Live /\ RowOf([m EXCEPT !.at = "queue"]) = r /\ [m EXCEPT !.at = "queue"].at = "queue"
      /\ [m EXCEPT !.at = "queue"].inst = i /\ [m EXCEPT !.at = "queue"].status = s
  BY <1>1 DEF Live, Places, RowOf
<1> HIDE DEF r
<1>3. Accounts(i, r)
  BY <1>0, <1>1 DEF Accounts, HoldsAt, Exists
<1>4. RowFits(r, ports[i])
  <2>1. "Failed" \notin Bound
    BY DEF Bound, Stages
  <2> QED BY <1>0, <1>1, <2>1 DEF RowFits
<1>5. Keeps(i, FreeObject, r)
  BY <1>1, <1>4, Untouched, FreeIs DEF Keeps
<1>6. CASE RequestDispatch(o, m) /\ s \in dispatchableStatuses
  <2> DEFINE n == [m EXCEPT !.at = "queue"]
  <2>1. PlaceFits(n) /\ Agrees(n, r) /\ n \in Live /\ n.inst = i /\ n.at = "queue"
    BY <1>2, <1>6 DEF PlaceFits, Agrees
  <2>2. mem' = [mem EXCEPT ![o] = n]
    BY <1>6 DEF RequestDispatch
  <2> HIDE DEF n
  <2>3. n # FreeObject
    BY <2>1, FreeIs
  <2>4. Works(o, i, n, r)
    BY <1>1, <2>1, <2>2, <2>3 DEF Works
  <2>5. Keeps(i, n, r)
    BY <1>1, <1>4, <2>1, Untouched DEF Keeps
  <2> QED BY <1>0, <1>1, <1>3, <2>4, <2>5, WorkedFits
<1>7. CASE Drop(o) /\ s \notin dispatchableStatuses \ {"Queued"}
  <2>1. Works(o, i, FreeObject, r)
    BY <1>1, <1>7 DEF Works, Drop
  <2> QED BY <1>0, <1>1, <1>3, <1>5, <2>1, WorkedFits
<1> QED BY <1>6, <1>7

\* Only the copy changes, and perhaps what i has in use.
LEMMA CopyStep ==
  ASSUME NomInv, NEW o \in Objects, mem[o].at # "free", NEW i, i = mem[o].inst, NEW n \in Live,
         n.inst = i, Agrees(n, db[i]), PlaceFits(n), mem' = [mem EXCEPT ![o] = n],
         UNCHANGED <<db, reserved, ports, qrow, waker, up>>,
         \A j \in Instances : j # i => (Holds(j)' <=> Holds(j)), Holds(i) => Holds(i)',
         Holds(i)' => db[i].status \in Uses,
         n.at = "poll" /\ n.status = "Starting" /\ i \in CredUsers => Holds(i)'
  PROVE  Followed
<1> DEFINE r == db[i]
<1>0. i \in Instances /\ r \in Row /\ RowFits(r, ports[i]) /\ db' = [db EXCEPT ![i] = r] /\ n # FreeObject
  <2>1. n # FreeObject
    BY FreeIs DEF Live
  <2> QED BY <2>1, Copied
<1>1. Accounts(i, r)
  BY <1>0 DEF Accounts, HoldsAt
<1>2. r.status = "Running" /\ i \in CredUsers => Holds(i)'
  BY <1>0 DEF NomInv, Fits, CredsFit
<1>3. r.status = "Queued" => i \in qrow'
  BY <1>0 DEF NomInv, Fits, QueueFits
<1> HIDE DEF r
<1>4. Works(o, i, n, r)
  BY <1>0, <1>3 DEF Works, r
<1>5. Keeps(i, n, r)
  BY <1>0, <1>2 DEF Keeps, r
<1> QED BY <1>0, <1>1, <1>4, <1>5, WorkedFits

\* A released credential is nobody's; the others stay.
LEMMA CredsBack ==
  ASSUME Typed, NEW i \in Instances, cred' = ReleaseByInstance(i)
  PROVE  ~Holds(i)' /\ \A j \in Instances : j # i => (Holds(j)' <=> Holds(j))
BY LifecycleAssumption DEF Typed, TypeOK, ReleaseByInstance, Holds

\* What a copy in use gives back is what its row holds.
LEMMA GivesBack ==
  ASSUME NomInv, NEW o \in Objects, mem[o].at # "free", NEW i, i = mem[o].inst, reserved' = Released(mem[o]),
         NEW r \in Row, \A a \in Agents : ~HoldsAt(r, a)
  PROVE  Accounts(i, r)
<1>0. /\ mem[o] \in Live /\ i \in Instances /\ Exists(i) /\ reserved \in [Agents -> Nat]
      /\ db[i].agent = mem[o].agent /\ db[i].req = mem[o].req
  BY Copied DEF NomInv, Typed, TypeOK
<1>1. CASE mem[o].agent # NoAgent /\ mem[o].req = "set"
  <2>1. mem[o].agent \in Agents /\ reserved' = [reserved EXCEPT ![mem[o].agent] = Minus(@, Req[i])]
    BY <1>0, <1>1 DEF Released, Live
  <2> QED BY <1>0, <1>1, <2>1 DEF Accounts, HoldsAt, Exists
<1>2. CASE ~(mem[o].agent # NoAgent /\ mem[o].req = "set")
  <2>1. reserved' = reserved
    BY <1>2 DEF Released
  <2>2. \A a \in Agents : ~HoldsAt(db[i], a)
    BY <1>0, <1>2, LifecycleAssumption DEF HoldsAt
  <2> QED BY <2>1, <2>2 DEF Accounts
<1> QED BY <1>1, <1>2

LEMMA FailedStep ==
  ASSUME NomInv, NEW o \in Objects, mem[o].at # "free", mem[o].status \in Stages \cup {"Scheduling", "Running"},
         FailedInstance(o), NEW i, i = mem[o].inst
  PROVE  Followed
<1> DEFINE keep == mem[o].status \in {"Stopping", "Cleaning"}
           m == [mem[o] EXCEPT !.status = "Failed",
                               !.agent = IF keep THEN @ ELSE NoAgent,
                               !.req = IF keep THEN "nil" ELSE @]
           r == RowOf(m)
<1>0. /\ mem[o] \in Live /\ i \in Instances /\ db[i] \in Row /\ RowFits(db[i], ports[i]) /\ Typed
      /\ db[i].agent = mem[o].agent
      /\ \/ db[i].status = mem[o].status
         \/ db[i].status = "PreparingBuild" /\ mem[o].status = "RestoringSnapshot"
  BY Copied DEF NomInv
<1>1. m \in Live /\ m.inst = i /\ m.status = "Failed"
      /\ (m.agent = NoAgent \/ (m.agent = mem[o].agent /\ m.req = "nil"))
  BY <1>0 DEF Live, InstanceStatus
<1>2. Save(m) /\ Drop(o) /\ cred' = ReleaseByInstance(i) /\ UNCHANGED <<ports, qrow, waker, up>>
  BY DEF FailedInstance
<1>3. reserved' = Released(mem[o])
  <2>1. mem[o].status = "Scheduling" => mem[o].agent = NoAgent
    BY <1>0 DEF RowFits, Bound, Stages
  <2> QED BY <2>1 DEF FailedInstance, Released
<1> HIDE DEF m
<1>4. r \in Row /\ r.status = "Failed" /\ db' = [db EXCEPT ![i] = r]
      /\ (r.agent = NoAgent \/ (r.agent = mem[o].agent /\ r.req = "nil"))
  BY <1>1, <1>2, LiveType DEF RowOf, Save
<1> HIDE DEF r
<1>5. Accounts(i, r)
  <2>1. \A a \in Agents : ~HoldsAt(r, a)
    BY <1>4, LifecycleAssumption DEF HoldsAt
  <2> QED BY <1>3, <1>4, <2>1, GivesBack
<1>6. RowFits(r, ports'[i])
  <2>1. "Failed" \notin Bound
    BY DEF Bound, Stages
  <2> QED BY <1>0, <1>2, <1>4, <2>1 DEF RowFits
<1>7. Keeps(i, FreeObject, r)
  BY <1>0, <1>2, <1>4, <1>6, CredsBack, FreeIs DEF Keeps
<1>8. Works(o, i, FreeObject, r)
  BY <1>2, <1>4 DEF Works, Drop, dispatchableStatuses, Stages
<1> QED BY <1>0, <1>4, <1>5, <1>7, <1>8, WorkedFits

LEMMA CleanStep ==
  ASSUME NomInv, NEW o \in Objects, onCleanInstanceSucceeded(o), NEW i, i = mem[o].inst
  PROVE  Followed
<1> DEFINE m == [mem[o] EXCEPT !.status = "Stopped", !.agent = NoAgent]
           r == RowOf(m)
<1>a. mem[o].at # "free"
  BY DEF onCleanInstanceSucceeded, Polled
<1>0. mem[o] \in Live /\ i \in Instances /\ Typed
  BY <1>a, Copied DEF NomInv
<1>1. m \in Live /\ m.inst = i /\ m.status = "Stopped" /\ m.agent = NoAgent
  BY <1>0 DEF Live, InstanceStatus
<1>2. /\ Save(m) /\ Drop(o) /\ cred' = ReleaseByInstance(i) /\ reserved' = Released(mem[o])
      /\ UNCHANGED <<qrow, waker, up>> /\ ports' = [ports EXCEPT ![i] = {}]
  BY DEF onCleanInstanceSucceeded
<1> HIDE DEF m
<1>4. r \in Row /\ r.status = "Stopped" /\ r.agent = NoAgent /\ db' = [db EXCEPT ![i] = r]
  BY <1>1, <1>2, LiveType DEF RowOf, Save
<1> HIDE DEF r
<1>5. Accounts(i, r)
  <2>1. \A a \in Agents : ~HoldsAt(r, a)
    BY <1>4, LifecycleAssumption DEF HoldsAt
  <2> QED BY <1>a, <1>2, <1>4, <2>1, GivesBack
<1>6. RowFits(r, ports'[i]) /\ \A j \in Instances : j # i => ports'[j] = ports[j]
  BY <1>0, <1>2, <1>4 DEF RowFits, Bound, Stages, Typed, TypeOK
<1>7. Keeps(i, FreeObject, r)
  BY <1>0, <1>2, <1>4, <1>6, CredsBack, FreeIs DEF Keeps
<1>8. Works(o, i, FreeObject, r)
  BY <1>2, <1>4 DEF Works, Drop, dispatchableStatuses, Stages
<1> QED BY <1>a, <1>0, <1>4, <1>5, <1>7, <1>8, WorkedFits

LEMMA ConfigStep ==
  ASSUME NomInv, NEW o \in Objects, NEW cfg \in Configs, UpdateInstanceConfig(o, cfg), NEW i, i = mem[o].inst
  PROVE  Followed
<1> DEFINE m == [mem[o] EXCEPT !.cfg = cfg]
           r == RowOf(m)
<1>a. mem[o].at = "config"
  BY DEF UpdateInstanceConfig
<1>0. /\ mem[o] \in Live /\ i \in Instances /\ RowFits(db[i], ports[i]) /\ Exists(i) /\ PlaceFits(mem[o])
      /\ db[i].agent = mem[o].agent /\ db[i].req = mem[o].req /\ (Holds(i) => db[i].status \in Uses)
      /\ \/ db[i].status = mem[o].status
         \/ db[i].status = "PreparingBuild" /\ mem[o].status = "RestoringSnapshot"
  BY <1>a, Copied
<1>1. mem[o].status \in {"Running", "Stopped", "Failed", "Queued"} /\ db[i].status = mem[o].status
  BY <1>a, <1>0 DEF PlaceFits
<1>2. m \in Live /\ m.inst = i /\ m.status = mem[o].status /\ m.agent = mem[o].agent /\ m.req = mem[o].req
  BY <1>0 DEF Live
<1>3. Save(m) /\ Drop(o) /\ UNCHANGED <<reserved, ports, cred, qrow, waker, up>>
  BY DEF UpdateInstanceConfig
<1> HIDE DEF m
<1>4. r \in Row /\ r.status = db[i].status /\ r.agent = db[i].agent /\ r.req = db[i].req /\ db' = [db EXCEPT ![i] = r]
  BY <1>0, <1>1, <1>2, <1>3, LiveType DEF RowOf, Save
<1> HIDE DEF r
<1>5. Accounts(i, r)
  BY <1>3, <1>4 DEF Accounts, HoldsAt
<1>6. RowFits(r, ports'[i])
  BY <1>0, <1>3, <1>4 DEF RowFits
<1>7. (r.status = "Running" /\ i \in CredUsers => Holds(i)') /\ (Holds(i)' => r.status \in Uses) /\ (r.status = "Queued" => i \in qrow')
  BY <1>0, <1>3, <1>4, Untouched DEF NomInv, Fits, CredsFit, QueueFits
<1>8. Keeps(i, FreeObject, r)
  BY <1>3, <1>6, <1>7, Untouched, FreeIs DEF Keeps
<1>9. Works(o, i, FreeObject, r)
  BY <1>1, <1>3, <1>4, <1>7 DEF Works, Drop, dispatchableStatuses, Stages
<1> QED BY <1>a, <1>0, <1>4, <1>5, <1>8, <1>9, WorkedFits

LEMMA DeleteStep ==
  ASSUME NomInv, NEW o \in Objects, DeleteGameInstance(o), NEW i, i = mem[o].inst
  PROVE  Followed
<1> DEFINE r == [RowOf(FreeObject) EXCEPT !.status = "deleted"]
<1>a. mem[o].at = "delete"
  BY DEF DeleteGameInstance
<1>0. /\ mem[o] \in Live /\ i \in Instances /\ RowFits(db[i], ports[i]) /\ PlaceFits(mem[o])
      /\ (Holds(i) => db[i].status \in Uses) /\ ports \in [Instances -> SUBSET (Agents \X HostPorts)]
      /\ \/ db[i].status = mem[o].status
         \/ db[i].status = "PreparingBuild" /\ mem[o].status = "RestoringSnapshot"
  BY <1>a, Copied DEF NomInv, Typed, TypeOK
<1>1. db[i].status \in {"Queued", "Stopped", "Failed"}
  BY <1>a, <1>0 DEF PlaceFits
<1>2. ~Holds(i)
  BY <1>0, <1>1 DEF Uses
<1>3. /\ Drop(o) /\ UNCHANGED <<reserved, cred, waker, up>> /\ ports' = [ports EXCEPT ![i] = {}]
      /\ db' = [db EXCEPT ![i] = r] /\ (qrow' = qrow \/ qrow' = qrow \ {i})
  BY DEF DeleteGameInstance
<1>4. r \in Row /\ r.status = "deleted" /\ r.agent = NoAgent
  <2>1. AnyConfig \in Configs
    BY LifecycleAssumption DEF AnyConfig
  <2> QED BY <2>1 DEF RowOf, FreeObject, Row
<1> HIDE DEF r
<1>5. Accounts(i, r)
  <2>1. \A a \in Agents : ~HoldsAt(r, a) /\ ~HoldsAt(db[i], a)
    BY <1>0, <1>1, <1>4, LifecycleAssumption DEF HoldsAt, RowFits, Bound, Stages
  <2> QED BY <1>3, <2>1 DEF Accounts
<1>6. RowFits(r, ports'[i]) /\ \A j \in Instances : j # i => ports'[j] = ports[j]
  BY <1>0, <1>3, <1>4 DEF RowFits, Bound, Stages
<1>8. Keeps(i, FreeObject, r)
  BY <1>2, <1>3, <1>4, <1>6, Untouched, FreeIs DEF Keeps
<1>9. Works(o, i, FreeObject, r)
  BY <1>3, <1>4 DEF Works, Drop, dispatchableStatuses, Stages
<1> QED BY <1>a, <1>0, <1>4, <1>5, <1>8, <1>9, WorkedFits

LEMMA ScheduledStep ==
  ASSUME NomInv, NEW o \in Objects, NEW a \in Agents, NEW p \in HostPorts, NEW s \in {"CacheWarming", "PreparingBuild"},
         ScheduleScheduled(o, a, p, s), NEW i, i = mem[o].inst
  PROVE  Followed
<1> DEFINE m == [mem[o] EXCEPT !.status = s, !.agent = a, !.req = "set"]
           n == [m EXCEPT !.at = "queue"]
           r == RowOf(m)
<1>a. mem[o].at = "queue" /\ mem[o].status = "Scheduling"
  BY DEF ScheduleScheduled, Taken
<1>0. /\ mem[o] \in Live /\ i \in Instances /\ RowFits(db[i], ports[i]) /\ Typed
      /\ (Holds(i) => db[i].status \in Uses) /\ ports \in [Instances -> SUBSET (Agents \X HostPorts)]
      /\ reserved \in [Agents -> Nat] /\ db[i].status = mem[o].status
  BY <1>a, Copied DEF NomInv, Typed, TypeOK
<1>1. db[i].agent = NoAgent /\ ~Holds(i) /\ a # NoAgent
  BY <1>a, <1>0, LifecycleAssumption DEF RowFits, Bound, Stages, Uses
<1>2. m \in Live /\ m.inst = i /\ m.status = s /\ m.agent = a /\ m.req = "set"
  BY <1>0 DEF Live, InstanceStatus, dispatchableStatuses, Stages
<1>3. /\ Save(m) /\ mem' = [mem EXCEPT ![o] = n] /\ UNCHANGED <<cred, waker, up>> /\ qrow' = qrow \ {i}
      /\ reserved' = [reserved EXCEPT ![a] = @ + Req[i]] /\ ports' = [ports EXCEPT ![i] = @ \cup {<<a, p>>}]
  BY DEF ScheduleScheduled, TryReserve, RequestDispatch
<1>4. n \in Live /\ n.inst = i /\ n.at = "queue" /\ n.status = s /\ RowOf(n) = r
  BY <1>2 DEF Live, Places, RowOf
<1> HIDE DEF m
<1>5. r \in Row /\ r.status = s /\ r.agent = a /\ r.req = "set" /\ db' = [db EXCEPT ![i] = r]
  BY <1>2, <1>3, LiveType DEF RowOf, Save
<1> HIDE DEF r, n
<1>6. Accounts(i, r)
  <2>1. \A b \in Agents : ~HoldsAt(db[i], b) /\ (HoldsAt(r, b) <=> b = a)
    BY <1>1, <1>5, LifecycleAssumption DEF HoldsAt, InstanceStatus, dispatchableStatuses, Stages
  <2> QED BY <1>0, <1>3, <2>1 DEF Accounts
<1>7. RowFits(r, ports'[i]) /\ \A j \in Instances : j # i => ports'[j] = ports[j]
  <2>1. <<a, p>> \in ports'[i] /\ \A j \in Instances : j # i => ports'[j] = ports[j]
    BY <1>0, <1>3
  <2> QED BY <1>1, <1>5, <2>1 DEF RowFits, Bound, Stages
<1>8. Keeps(i, n, r)
  BY <1>1, <1>3, <1>4, <1>5, <1>7, Untouched DEF Keeps
<1>9. Works(o, i, n, r)
  <2>1. PlaceFits(n) /\ Agrees(n, r)
    BY <1>4 DEF PlaceFits, Agrees, dispatchableStatuses, Stages
  <2>2. n # FreeObject
    BY <1>4, FreeIs
  <2> QED BY <1>3, <1>4, <1>5, <2>1, <2>2 DEF Works
<1> QED BY <1>a, <1>0, <1>5, <1>6, <1>8, <1>9, WorkedFits

\* AllocateForInstance takes from nobody.
LEMMA Allocated ==
  ASSUME NomInv, NEW o \in Objects, mem[o].at # "free", NEW i, i = mem[o].inst, Allocate(o)
  PROVE  /\ \A j \in Instances : j # i => (Holds(j)' <=> Holds(j))
         /\ Holds(i) => Holds(i)'
         /\ Holds(i)' => db[i].status \in Uses
         /\ mem[o].status = "Starting" /\ i \in CredUsers => Holds(i)'
<1>0. /\ i \in Instances /\ cred \in [Creds -> Instances \cup {NoInst}] /\ (Holds(i) => db[i].status \in Uses)
      /\ mem[o].status = "Starting" => db[i].status = "Starting"
  BY Copied DEF NomInv, Typed, TypeOK
<1>1. CASE UNCHANGED cred /\ (mem[o].status = "Starting" => i \notin CredUsers \/ Holds(i))
  BY <1>0, <1>1, Untouched
<1>2. ASSUME NEW c \in Creds, cred[c] = NoInst, cred' = [cred EXCEPT ![c] = i], mem[o].status = "Starting"
      PROVE  /\ \A j \in Instances : j # i => (Holds(j)' <=> Holds(j))
             /\ Holds(i)' /\ db[i].status \in Uses
  <2>1. cred'[c] = i /\ \A d \in Creds : d # c => cred'[d] = cred[d]
    BY <1>0, <1>2
  <2> QED BY <1>0, <1>2, <2>1, LifecycleAssumption DEF Holds, Uses
<1>3. \/ UNCHANGED cred /\ (mem[o].status = "Starting" => i \notin CredUsers \/ Holds(i))
      \/ mem[o].status = "Starting" /\ \E c \in Creds : cred[c] = NoInst /\ cred' = [cred EXCEPT ![c] = i]
  BY Zenon DEF Allocate, AllocateForInstance
<1> QED BY <1>0, <1>1, <1>2, <1>3

LEMMA DispatchFits ==
  ASSUME NomInv, NEW o \in Objects, Dispatch(o)
  PROVE  Followed
<1>a. mem[o].at = "queue"
  BY DEF Dispatch, DispatchPending, ScheduleScheduled, ScheduleQueued, ScheduleStillQueued,
         ScheduleTimeout, ScheduleFailed, StageFailed, StageSent, StageRetried, StageExhausted,
         NoSnapshot, DispatchDefault, Taken
<1> SUFFICES ASSUME NEW i, i = mem[o].inst PROVE Followed
  OBVIOUS
<1>b. mem[o].at # "free"
  BY <1>a
<1>0. /\ mem[o] \in Live /\ i \in Instances /\ PlaceFits(mem[o]) /\ RowFits(db[i], ports[i]) /\ Agrees(mem[o], db[i])
      /\ db[i].agent = mem[o].agent /\ mem \in [Objects -> GameInstance]
      /\ \/ db[i].status = mem[o].status
         \/ db[i].status = "PreparingBuild" /\ mem[o].status = "RestoringSnapshot"
      /\ Holds(i) => db[i].status \in Uses
  BY <1>b, Copied
<1>1. CASE DispatchPending(o)
  <2> DEFINE m == [mem[o] EXCEPT !.status = "Scheduling"]
  <2>1. UpdateStatus(m) /\ RequestDispatch(o, m) /\ UNCHANGED <<reserved, ports, cred, qrow, waker, up>>
        /\ db[i].status \in {"Pending", "Queued"}
    BY <1>0, <1>1 DEF DispatchPending, Taken
  <2>2. m.agent = NoAgent /\ ~Holds(i)
    BY <1>0, <2>1 DEF RowFits, Bound, Stages, Uses, Live
  <2>3. "Scheduling" \in InstanceStatus /\ "Scheduling" \in dispatchableStatuses /\ "Scheduling" \notin Bound
    BY DEF InstanceStatus, dispatchableStatuses, Bound, Stages
  <2> HIDE DEF m
  <2>4. m = [mem[o] EXCEPT !.status = "Scheduling"]
    BY DEF m
  <2> QED BY <1>b, <2>1, <2>2, <2>3, <2>4, StatusStep
<1>2. ASSUME NEW a \in Agents, NEW p \in HostPorts, NEW s \in {"CacheWarming", "PreparingBuild"},
             ScheduleScheduled(o, a, p, s)
      PROVE  Followed
  BY <1>2, ScheduledStep
<1>3. CASE ScheduleQueued(o) \/ ScheduleStillQueued(o)
  <2> DEFINE m == [mem[o] EXCEPT !.status = "Queued"]
  <2>1. (UpdateStatus(m) \/ Save(m)) /\ Drop(o) /\ UNCHANGED <<reserved, ports, cred, waker, up>>
        /\ db[i].status = "Scheduling" /\ i \in qrow' /\ \A j \in Instances : j # i /\ j \in qrow => j \in qrow'
    BY <1>0, <1>3 DEF ScheduleQueued, ScheduleStillQueued, Taken
  <2>2. m.agent = NoAgent /\ ~Holds(i)
    BY <1>0, <2>1 DEF RowFits, Bound, Stages, Uses, Live
  <2>3. "Queued" \in InstanceStatus /\ "Queued" \notin Bound
    BY DEF InstanceStatus, dispatchableStatuses, Bound, Stages
  <2> HIDE DEF m
  <2>4. m = [mem[o] EXCEPT !.status = "Queued"]
    BY DEF m
  <2> QED BY <1>b, <2>1, <2>2, <2>3, <2>4, StatusStep
<1>4. CASE ScheduleTimeout(o)
  <2> DEFINE m == [mem[o] EXCEPT !.status = "Failed"]
  <2>1. Save(m) /\ Drop(o) /\ UNCHANGED <<reserved, ports, cred, waker, up>>
        /\ db[i].status = "Scheduling" /\ \A j \in Instances : j # i /\ j \in qrow => j \in qrow'
    BY <1>0, <1>4 DEF ScheduleTimeout, Taken
  <2>2. m.agent = NoAgent /\ ~Holds(i)
    BY <1>0, <2>1 DEF RowFits, Bound, Stages, Uses, Live
  <2>3. "Failed" \in InstanceStatus /\ "Failed" \notin Bound /\ "Failed" \notin dispatchableStatuses
    BY DEF InstanceStatus, dispatchableStatuses, Bound, Stages
  <2> HIDE DEF m
  <2>4. m = [mem[o] EXCEPT !.status = "Failed"]
    BY DEF m
  <2> QED BY <1>b, <2>1, <2>2, <2>3, <2>4, StatusStep
<1>5. CASE ScheduleFailed(o) \/ StageFailed(o) \/ StageExhausted(o)
  <2>1. FailedInstance(o) /\ mem[o].status \in Stages \cup {"Scheduling", "Running"}
    BY <1>5 DEF ScheduleFailed, StageFailed, StageExhausted, Taken
  <2> QED BY <1>b, <2>1, FailedStep
<1>6. CASE StageSent(o)
  <2>1. PICK k \in {"warm", "poll"} : mem' = [mem EXCEPT ![o].at = k] /\ (k = "warm" <=> mem[o].status = "CacheWarming")
    BY <1>6 DEF StageSent
  <2> DEFINE n == [mem[o] EXCEPT !.at = k]
  <2>2. n \in Live /\ n.inst = i /\ n.at = k /\ n.status = mem[o].status /\ RowOf(n) = RowOf(mem[o])
    BY <1>0 DEF Live, Places, RowOf
  <2>3. mem' = [mem EXCEPT ![o] = n]
    BY <1>0, <2>1
  <2>4. mem[o].status \in Stages /\ Allocate(o) /\ UNCHANGED <<db, reserved, ports, qrow, waker, up>>
    BY <1>6 DEF StageSent, Taken
  <2> HIDE DEF n
  <2>5. PlaceFits(n) /\ Agrees(n, db[i])
    BY <1>0, <2>1, <2>2, <2>4 DEF PlaceFits, Agrees
  <2>6. /\ \A j \in Instances : j # i => (Holds(j)' <=> Holds(j))
        /\ Holds(i) => Holds(i)'
        /\ Holds(i)' => db[i].status \in Uses
        /\ n.at = "poll" /\ n.status = "Starting" /\ i \in CredUsers => Holds(i)'
    BY <1>b, <2>2, <2>4, Allocated
  <2> QED BY <1>b, <2>2, <2>3, <2>4, <2>5, <2>6, CopyStep
<1>7. CASE StageRetried(o)
  <2>1. Allocate(o) /\ UNCHANGED <<db, mem, reserved, ports, qrow, waker, up>> /\ mem' = [mem EXCEPT ![o] = mem[o]]
    BY <1>0, <1>7 DEF StageRetried
  <2>2. /\ \A j \in Instances : j # i => (Holds(j)' <=> Holds(j))
        /\ Holds(i) => Holds(i)'
        /\ Holds(i)' => db[i].status \in Uses
    BY <1>b, <2>1, Allocated
  <2>3. ~(mem[o].at = "poll")
    BY <1>a
  <2> QED BY <1>0, <1>b, <2>1, <2>2, <2>3, CopyStep
<1>8. CASE NoSnapshot(o)
  <2> DEFINE m == [mem[o] EXCEPT !.status = "Starting"]
  <2>1. UpdateStatus(m) /\ RequestDispatch(o, m) /\ UNCHANGED <<reserved, ports, cred, qrow, waker, up>>
        /\ mem[o].agent # NoAgent
    BY <1>8 DEF NoSnapshot
  <2>2. m.agent # NoAgent
    BY <1>0, <2>1 DEF Live
  <2>3. /\ "Starting" \in InstanceStatus /\ "Starting" \in dispatchableStatuses /\ "Starting" \in Bound /\ "Starting" \in Uses
    BY DEF InstanceStatus, dispatchableStatuses, Bound, Stages, Uses
  <2> HIDE DEF m
  <2>4. m = [mem[o] EXCEPT !.status = "Starting"]
    BY DEF m
  <2> QED BY <1>b, <2>1, <2>2, <2>3, <2>4, StatusStep
<1>9. CASE DispatchDefault(o)
  BY <1>0, <1>9, <1>a DEF DispatchDefault, Taken, PlaceFits
<1> QED BY <1>1, <1>2, <1>3, <1>4, <1>5, <1>6, <1>7, <1>8, <1>9 DEF Dispatch

LEMMA PollFits ==
  ASSUME NomInv, NEW o \in Objects, Poll(o)
  PROVE  Followed
<1>a. mem[o].at \in {"poll", "warm"} /\ mem[o].at # "free"
  BY DEF Poll, onPrepareBuildSucceeded, onRestoreSnapshotSucceeded, onStartInstanceSucceeded,
         onStopInstanceSucceeded, onCleanInstanceSucceeded, PollRetried, PollExhausted,
         PollFailed, onCacheWarmReady, WarmFailed, Polled
<1> SUFFICES ASSUME NEW i, i = mem[o].inst PROVE Followed
  OBVIOUS
<1>0. /\ mem[o] \in Live /\ i \in Instances /\ PlaceFits(mem[o]) /\ RowFits(db[i], ports[i]) /\ Agrees(mem[o], db[i])
      /\ db[i].agent = mem[o].agent /\ mem \in [Objects -> GameInstance]
      /\ \/ db[i].status = mem[o].status
         \/ db[i].status = "PreparingBuild" /\ mem[o].status = "RestoringSnapshot"
      /\ Holds(i) => db[i].status \in Uses
  BY <1>a, Copied
<1>1. mem[o].status \in Stages /\ mem[o].agent # NoAgent
  BY <1>a, <1>0 DEF PlaceFits, RowFits, Bound, Stages
\* What the statuses of the life cycle are.
<1>2. /\ {"Starting", "Running", "Cleaning", "PreparingBuild", "RestoringSnapshot"} \subseteq InstanceStatus \cap Bound
      /\ {"Starting", "Cleaning", "PreparingBuild", "RestoringSnapshot"} \subseteq dispatchableStatuses
      /\ "Running" \notin dispatchableStatuses /\ {"Starting", "Running", "Cleaning"} \subseteq Uses
  BY DEF InstanceStatus, dispatchableStatuses, Bound, Stages, Uses
<1>3. ASSUME NEW s \in {"Starting", "Cleaning", "PreparingBuild"}, NEW m, m = [mem[o] EXCEPT !.status = s],
             UpdateStatus(m) \/ Save(m), RequestDispatch(o, m), UNCHANGED <<reserved, ports, cred, qrow, waker, up>>,
             Holds(i) => s \in Uses
      PROVE  Followed
  <2>1. m.agent # NoAgent /\ s \in InstanceStatus /\ s \in Bound /\ s \in dispatchableStatuses /\ s # "Running" /\ s # "Queued"
    BY <1>0, <1>1, <1>2, <1>3 DEF Live
  <2> QED BY <1>a, <1>3, <2>1, StatusStep
<1>4. CASE onPrepareBuildSucceeded(o)
  <2> DEFINE n == [[mem[o] EXCEPT !.status = "RestoringSnapshot"] EXCEPT !.at = "queue"]
  <2>1. mem' = [mem EXCEPT ![o] = n] /\ UNCHANGED <<db, reserved, ports, cred, qrow, waker, up>> /\ db[i].status = "PreparingBuild"
        /\ mem[o].status = "PreparingBuild"
    BY <1>0, <1>4 DEF onPrepareBuildSucceeded, RequestDispatch, Polled
  <2>2. /\ n \in Live /\ n.inst = i /\ n.at = "queue" /\ n.status = "RestoringSnapshot"
        /\ n.agent = mem[o].agent /\ n.req = mem[o].req /\ n.cfg = mem[o].cfg
    BY <1>0, <1>2 DEF Live, Places
  <2>3. db[i] \in Row /\ db[i].agent = mem[o].agent /\ db[i].req = mem[o].req /\ db[i].cfg = mem[o].cfg
    BY <1>a, Copied
  <2> HIDE DEF n
  <2>4. PlaceFits(n) /\ Agrees(n, db[i])
    <3>1. RowOf(n) = [db[i] EXCEPT !.status = "RestoringSnapshot"]
      BY <2>2, <2>3 DEF RowOf, Row
    <3> QED BY <1>2, <2>1, <2>2, <3>1 DEF PlaceFits, Agrees
  <2> QED BY <1>a, <1>0, <2>1, <2>2, <2>4, CopyStep, Untouched
<1>5. CASE onRestoreSnapshotSucceeded(o)
  <2> DEFINE m == [mem[o] EXCEPT !.status = "Starting"]
  <2>1. UpdateStatus(m) /\ RequestDispatch(o, m) /\ UNCHANGED <<reserved, ports, cred, qrow, waker, up>>
    BY <1>5 DEF onRestoreSnapshotSucceeded
  <2> QED BY <1>2, <1>3, <2>1
<1>6. CASE onStopInstanceSucceeded(o)
  <2> DEFINE m == [mem[o] EXCEPT !.status = "Cleaning"]
  <2>1. UpdateStatus(m) /\ RequestDispatch(o, m) /\ UNCHANGED <<reserved, ports, cred, qrow, waker, up>>
    BY <1>6 DEF onStopInstanceSucceeded
  <2> QED BY <1>2, <1>3, <2>1
<1>7. CASE onCacheWarmReady(o)
  <2> DEFINE m == [mem[o] EXCEPT !.status = "PreparingBuild"]
  <2>1. Save(m) /\ RequestDispatch(o, m) /\ UNCHANGED <<reserved, ports, cred, qrow, waker, up>> /\ mem[o].at = "warm"
    BY <1>7 DEF onCacheWarmReady
  <2>2. ~Holds(i)
    BY <1>0, <2>1 DEF PlaceFits, Uses
  <2> QED BY <1>3, <2>1, <2>2
<1>8. CASE onStartInstanceSucceeded(o)
  <2> DEFINE m == [mem[o] EXCEPT !.status = "Running"]
  <2>1. /\ UpdateStatus(m) /\ Drop(o) /\ UNCHANGED <<reserved, ports, cred, qrow, waker, up>>
        /\ mem[o].at = "poll" /\ mem[o].status = "Starting"
    BY <1>8 DEF onStartInstanceSucceeded, Polled
  <2>2. i \in CredUsers => Holds(i)
    BY <2>1 DEF NomInv, Fits, CredsFit
  <2>3. m.agent # NoAgent
    BY <1>0, <1>1 DEF Live
  <2> HIDE DEF m
  <2>4. m = [mem[o] EXCEPT !.status = "Running"]
    BY DEF m
  <2> QED BY <1>a, <1>2, <2>1, <2>2, <2>3, <2>4, StatusStep
<1>9. CASE onCleanInstanceSucceeded(o)
  BY <1>9, CleanStep
<1>10. CASE PollRetried(o)
  <2> DEFINE n == [mem[o] EXCEPT !.at = "queue"]
  <2>1. mem' = [mem EXCEPT ![o] = n] /\ UNCHANGED <<db, reserved, ports, cred, qrow, waker, up>>
    BY <1>10 DEF PollRetried, RequestDispatch
  <2>2. n \in Live /\ n.inst = i /\ n.at = "queue" /\ n.status = mem[o].status /\ RowOf(n) = RowOf(mem[o])
    BY <1>0 DEF Live, Places, RowOf
  <2> HIDE DEF n
  <2>3. PlaceFits(n) /\ Agrees(n, db[i])
    BY <1>0, <1>1, <2>2 DEF PlaceFits, Agrees, dispatchableStatuses
  <2> QED BY <1>a, <1>0, <2>1, <2>2, <2>3, CopyStep, Untouched
<1>11. CASE PollExhausted(o) \/ PollFailed(o) \/ WarmFailed(o)
  <2>1. FailedInstance(o) /\ mem[o].status \in Stages \cup {"Scheduling", "Running"}
    BY <1>1, <1>11 DEF PollExhausted, PollFailed, WarmFailed
  <2> QED BY <1>a, <2>1, FailedStep
<1> QED BY <1>4, <1>5, <1>6, <1>7, <1>8, <1>9, <1>10, <1>11 DEF Poll

\* A copy of a row that nobody works on.
LEMMA BeginFits ==
  ASSUME NomInv, NEW o \in Objects, NEW i \in Instances, NEW k \in Places \ {"free", "poll"}, Begin(o, i, k),
         up = "up", ~InMemory(i), waker # i, Exists(i), PlaceFits(Copy(i, k))
  PROVE  Followed
<1> DEFINE n == Copy(i, k)
<1>0. /\ db \in [Instances -> Row] /\ mem \in [Objects -> GameInstance] /\ InUse /\ waker \in Instances \cup {NoInst}
      /\ RowsFit /\ CopiesFit /\ Single /\ QueueFits /\ WakerFits /\ CredsFit /\ ReservationsExact
  BY DEF NomInv, Fits, Typed, TypeOK
<1>1. mem' = [mem EXCEPT ![o] = n] /\ UNCHANGED <<db, reserved, ports, cred, qrow, waker, up>> /\ mem[o].at = "free"
  BY DEF Begin
<1>2. n.at = k /\ n.inst = i /\ RowOf(n) = db[i] /\ PlaceFits(n)
  BY <1>0 DEF Copy, RowOf, Row
<1> HIDE DEF n
<1>3. mem'[o] = n /\ \A q \in Objects : q # o => mem'[q] = mem[q]
  BY <1>0, <1>1
<1>4. \A q \in Objects : mem[q].inst # i
  BY DEF InMemory
<1>5. mem[o].inst = NoInst /\ i # NoInst
  BY <1>0, <1>1, LifecycleAssumption DEF CopiesFit
<1>6. RowsFit'
  BY <1>0, <1>1 DEF RowsFit
<1>7. CopiesFit'
  <2> SUFFICES ASSUME NEW q \in Objects
               PROVE  /\ mem'[q].at = "free" => mem'[q].inst = NoInst
                      /\ mem'[q].at # "free" => Agrees(mem'[q], db'[mem'[q].inst]) /\ PlaceFits(mem'[q])
    BY DEF CopiesFit, Agrees, PlaceFits
  <2>1. CASE q = o
    BY <1>1, <1>2, <1>3, <2>1 DEF Agrees
  <2>2. CASE q # o
    BY <1>0, <1>1, <1>3, <2>2 DEF CopiesFit
  <2> QED BY <2>1, <2>2
<1>8. Single'
  BY <1>0, <1>2, <1>3, <1>4 DEF Single
<1>9. \A j \in Instances : InMemory(j) => InMemory(j)'
  BY <1>3, <1>5, LifecycleAssumption DEF InMemory
<1>10. QueueFits'
  BY <1>0, <1>1, <1>9 DEF QueueFits
<1>11. WakerFits'
  <2>1. waker # NoInst => \A q \in Objects : mem'[q].inst # waker
    BY <1>0, <1>2, <1>3 DEF WakerFits, InMemory
  <2> QED BY <1>0, <1>1, <2>1 DEF WakerFits, InMemory
<1>12. CredsFit'
  <2>1. \A j : Holds(j)' <=> Holds(j)
    BY <1>1, Untouched
  <2>2. ASSUME NEW q \in Objects, mem'[q].at = "poll", mem'[q].status = "Starting", mem'[q].inst \in CredUsers, NEW j, j = mem'[q].inst
        PROVE  Holds(j)'
    BY <1>0, <1>2, <1>3, <2>1, <2>2 DEF CredsFit
  <2> QED BY <1>0, <1>1, <2>1, <2>2 DEF CredsFit
<1>13. ReservationsExact'
  BY <1>0, <1>1 DEF ReservationsExact, Holders, Exists
<1> QED BY <1>1, <1>6, <1>7, <1>8, <1>10, <1>11, <1>12, <1>13 DEF Fits, Followed, OneRow

LEMMA MayBeginIs ==
  ASSUME Nominal, NEW i \in Instances, NEW k
  PROVE  /\ MayBegin(k, i) => ~InMemory(i) /\ waker # i
         /\ k \in {"deleteRunning", "reap", "force", "crashMid"} => k \notin Ops /\ ~MayBegin(k, i)
         /\ "wake" \notin Overlap
BY DEF Nominal, MayBegin

LEMMA EnvironmentFits ==
  ASSUME Nominal, NomInv, NEW o \in Objects, Environment(o)
  PROVE  Followed
<1>1. ASSUME NEW i \in Instances, NEW k \in {"start", "stop", "config", "cancel", "delete", "watch", "queue"}, Begin(o, i, k),
             up = "up", ~InMemory(i), waker # i, db[i].status \in {"Running", "Stopped", "Failed", "Queued"},
             k = "start" => db[i].status \in {"Stopped", "Failed"} /\ db[i].agent = NoAgent,
             k = "stop" => db[i].status \in {"Running", "Failed"} /\ db[i].agent # NoAgent,
             k \in {"cancel", "queue"} => db[i].status = "Queued",
             k = "delete" => db[i].status # "Running",
             k = "watch" => db[i].status = "Running"
      PROVE  Followed
  <2>1. Copy(i, k).at = k /\ Copy(i, k).status = db[i].status /\ Copy(i, k).agent = db[i].agent
    BY DEF Copy
  <2>2. PlaceFits(Copy(i, k))
    BY <1>1, <2>1 DEF PlaceFits, dispatchableStatuses
  <2>3. Exists(i) /\ k \in Places \ {"free", "poll"}
    BY <1>1 DEF Exists, InstanceStatus, dispatchableStatuses, Places
  <2> QED BY <1>1, <2>2, <2>3, BeginFits
<1>2. ASSUME NEW i \in Instances PROVE /\ RowFits(db[i], ports[i]) /\ db[i] \in Row
                                       /\ up = "up" /\ ~InMemory(i) /\ Exists(i) => db[i].status \in {"Running", "Stopped", "Failed", "Queued"}
                                       /\ db[i].status = "Stopped" => db[i].agent = NoAgent
                                       /\ db[i].status = "Running" => db[i].agent # NoAgent
  <2>1. RowFits(db[i], ports[i]) /\ db[i] \in Row /\ QueueFits
    BY DEF NomInv, Fits, Typed, TypeOK, RowsFit
  <2> QED BY <2>1 DEF RowFits, Bound, Stages, QueueFits, Exists, InstanceStatus
<1>3. ASSUME NEW i \in Instances, BeginStart(o, i) PROVE Followed
  BY <1>1, <1>2, <1>3, MayBeginIs DEF BeginStart, IsStopFailure
<1>4. ASSUME NEW i \in Instances, BeginStop(o, i) PROVE Followed
  BY <1>1, <1>2, <1>4, MayBeginIs DEF BeginStop, IsStopFailure
<1>5. ASSUME NEW i \in Instances, BeginConfig(o, i) PROVE Followed
  BY <1>1, <1>2, <1>5, MayBeginIs DEF BeginConfig
<1>6. ASSUME NEW i \in Instances, BeginCancel(o, i) \/ BeginDelete(o, i) \/ BeginWatch(o, i) PROVE Followed
  BY <1>1, <1>2, <1>6, MayBeginIs DEF BeginCancel, BeginDelete, BeginWatch
<1>7. ASSUME NEW i \in Instances, BeginReap(o, i) \/ ForceDispatch(o, i) PROVE FALSE
  BY <1>7, MayBeginIs DEF BeginReap, ForceDispatch
<1>8. ASSUME NEW i \in Instances, Wake(o, i) PROVE Followed
  BY <1>1, <1>2, <1>8, MayBeginIs DEF Wake, MayWake
<1>9. ASSUME NEW s \in InstanceStatus, NEW m, m = [mem[o] EXCEPT !.status = s], NEW i, i = mem[o].inst, mem[o].at # "free",
             UpdateStatus(m) \/ Save(m),
             \/ RequestDispatch(o, m) /\ s \in dispatchableStatuses
             \/ Drop(o) /\ s \notin dispatchableStatuses,
             UNCHANGED <<reserved, ports, cred, waker, up>>, qrow' = qrow \/ qrow' = qrow \ {i}, s # "Queued", s # "Running",
             s \in Bound => mem[o].agent # NoAgent, s \notin Bound => mem[o].agent = NoAgent,
             s \in Uses \/ db[i].status \notin Uses
      PROVE  Followed
  <2>1. m.agent = mem[o].agent /\ (Holds(i) => db[i].status \in Uses)
    BY <1>9, Copied DEF Live
  <2> QED BY <1>9, <2>1, StatusStep
<1>10. mem[o].at # "free" => /\ PlaceFits(mem[o]) /\ RowFits(db[mem[o].inst], ports[mem[o].inst])
                             /\ db[mem[o].inst].agent = mem[o].agent
                             /\ \/ db[mem[o].inst].status = mem[o].status
                                \/ db[mem[o].inst].status = "PreparingBuild" /\ mem[o].status = "RestoringSnapshot"
  BY Copied
<1>11. CASE StartGameInstance(o)
  <2> DEFINE m == [mem[o] EXCEPT !.status = "Pending"]
  <2>1. Save(m) /\ RequestDispatch(o, m) /\ UNCHANGED <<reserved, ports, cred, qrow, waker, up>> /\ mem[o].at = "start"
    BY <1>11 DEF StartGameInstance
  <2>2. mem[o].agent = NoAgent /\ db[mem[o].inst].status \notin Uses
    BY <1>10, <2>1 DEF PlaceFits, Uses
  <2>3. "Pending" \in InstanceStatus /\ "Pending" \in dispatchableStatuses /\ "Pending" \notin Bound
    BY DEF InstanceStatus, dispatchableStatuses, Bound, Stages
  <2> QED BY <1>9, <2>1, <2>2, <2>3
<1>12. CASE StopGameInstance(o)
  <2> DEFINE m == [mem[o] EXCEPT !.status = "Stopping"]
  <2>1. UpdateStatus(m) /\ RequestDispatch(o, m) /\ UNCHANGED <<reserved, ports, cred, qrow, waker, up>> /\ mem[o].at = "stop"
    BY <1>12 DEF StopGameInstance
  <2>2. mem[o].agent # NoAgent
    BY <1>10, <2>1 DEF PlaceFits
  <2>3. "Stopping" \in InstanceStatus /\ "Stopping" \in dispatchableStatuses /\ "Stopping" \in Bound /\ "Stopping" \in Uses
    BY DEF InstanceStatus, dispatchableStatuses, Bound, Stages, Uses
  <2> QED BY <1>9, <2>1, <2>2, <2>3
<1>13. CASE CancelQueued(o)
  <2> DEFINE m == [mem[o] EXCEPT !.status = "Stopped"]
  <2>1. Save(m) /\ Drop(o) /\ UNCHANGED <<reserved, ports, cred, waker, up>> /\ qrow' = qrow \ {mem[o].inst} /\ mem[o].at = "cancel"
    BY <1>13 DEF CancelQueued
  <2>2. mem[o].agent = NoAgent /\ db[mem[o].inst].status \notin Uses
    BY <1>10, <2>1 DEF PlaceFits, RowFits, Bound, Stages, Uses
  <2>3. "Stopped" \in InstanceStatus /\ "Stopped" \notin dispatchableStatuses /\ "Stopped" \notin Bound
    BY DEF InstanceStatus, dispatchableStatuses, Bound, Stages
  <2> QED BY <1>9, <2>1, <2>2, <2>3
<1>14. ASSUME NEW cfg \in Configs, UpdateInstanceConfig(o, cfg) PROVE Followed
  BY <1>14, ConfigStep
<1>15. CASE DeleteGameInstance(o)
  BY <1>15, DeleteStep
<1>16. CASE WatchRunningInstances(o)
  <2>1. mem[o].at = "watch" /\ FailedInstance(o)
    BY <1>16 DEF WatchRunningInstances
  <2>2. mem[o].status \in Stages \cup {"Scheduling", "Running"} /\ mem[o].at # "free"
    BY <1>10, <2>1 DEF PlaceFits
  <2> QED BY <2>1, <2>2, FailedStep
<1>17. CASE reconcileOnce(o)
  BY <1>10, <1>17 DEF reconcileOnce, PlaceFits
<1> QED BY <1>3, <1>4, <1>5, <1>6, <1>7, <1>8, <1>11, <1>12, <1>13, <1>14, <1>15, <1>16, <1>17 DEF Environment

LEMMA CreateFits ==
  ASSUME NomInv, NEW i \in Instances, NEW req \in {"nil", "set"}, NEW cfg \in Configs, CreateGameInstance(i, req, cfg)
  PROVE  Followed
<1> DEFINE r == [status |-> "Stopped", agent |-> NoAgent, req |-> req, cfg |-> cfg]
<1>0. /\ db \in [Instances -> Row] /\ mem \in [Objects -> GameInstance] /\ InUse /\ waker \in Instances \cup {NoInst}
      /\ RowsFit /\ CopiesFit /\ Single /\ QueueFits /\ WakerFits /\ CredsFit /\ ReservationsExact /\ Typed
  BY DEF NomInv, Fits, Typed, TypeOK
<1>1. /\ db[i].status = "unborn" /\ db' = [db EXCEPT ![i] = r]
      /\ UNCHANGED <<mem, reserved, ports, cred, qrow, waker, up>>
  BY DEF CreateGameInstance
<1>2. r \in Row /\ r.status = "Stopped" /\ r.agent = NoAgent
  BY DEF Row, InstanceStatus
<1> HIDE DEF r
<1>3. db'[i] = r /\ \A j \in Instances : j # i => db'[j] = db[j]
  BY <1>0, <1>1
<1>4. ASSUME NEW o \in Objects, mem[o].at # "free" PROVE mem[o].inst # i
  BY <1>1, <1>4, Copied DEF Exists, InstanceStatus, dispatchableStatuses, Stages
<1>5. RowsFit'
  BY <1>0, <1>1, <1>2, <1>3 DEF RowsFit, RowFits, Bound, Stages
<1>6. CopiesFit'
  <2> SUFFICES ASSUME NEW o \in Objects
               PROVE  /\ mem[o].at = "free" => mem[o].inst = NoInst
                      /\ mem[o].at # "free" => Agrees(mem[o], db'[mem[o].inst]) /\ PlaceFits(mem[o])
    BY <1>1 DEF CopiesFit, Agrees, PlaceFits
  <2>1. mem[o].at # "free" => db'[mem[o].inst] = db[mem[o].inst]
    BY <1>0, <1>3, <1>4 DEF InUse, Live
  <2> QED BY <1>0, <2>1 DEF CopiesFit
<1>7. Single' /\ QueueFits' /\ WakerFits'
  BY <1>0, <1>1, <1>2, <1>3 DEF Single, QueueFits, WakerFits, InMemory, dispatchableStatuses, Stages
<1>8. CredsFit'
  <2>1. ~Holds(i)
    BY <1>0, <1>1 DEF CredsFit, Uses
  <2>2. \A j : Holds(j)' <=> Holds(j)
    BY <1>1, Untouched
  <2>3. \A o \in Objects : mem[o].at = "poll" /\ mem[o].status = "Starting" /\ mem[o].inst \in CredUsers => Holds(mem[o].inst)'
    BY <1>0, <1>1, <2>2 DEF CredsFit, Holds
  <2> QED BY <1>0, <1>1, <1>2, <1>3, <2>1, <2>2, <2>3, LifecycleAssumption DEF CredsFit
<1>9. Accounts(i, r)
  BY <1>1, <1>2, LifecycleAssumption DEF Accounts, HoldsAt, InstanceStatus, dispatchableStatuses, Stages
<1>10. ReservationsExact'
  BY <1>0, <1>1, <1>2, <1>9, AccountsExact
<1>11. OneRow
  BY <1>1, <1>2, <1>9 DEF OneRow
<1> QED BY <1>5, <1>6, <1>7, <1>8, <1>10, <1>11 DEF Fits, Followed

\* Between a crash and Recover the rows stand for themselves.
LEMMA CrashFits ==
  ASSUME NomInv, Crash
  PROVE  Followed
<1>0. /\ RowsFit /\ QueueFits /\ CredsFit /\ ReservationsExact
  BY DEF NomInv, Fits
<1>1. /\ mem' = [o \in Objects |-> FreeObject] /\ waker' = NoInst /\ up' = "down"
      /\ UNCHANGED <<db, reserved, ports, cred, qrow>>
  BY DEF Crash, MemoryLost
<1>2. \A o \in Objects : mem'[o] = FreeObject /\ mem'[o].at = "free" /\ mem'[o].inst = NoInst
  BY <1>1, FreeIs
<1>3. RowsFit' /\ QueueFits' /\ WakerFits'
  BY <1>0, <1>1, <1>2 DEF RowsFit, QueueFits, WakerFits
<1>4. CopiesFit' /\ Single'
  BY <1>2 DEF CopiesFit, Single
<1>5. CredsFit'
  BY <1>0, <1>1, <1>2 DEF CredsFit, Holds
<1>6. ReservationsExact'
  BY <1>0, <1>1 DEF ReservationsExact, Holders, Exists
<1> QED BY <1>1, <1>3, <1>4, <1>5, <1>6 DEF Fits, Followed, OneRow

LEMMA RecoverFits ==
  ASSUME NomInv, Recover
  PROVE  Followed
<1> DEFINE todo == {i \in Instances : db[i].status \in dispatchableStatuses}
<1>0. /\ RowsFit /\ CopiesFit /\ QueueFits /\ WakerFits /\ CredsFit /\ ReservationsExact /\ up = "down"
      /\ db \in [Instances -> Row]
  BY DEF NomInv, Fits, Recover, Typed, TypeOK
<1>1. waker = NoInst /\ \A o \in Objects : mem[o].at = "free" /\ mem[o].inst = NoInst
  BY <1>0 DEF WakerFits, CopiesFit
<1>2. PICK f \in [todo -> {o \in Objects : mem[o].at = "free"}] :
         /\ \A i, j \in todo : f[i] = f[j] => i = j
         /\ mem' = [o \in Objects |-> IF \E i \in todo : f[i] = o
                                      THEN Copy(CHOOSE i \in todo : f[i] = o, "queue")
                                      ELSE mem[o]]
  BY DEF Recover
<1>3. up' = "up" /\ UNCHANGED <<db, reserved, ports, cred, qrow, waker>>
  BY DEF Recover
<1>4. \A i \in todo : i \in Instances /\ db[i].status \in dispatchableStatuses /\ f[i] \in Objects
  BY <1>2
<1>5. \A i \in Instances : db[i].status \in dispatchableStatuses => i \in todo
  OBVIOUS
<1> HIDE DEF todo
<1>6. ASSUME NEW i \in todo PROVE mem'[f[i]] = Copy(i, "queue")
  <2>1. (CHOOSE j \in todo : f[j] = f[i]) = i
    BY <1>2
  <2> QED BY <1>2, <1>4, <2>1
<1>7. ASSUME NEW o \in Objects
      PROVE  (\E i \in todo : o = f[i] /\ mem'[o] = Copy(i, "queue")) \/ mem'[o] = mem[o]
  BY <1>2, <1>6
<1>8. \A i \in todo : /\ Copy(i, "queue").inst = i /\ Copy(i, "queue").at = "queue" /\ RowOf(Copy(i, "queue")) = db[i]
                      /\ Copy(i, "queue").status = db[i].status
  BY <1>0, <1>4 DEF Copy, RowOf, Row
<1>9. CopiesFit'
  <2> SUFFICES ASSUME NEW q \in Objects
               PROVE  /\ mem'[q].at = "free" => mem'[q].inst = NoInst
                      /\ mem'[q].at # "free" => Agrees(mem'[q], db'[mem'[q].inst]) /\ PlaceFits(mem'[q])
    BY DEF CopiesFit, Agrees, PlaceFits
  <2>1. CASE mem'[q] = mem[q]
    BY <1>1, <2>1
  <2>2. ASSUME NEW i \in todo, mem'[q] = Copy(i, "queue")
        PROVE  mem'[q].at = "queue" /\ Agrees(mem'[q], db'[mem'[q].inst]) /\ PlaceFits(mem'[q])
    BY <1>3, <1>4, <1>8, <2>2 DEF Agrees, PlaceFits
  <2> QED BY <1>7, <2>1, <2>2
<1>10. Single'
  <2> SUFFICES ASSUME NEW p \in Objects, NEW q \in Objects, mem'[p].at # "free", mem'[p].inst = mem'[q].inst
               PROVE  p = q
    BY DEF Single
  <2>1. PICK i \in todo : p = f[i] /\ mem'[p] = Copy(i, "queue")
    BY <1>1, <1>7
  <2>2. mem'[q].inst = i /\ i # NoInst
    BY <1>4, <1>8, <2>1, LifecycleAssumption
  <2>3. PICK j \in todo : q = f[j] /\ mem'[q] = Copy(j, "queue")
    BY <1>1, <1>7, <2>2
  <2> QED BY <1>8, <2>1, <2>2, <2>3
<1>11. QueueFits'
  <2>1. \A i \in todo : InMemory(i)'
    BY <1>4, <1>6, <1>8 DEF InMemory
  <2> QED BY <1>0, <1>3, <1>5, <2>1 DEF QueueFits
<1>12. WakerFits' /\ RowsFit'
  BY <1>0, <1>1, <1>3 DEF WakerFits, RowsFit
<1>13. CredsFit'
  <2>1. \A q \in Objects : mem'[q].at # "poll"
    BY <1>1, <1>7, <1>8
  <2> QED BY <1>0, <1>3, <2>1 DEF CredsFit, Holds
<1>14. ReservationsExact'
  BY <1>0, <1>3 DEF ReservationsExact, Holders, Exists
<1> QED BY <1>3, <1>9, <1>10, <1>11, <1>12, <1>13, <1>14 DEF Fits, Followed, OneRow

LEMMA WakerSteps ==
  ASSUME Nominal, NomInv, (\E i \in Instances : WakeStale(i)) \/ WakeDequeue \/ UNCHANGED vars
  PROVE  Followed
<1>0. /\ RowsFit /\ CopiesFit /\ Single /\ QueueFits /\ WakerFits /\ CredsFit /\ ReservationsExact
      /\ waker \in Instances \cup {NoInst}
  BY DEF NomInv, Fits, Typed, TypeOK
<1>1. UNCHANGED <<db, mem, reserved, ports, cred, up>>
  BY DEF WakeStale, WakeDequeue, vars
<1>2. RowsFit' /\ CopiesFit' /\ Single' /\ CredsFit'
  BY <1>0, <1>1 DEF RowsFit, CopiesFit, Single, CredsFit, Holds, Agrees, PlaceFits
<1>3. ReservationsExact'
  BY <1>0, <1>1 DEF ReservationsExact, Holders, Exists
<1>4. QueueFits'
  BY <1>0, <1>1 DEF QueueFits, WakerFits, InMemory, WakeStale, WakeDequeue, vars
<1>5. WakerFits'
  <2>1. ASSUME NEW i \in Instances, WakeStale(i) PROVE WakerFits'
    BY <1>0, <1>1, <2>1, MayBeginIs DEF WakerFits, InMemory, WakeStale, MayWake
  <2>2. CASE WakeDequeue \/ UNCHANGED vars
    BY <1>0, <1>1, <2>2 DEF WakerFits, InMemory, WakeDequeue, vars
  <2> QED BY <2>1, <2>2
<1> QED BY <1>1, <1>2, <1>3, <1>4, <1>5 DEF Fits, Followed, OneRow

LEMMA NomFollowed == Nominal /\ NomInv /\ [Next]_vars => Followed
<1> SUFFICES ASSUME Nominal, NomInv, [Next]_vars PROVE Followed
  OBVIOUS
<1>1. CASE Failures
  <2>1. "crashMid" \notin Ops
    BY DEF Nominal
  <2> QED BY <1>1, <2>1, CrashFits, RecoverFits DEF Failures, CrashAfterRelease, CrashAfterReserve
<1>2. CASE \E o \in Objects : Dispatch(o) \/ Poll(o) \/ Environment(o)
  BY <1>2, DispatchFits, PollFits, EnvironmentFits
<1>3. CASE \E i \in Instances, req \in {"nil", "set"}, cfg \in Configs : CreateGameInstance(i, req, cfg)
  BY <1>3, CreateFits
<1>4. CASE (\E i \in Instances : WakeStale(i)) \/ WakeDequeue \/ UNCHANGED vars
  BY <1>4, WakerSteps
<1> QED BY <1>1, <1>2, <1>3, <1>4 DEF Next

LEMMA NomStep == Nominal /\ NomInv /\ [Next]_vars => NomInv'
BY TypedStep, NomFollowed DEF NomInv, Followed

LEMMA NomInit == Init => NomInv
<1> SUFFICES ASSUME Init PROVE Fits
  BY InitTyped DEF NomInv
<1>1. \A o \in Objects : mem[o].at = "free" /\ mem[o].inst = NoInst
  BY FreeIs DEF Init
<1>2. \A i \in Instances : db[i].status = "unborn" /\ db[i].agent = NoAgent
  BY DEF Init, RowOf, FreeObject
<1>3. RowsFit
  BY <1>2 DEF RowsFit, RowFits, Bound, Stages
<1>4. CopiesFit /\ Single
  BY <1>1 DEF CopiesFit, Single
<1>5. QueueFits /\ WakerFits
  BY <1>2 DEF Init, QueueFits, WakerFits, dispatchableStatuses, Stages
<1>6. CredsFit
  BY <1>1, <1>2, LifecycleAssumption DEF Init, CredsFit, Holds
<1>7. ReservationsExact
  <2> SUFFICES ASSUME NEW a \in Agents PROVE reserved[a] = Demand(Holders(a))
    BY DEF ReservationsExact
  <2>1. Holders(a) = {}
    BY <1>2 DEF Holders, Exists, InstanceStatus, dispatchableStatuses, Stages
  <2>2. Demand({}) = 0
    BY DemandStep
  <2> QED BY <2>1, <2>2 DEF Init
<1> QED BY <1>3, <1>4, <1>5, <1>6, <1>7 DEF Fits

\* What the nominal controller promises follows from the invariant.
LEMMA NomIs == NomInv => CopiesAgree /\ NothingForgotten /\ CredentialsHeld /\ BoundHasPort
<1> SUFFICES ASSUME NomInv PROVE CopiesAgree /\ NothingForgotten /\ CredentialsHeld /\ BoundHasPort
  OBVIOUS
<1>1. CopiesAgree
  BY DEF NomInv, Fits, CopiesFit, Agrees, CopiesAgree
<1>2. NothingForgotten
  BY DEF NomInv, Fits, QueueFits, NothingForgotten
<1>3. CredentialsHeld
  <2>1. \A c \in Creds : cred[c] # NoInst => cred[c] \in Instances /\ Holds(cred[c])
    BY DEF NomInv, Typed, TypeOK, Holds
  <2> QED BY <2>1 DEF NomInv, Fits, CredsFit, CredentialsHeld, Uses
<1>4. BoundHasPort
  BY DEF NomInv, Fits, RowsFit, RowFits, BoundHasPort
<1> QED BY <1>1, <1>2, <1>3, <1>4

\* In the nominal controller, crashes included, every exit of the life cycle
\* gives back exactly what scheduling took: a node's reserved counter is the
\* sum of what the rows bound to it request.
THEOREM ReservationsStayExact == Nominal => (Spec => []ReservationsExact)
<1> SUFFICES ASSUME Nominal PROVE Spec => []ReservationsExact
  OBVIOUS
<1>1. NomInv /\ [Next]_vars => NomInv'
  BY NomStep
<1>2. NomInv => ReservationsExact
  BY DEF NomInv, Fits
<1> QED BY <1>1, <1>2, NomInit, PTL DEF Spec

\* Nobody works on an outdated row: a copy in memory is the row, but for the
\* build stage whose success is not written.
THEOREM CopiesStayTrue == Nominal => (Spec => []CopiesAgree)
<1> SUFFICES ASSUME Nominal PROVE Spec => []CopiesAgree
  OBVIOUS
<1>1. NomInv /\ [Next]_vars => NomInv'
  BY NomStep
<1> QED BY <1>1, NomIs, NomInit, PTL DEF Spec

\* Ports and credentials follow the status through every exit, retry and
\* crash.
THEOREM HoldingsFollowStatus == Nominal => (Spec => []HoldsWhatItNeeds)
<1> SUFFICES ASSUME Nominal PROVE Spec => []HoldsWhatItNeeds
  OBVIOUS
<1>1. NomInv /\ [Next]_vars => NomInv'
  BY NomStep
<1>2. CredentialsHeld /\ BoundHasPort /\ PortsExclusive => HoldsWhatItNeeds
  BY DEF HoldsWhatItNeeds
<1> QED BY <1>1, <1>2, NomIs, NomInit, PortsHold, PTL DEF Spec

\* No unfinished instance is lost between the dispatcher, the pollers, the
\* scheduling queue and Recover.
THEOREM NothingIsForgotten == Nominal => (Spec => []NothingForgotten)
<1> SUFFICES ASSUME Nominal PROVE Spec => []NothingForgotten
  OBVIOUS
<1>1. NomInv /\ [Next]_vars => NomInv'
  BY NomStep
<1> QED BY <1>1, NomIs, NomInit, PTL DEF Spec
-----------------------------------------------------------------------------
(* Refinement of Reservations.                                             *)

LEMMA HeldIs ==
  ASSUME Typed, NEW i \in Instances
  PROVE  /\ \A a \in Agents : HoldsAt(db[i], a) => HeldBy(i) = [agent |-> a, req |-> Amount(Req[i])]
         /\ (\A a \in Agents : ~HoldsAt(db[i], a)) => HeldBy(i) = [agent |-> NoAgent, req |-> Amount(0)]
<1>1. db[i] \in Row
  BY DEF Typed, TypeOK
<1>2. db[i].agent \in Agents \cup {NoAgent}
  BY <1>1 DEF Row
<1> QED BY <1>2, LifecycleAssumption DEF HeldBy, HoldsAt, Exists

LEMMA HeldNext ==
  ASSUME Typed', NEW i \in Instances
  PROVE  /\ \A a \in Agents : HoldsAt(db'[i], a) => HeldBy(i)' = [agent |-> a, req |-> Amount(Req[i])]
         /\ (\A a \in Agents : ~HoldsAt(db'[i], a)) => HeldBy(i)' = [agent |-> NoAgent, req |-> Amount(0)]
<1>1. db'[i] \in Row
  BY DEF Typed, TypeOK
<1>2. db'[i].agent \in Agents \cup {NoAgent}
  BY <1>1 DEF Row
<1> QED BY <1>2, LifecycleAssumption DEF HeldBy, HoldsAt, Exists

\* What one instance holds was counted, and is all that it gives back.
LEMMA HeldIsCounted ==
  ASSUME NomInv, NEW i \in Instances, NEW a \in Agents, HoldsAt(db[i], a)
  PROVE  reserved[a] \in Nat /\ Req[i] \in Nat /\ Minus(reserved[a], Req[i]) = reserved[a] - Req[i]
<1>1. i \in Holders(a) /\ Holders(a) \in SUBSET Instances
  BY DEF HoldsAt, Holders, Exists
<1>2. reserved[a] = Demand(Holders(a))
  BY DEF NomInv, Fits, ReservationsExact
<1>3. reserved[a] = Req[i] + Demand(Holders(a) \ {i})
  BY <1>1, <1>2, DemandRemoves
<1>4. Demand(Holders(a) \ {i}) \in Nat /\ Req[i] \in Nat
  BY <1>1, DemandType, LifecycleAssumption
<1> QED BY <1>3, <1>4 DEF Minus

LEMMA RowIsLedger ==
  ASSUME NomInv, Typed', WithinCapacity', NEW i \in Instances, NEW r \in Row,
         db' = [db EXCEPT ![i] = r], Accounts(i, r)
  PROVE  Reservation!Next \/ UNCHANGED Reservation!rvars
<1> DEFINE Counted == [a \in Agents |-> Amount(reserved[a])]
           Held == [j \in Instances |-> HeldBy(j)]
           None == [agent |-> NoAgent, req |-> Amount(0)]
           Mine(a) == [agent |-> a, req |-> Amount(Req[i])]
<1>0. Typed /\ db \in [Instances -> Row] /\ reserved \in [Agents -> Nat] /\ reserved' \in [Agents -> Nat]
  BY DEF NomInv, Typed, TypeOK
<1>1. db'[i] = r /\ \A j \in Instances : j # i => db'[j] = db[j]
  BY <1>0
<1>2. \A j \in Instances : j # i => HeldBy(j)' = HeldBy(j)
  BY <1>1 DEF HeldBy, Exists
<1>3. /\ \A a \in Agents : HoldsAt(db[i], a) => HeldBy(i) = Mine(a)
      /\ (\A a \in Agents : ~HoldsAt(db[i], a)) => HeldBy(i) = None
  BY <1>0, HeldIs
<1>4. /\ \A a \in Agents : HoldsAt(r, a) => HeldBy(i)' = Mine(a)
      /\ (\A a \in Agents : ~HoldsAt(r, a)) => HeldBy(i)' = None
  BY <1>1, HeldNext
<1>5. \A a, b \in Agents : (HoldsAt(db[i], a) /\ HoldsAt(db[i], b)) \/ (HoldsAt(r, a) /\ HoldsAt(r, b)) => a = b
  BY DEF HoldsAt
<1>6. ASSUME NEW a \in Agents, HoldsAt(db[i], a), \A b \in Agents : ~HoldsAt(r, b)
      PROVE  Reservation!Release(i, a)
  <2>1. reserved'[a] = reserved[a] - Req[i] /\ \A b \in Agents : b # a => reserved'[b] = reserved[b]
    BY <1>5, <1>6, HeldIsCounted DEF Accounts
  <2>2. Held[i] = Mine(a) /\ Held' = [Held EXCEPT ![i] = None]
    BY <1>2, <1>3, <1>4, <1>6
  <2>3. Counted' = [Counted EXCEPT ![a] = [d \in {"capacity"} |-> @[d] - Held[i].req[d]]]
    BY <2>1, <2>2 DEF Amount
  <2> QED BY <2>2, <2>3 DEF Reservation!Release, Reservation!Nothing, Reservation!Zero, Amount
<1>7. ASSUME NEW a \in Agents, HoldsAt(r, a), \A b \in Agents : ~HoldsAt(db[i], b)
      PROVE  Reservation!TryReserve(i, a)
  <2>1. reserved'[a] = reserved[a] + Req[i] /\ \A b \in Agents : b # a => reserved'[b] = reserved[b]
    BY <1>5, <1>7 DEF Accounts
  <2>2. reserved[a] + Req[i] <= Cap[a]
    BY <2>1 DEF WithinCapacity
  <2>3. Held[i] = None /\ Held'[i] = Mine(a) /\ Held' = [Held EXCEPT ![i] = Mine(a)]
    BY <1>2, <1>3, <1>4, <1>7
  <2>4. Counted' = [Counted EXCEPT ![a] = [d \in {"capacity"} |-> @[d] + Held'[i].req[d]]]
    BY <2>1, <2>3 DEF Amount
  <2>5. \A d \in {"capacity"} : Counted[a][d] + Held'[i].req[d] <= Amount(Cap[a])[d]
    BY <2>2, <2>3 DEF Amount
  <2> QED BY <2>3, <2>4, <2>5 DEF Reservation!TryReserve, Reservation!Nothing, Reservation!Zero, Amount
<1>8. ASSUME HeldBy(i)' = HeldBy(i), \A a \in Agents : reserved'[a] = reserved[a]
      PROVE  UNCHANGED Reservation!rvars
  BY <1>2, <1>8 DEF Reservation!rvars
<1>9. CASE \E a \in Agents : HoldsAt(db[i], a) /\ HoldsAt(r, a)
  BY <1>3, <1>4, <1>5, <1>8, <1>9 DEF Accounts
<1>10. CASE \A a \in Agents : ~HoldsAt(db[i], a) /\ ~HoldsAt(r, a)
  BY <1>3, <1>4, <1>8, <1>10 DEF Accounts
<1>11. \A a, b \in Agents : HoldsAt(db[i], a) /\ HoldsAt(r, b) => a = b
  BY DEF Accounts
<1> QED BY <1>6, <1>7, <1>9, <1>10, <1>11 DEF Reservation!Next

\* In the nominal controller, crashes included, reservations are what
\* Reservations promises: whatever way an instance ends, the node gets back
\* once what was taken, and nothing is taken that does not fit.
THEOREM ReservationsAreKept == Nominal => (Spec => ImplementsReservations)
<1> SUFFICES ASSUME Nominal PROVE Spec => ImplementsReservations
  OBVIOUS
<1>1. Init => Reservation!Init
  <2> SUFFICES ASSUME Init PROVE Reservation!Init
    OBVIOUS
  <2>1. \A i \in Instances : HeldBy(i) = [agent |-> NoAgent, req |-> Amount(0)]
    BY DEF Init, RowOf, FreeObject, HeldBy
  <2> QED BY <2>1 DEF Init, Amount, Reservation!Init, Reservation!Nothing, Reservation!Zero
<1>2. NomInv /\ [Next]_vars => NomInv'
  BY NomStep
<1>3. NomInv => Typed
  BY DEF NomInv
<1>4. NomInv /\ NomInv' /\ WithinCapacity' /\ [Next]_vars => [Reservation!Next]_(Reservation!rvars)
  <2> SUFFICES ASSUME NomInv, NomInv', WithinCapacity', [Next]_vars
               PROVE  Reservation!Next \/ UNCHANGED Reservation!rvars
    OBVIOUS
  <2>1. OneRow
    BY NomFollowed DEF Followed
  <2>2. CASE UNCHANGED <<db, reserved>>
    BY <2>2 DEF Reservation!rvars, HeldBy, Exists
  <2>3. ASSUME NEW i \in Instances, NEW r \in Row, db' = [db EXCEPT ![i] = r], Accounts(i, r)
        PROVE  Reservation!Next \/ UNCHANGED Reservation!rvars
    BY <1>3, <2>3, RowIsLedger DEF NomInv
  <2> QED BY <2>1, <2>2, <2>3 DEF OneRow
<1> QED BY <1>1, <1>2, <1>4, CapacityHolds, NomInit, PTL DEF Spec, ImplementsReservations, Reservation!Spec
=============================================================================

--------------------------- MODULE NodeAgentsProofs ---------------------------
(***************************************************************************)
(* What holds of one node agent's row for any releases, requests, ports,   *)
(* thresholds and number of upsets: its types, that "updated" is backed by *)
(* a heartbeat, and that the health monitor debounces.                     *)
(***************************************************************************)
EXTENDS NodeAgents, TLAPS

Shown == Binaries \union {NoVersion}

\* What the monitor carries from one step of a round to the next.
Probes == [pc : {"idle"}]
          \union [pc : {"mark", "lost"}, undialled : Malformed \union {None}]
          \union [pc : {"call"}, port : Ports, known : Shown]
          \union [pc : {"answered", "version"}, known : Shown, version : Binaries]

\* Where a request is; one that works on a target has a target.
Request == [pc : {"new", "filter", "start", "send", "accepted", "poll", "fail", "done"},
            todo : Seq(Versions), port : Ports \union {None}, left : 0 .. Wait]
Sound(q) == /\ Len(q.todo) <= MaxTargets
            /\ q.pc \notin {"new", "done"} => q.todo # <<>>

Procs == [up : BOOLEAN, version : Binaries, listen : Ports, active : BOOLEAN,
          pending : SUBSET Versions]
Decisions == [state : {"updated", "failed"}, target : Versions \union {NoVersion}]

\* One predicate per group of variables that are written together.
RowOK == row \in Rows
ProcOK == proc \in Procs /\ conn \in Ports \union {None} /\ placed \in 0 .. 1
MonitorOK == /\ probe \in Probes
             /\ failCounts \in 0 .. FailThreshold /\ missed \in 0 .. FailThreshold
             /\ reported \subseteq Binaries
ReqOK == req \in [Requests -> Request] /\ \A r \in Requests : Sound(req[r])
RestOK == recon \in Decisions \union {None} /\ admin \in Rows \union {None}
BudgetOK == budget \in 0 .. MaxUpsets

Typed == RowOK /\ ProcOK /\ MonitorOK /\ ReqOK /\ RestOK /\ BudgetOK

LEMMA TypedIsType == Typed => TypeOK
<1> SUFFICES ASSUME Typed PROVE TypeOK
  OBVIOUS
<1>1. probe.pc \in {"idle", "call", "mark", "lost", "answered", "version"}
  BY DEF Typed, MonitorOK, Probes
<1>2. \A r \in Requests :
         /\ req[r].pc \in {"new", "filter", "start", "send", "accepted",
                           "poll", "fail", "done"}
         /\ req[r].todo \in Seq(Versions) /\ Len(req[r].todo) <= MaxTargets
         /\ req[r].pc \notin {"new", "done"} => req[r].todo # <<>>
         /\ req[r].left \in 0 .. Wait
  BY DEF Typed, ReqOK, Request, Sound
<1> QED BY <1>1, <1>2 DEF Typed, RowOK, ProcOK, MonitorOK, RestOK, BudgetOK, TypeOK, Procs, Decisions

LEMMA InitTyped == Init => Typed
<1> SUFFICES ASSUME Init PROVE Typed
  OBVIOUS
<1> USE AgentsAssumption
<1>1. RowOK
  BY DEF Init, RowOK, Rows, NewRow, Health, UpdateStates
<1>2. ProcOK
  BY DEF Init, ProcOK, Procs, Binaries
<1>3. MonitorOK
  BY DEF Init, MonitorOK, Probes
<1>4. ReqOK
  BY DEF Init, ReqOK, Request, Sound
<1>5. RestOK /\ BudgetOK
  BY DEF Init, RestOK, BudgetOK
<1> QED BY <1>1, <1>2, <1>3, <1>4, <1>5 DEF Typed

-----------------------------------------------------------------------------
(* The repository calls and the steps of a request keep the types.         *)

LEMMA UpsetType == BudgetOK /\ Upset => BudgetOK'
BY AgentsAssumption DEF BudgetOK, Upset

LEMMA WriteType ==
  ASSUME RowOK, BudgetOK, NEW new \in Rows, Write(new)
  PROVE  RowOK' /\ BudgetOK'
BY UpsetType DEF Write, RowOK, BudgetOK

LEMMA ColumnTypes ==
  ASSUME NEW a \in Rows
  PROVE  /\ \A alive \in BOOLEAN : UpdateHealth(a, alive) \in Rows
         /\ \A h \in Health : UpdateHealthStatus(a, h) \in Rows
         /\ \A v \in Shown : UpdateAgentVersion(a, v) \in Rows
         /\ \A s \in UpdateStates, v \in Versions \union {NoVersion} :
              UpdateUpdateState(a, s, v) \in Rows
<1>1. ASSUME NEW alive \in BOOLEAN PROVE UpdateHealth(a, alive) \in Rows
  BY DEF Rows, UpdateHealth
<1>2. ASSUME NEW h \in Health PROVE UpdateHealthStatus(a, h) \in Rows
  BY DEF Rows, UpdateHealthStatus
<1>3. ASSUME NEW v \in Shown PROVE UpdateAgentVersion(a, v) \in Rows
  BY DEF Rows, UpdateAgentVersion, Shown
<1>4. ASSUME NEW s \in UpdateStates, NEW v \in Versions \union {NoVersion}
      PROVE  UpdateUpdateState(a, s, v) \in Rows
  <2>1. 0 \in 0 .. Wait + 1
    BY AgentsAssumption
  <2> QED BY <2>1 DEF Rows, UpdateUpdateState
<1> QED BY <1>1, <1>2, <1>3, <1>4

LEMMA TargetType ==
  ASSUME ReqOK, NEW r \in Requests, req[r].pc \notin {"new", "done"}
  PROVE  /\ Target(r) \in Versions
         /\ Tail(req[r].todo) \in Seq(Versions)
         /\ Len(Tail(req[r].todo)) = Len(req[r].todo) - 1
BY DEF ReqOK, Request, Sound, Target

LEMMA StepType ==
  ASSUME ReqOK, NEW r \in Requests, req[r].pc \notin {"new", "done"},
         NEW pc \in {"filter", "start", "send", "accepted", "poll", "fail", "done"},
         Step(r, pc)
  PROVE  ReqOK'
BY DEF ReqOK, Request, Sound, Step

LEMMA NextTargetType ==
  ASSUME ReqOK, NEW r \in Requests, req[r].pc \notin {"new", "done"}, NextTarget(r)
  PROVE  ReqOK'
<1> DEFINE q == [pc |-> IF Len(req[r].todo) = 1 THEN "done" ELSE "filter",
                 todo |-> Tail(req[r].todo), port |-> None, left |-> Wait]
<1>1. req[r].todo \in Seq(Versions) /\ Len(req[r].todo) \in Nat /\ Len(req[r].todo) > 0
      /\ Len(req[r].todo) <= MaxTargets
  BY DEF ReqOK, Request, Sound
<1>2. q \in Request
  BY TargetType, AgentsAssumption DEF Request
<1>3. Sound(q)
  <2>1. Len(q.todo) = Len(req[r].todo) - 1
    BY TargetType
  <2>2. Len(req[r].todo) # 1 => q.todo # <<>>
    <3>1. q.todo = <<>> => Len(q.todo) = 0
      OBVIOUS
    <3> QED BY <1>1, <2>1, <3>1
  <2> QED BY <1>1, <2>1, <2>2, AgentsAssumption DEF Sound
<1>4. req' = [req EXCEPT ![r] = q]
  BY DEF NextTarget
<1>5. \A x \in Requests : req'[x] = IF x = r THEN q ELSE req[x]
  BY <1>4 DEF ReqOK
<1> HIDE DEF q
<1>6. req' \in [Requests -> Request]
  BY <1>2, <1>4 DEF ReqOK
<1> QED BY <1>3, <1>5, <1>6 DEF ReqOK

-----------------------------------------------------------------------------
(* One step of each actor keeps the types.                                 *)

LEMMA MonitorTyped ==
  ASSUME Typed, Monitor
  PROVE  Typed'
<1> USE DEF Typed
<1>0. /\ row.version \in Shown /\ row.port \in Ports /\ proc.version \in Binaries
      /\ failCounts \in Nat /\ missed \in Nat
  BY AgentsAssumption DEF RowOK, Rows, Shown, ProcOK, Procs, MonitorOK
<1>1. ASSUME ProbeLoad PROVE Typed'
  <2>1. ProcOK'
    BY <1>0, <1>1 DEF ProbeLoad, Dial, ProcOK
  <2>2. MonitorOK'
    BY <1>0, <1>1 DEF ProbeLoad, GetFails, MonitorOK, Probes
  <2> QED BY <1>1, <2>1, <2>2 DEF ProbeLoad, RowOK, ReqOK, RestOK, BudgetOK
<1>2. ASSUME ProbeFail PROVE Typed'
  <2>1. BudgetOK'
    BY <1>2, UpsetType DEF ProbeFail, BudgetOK
  <2>2. probe' \in Probes
    BY <1>2 DEF ProbeFail, Probes
  <2>3. failCounts' \in 0 .. FailThreshold /\ missed' \in 0 .. FailThreshold
    BY <1>0, <1>2, AgentsAssumption DEF ProbeFail, MonitorOK
  <2> QED BY <1>2, <2>1, <2>2, <2>3 DEF ProbeFail, MonitorOK, RowOK, ProcOK, ReqOK, RestOK
<1>3. ASSUME ProbeMark \/ ProbeLost PROVE Typed'
  <2>1. PICK new \in Rows : Write(new)
    BY <1>3, ColumnTypes DEF ProbeMark, ProbeLost, RowOK, Health
  <2>2. RowOK' /\ BudgetOK'
    BY <2>1, WriteType
  <2>3. probe' \in Probes
    <3>1. CASE ProbeMark
      BY <3>1 DEF ProbeMark, MonitorOK, Probes
    <3>2. CASE ProbeLost
      BY <3>2 DEF ProbeLost, Probes
    <3> QED BY <1>3, <3>1, <3>2
  <2> QED BY <1>3, <2>2, <2>3 DEF ProbeMark, ProbeLost, MonitorOK, ProcOK, ReqOK, RestOK
<1>4. ASSUME ProbeAnswer PROVE Typed'
  <2>1. Write(UpdateHealth(row, TRUE)) /\ UpdateHealth(row, TRUE) \in Rows
    BY <1>4, ColumnTypes DEF ProbeAnswer, RowOK
  <2>2. RowOK' /\ BudgetOK'
    BY <2>1, WriteType
  <2>3. probe.known \in Shown
    BY <1>4 DEF ProbeAnswer, MonitorOK, Probes
  <2>4. probe' \in Probes
    BY <1>0, <1>4, <2>3 DEF ProbeAnswer, Probes
  <2>5. MonitorOK'
    BY <1>0, <1>4, <2>4, AgentsAssumption DEF ProbeAnswer, MonitorOK
  <2> QED BY <1>4, <2>2, <2>5 DEF ProbeAnswer, ProcOK, ReqOK, RestOK
<1>5. ASSUME NEW hot \in BOOLEAN, ProbeStatus(hot) PROVE Typed'
  <2>1. Write(UpdateHealthStatus(row, SelfCheck(hot))) /\ SelfCheck(hot) \in Health
    BY <1>5 DEF ProbeStatus, SelfCheck, Health
  <2>2. RowOK' /\ BudgetOK'
    BY <2>1, WriteType, ColumnTypes DEF RowOK
  <2>3. probe' \in Probes
    BY <1>5 DEF ProbeStatus, MonitorOK, Probes
  <2> QED BY <1>5, <2>2, <2>3 DEF ProbeStatus, MonitorOK, ProcOK, ReqOK, RestOK
<1>6. ASSUME ProbeVersion PROVE Typed'
  <2>1. Write(UpdateAgentVersion(row, probe.version)) /\ probe.version \in Shown
    BY <1>6 DEF ProbeVersion, MonitorOK, Probes, Shown
  <2>2. RowOK' /\ BudgetOK'
    BY <2>1, WriteType, ColumnTypes DEF RowOK
  <2>3. probe' \in Probes
    BY <1>6 DEF ProbeVersion, Probes
  <2> QED BY <1>6, <2>2, <2>3 DEF ProbeVersion, MonitorOK, ProcOK, ReqOK, RestOK
<1> QED BY <1>1, <1>2, <1>3, <1>4, <1>5, <1>6 DEF Monitor

LEMMA OrchestratorTyped ==
  ASSUME Typed, NEW r \in Requests, Orchestrator(r)
  PROVE  Typed'
<1> USE DEF Typed
<1>0. row.port \in Ports
  BY DEF RowOK, Rows
<1>1. ASSUME Submit(r) PROVE Typed'
  <2>1. PICK n \in 1 .. MaxTargets : \E todo \in [1 .. n -> Versions] :
          req' = [req EXCEPT ![r] = [pc |-> "filter", todo |-> todo,
                                     port |-> None, left |-> Wait]]
    BY <1>1 DEF Submit
  <2>2. PICK todo \in [1 .. n -> Versions] :
          req' = [req EXCEPT ![r] = [pc |-> "filter", todo |-> todo,
                                     port |-> None, left |-> Wait]]
    BY <2>1
  <2> DEFINE q == [pc |-> "filter", todo |-> todo, port |-> None, left |-> Wait]
  <2>3. todo \in Seq(Versions) /\ Len(todo) = n /\ n <= MaxTargets /\ n > 0
    BY AgentsAssumption
  <2>4. todo # <<>>
    BY <2>3
  <2>5. q \in Request /\ Sound(q)
    BY <2>3, <2>4, AgentsAssumption DEF Request, Sound
  <2> HIDE DEF q
  <2>6. req' = [req EXCEPT ![r] = q]
    BY <2>2 DEF q
  <2>7. ReqOK'
    BY <2>5, <2>6 DEF ReqOK
  <2> QED BY <1>1, <2>7 DEF Submit, RowOK, ProcOK, MonitorOK, RestOK, BudgetOK
<1>2. ASSUME UpdateFilter(r) PROVE Typed'
  <2>1. CASE req' = [req EXCEPT ![r].pc = "start", ![r].port = row.port]
    <3>1. ReqOK'
      BY <1>0, <1>2, <2>1, ZenonT(40) DEF UpdateFilter, ReqOK, Request, Sound
    <3> QED BY <1>2, <3>1 DEF UpdateFilter, RowOK, ProcOK, MonitorOK, RestOK, BudgetOK
  <2>2. CASE NextTarget(r)
    <3>1. ReqOK'
      BY <1>2, <2>2, NextTargetType DEF UpdateFilter
    <3> QED BY <1>2, <3>1 DEF UpdateFilter, RowOK, ProcOK, MonitorOK, RestOK, BudgetOK
  <2> QED BY <1>2, <2>1, <2>2 DEF UpdateFilter
<1>3. ASSUME UpdateStart(r) PROVE Typed'
  <2>0. Target(r) \in Versions /\ req[r].pc = "start"
    BY <1>3, TargetType DEF UpdateStart
  <2>1. CASE /\ row' = UpdateUpdateState(row, "downloading", Target(r))
             /\ IF GetFails(req[r].port)
                  THEN Step(r, "fail") /\ UNCHANGED conn
                  ELSE Step(r, "send") /\ conn' = Dial(req[r].port)
             /\ UNCHANGED budget
    <3>1. RowOK'
      BY <2>0, <2>1, ColumnTypes DEF RowOK, UpdateStates, InProgress
    <3>2. ReqOK'
      BY <2>0, <2>1, StepType
    <3>3. ProcOK'
      BY <1>3, <2>1 DEF UpdateStart, ProcOK, Dial, ReqOK, Request
    <3> QED BY <1>3, <2>1, <3>1, <3>2, <3>3 DEF UpdateStart, MonitorOK, RestOK, BudgetOK
  <2>2. CASE Upset /\ NextTarget(r) /\ UNCHANGED <<row, conn>>
    <3>1. ReqOK' /\ BudgetOK'
      BY <2>0, <2>2, NextTargetType, UpsetType
    <3> QED BY <1>3, <2>2, <3>1 DEF UpdateStart, RowOK, ProcOK, MonitorOK, RestOK
  <2> QED BY <1>3, <2>1, <2>2 DEF UpdateStart
<1>4. ASSUME UpdateSend(r) PROVE Typed'
  <2>0. Target(r) \in Versions /\ req[r].pc = "send"
    BY <1>4, TargetType DEF UpdateSend
  <2>1. ReqOK'
    BY <1>4, <2>0, StepType DEF UpdateSend
  <2>2. BudgetOK'
    BY <1>4, UpsetType DEF UpdateSend, BudgetOK
  <2>3. proc' = proc \/ proc' = [proc EXCEPT !.pending = @ \union {Target(r)}]
    BY <1>4 DEF UpdateSend
  <2>4. ProcOK'
    BY <1>4, <2>0, <2>3 DEF UpdateSend, ProcOK, Procs
  <2> QED BY <1>4, <2>1, <2>2, <2>4 DEF UpdateSend, RowOK, MonitorOK, RestOK
<1>5. ASSUME UpdateRebooting(r) \/ UpdatePoll(r) \/ UpdateFail(r) PROVE Typed'
  <2>0. Target(r) \in Versions /\ req[r].pc \notin {"new", "done"}
    BY <1>5, TargetType DEF UpdateRebooting, UpdatePoll, UpdateFail
  <2>1. PICK s \in UpdateStates : Write(UpdateUpdateState(row, s, Target(r)))
    BY <1>5 DEF UpdateRebooting, UpdatePoll, UpdateFail, UpdateStates, InProgress
  <2>2. RowOK' /\ BudgetOK'
    BY <2>0, <2>1, WriteType, ColumnTypes DEF RowOK
  <2>3. ReqOK'
    BY <1>5, <2>0, StepType, NextTargetType DEF UpdateRebooting, UpdatePoll, UpdateFail
  <2> QED BY <1>5, <2>2, <2>3 DEF UpdateRebooting, UpdatePoll, UpdateFail, ProcOK, MonitorOK, RestOK
<1>6. ASSUME Disconnect(r) PROVE Typed'
  <2>1. ReqOK'
    BY <1>6 DEF Disconnect, ReqOK, Request, Sound
  <2>2. BudgetOK'
    BY <1>6, UpsetType DEF Disconnect
  <2> QED BY <1>6, <2>1, <2>2 DEF Disconnect, RowOK, ProcOK, MonitorOK, RestOK
<1> QED BY <1>1, <1>2, <1>3, <1>4, <1>5, <1>6 DEF Orchestrator

LEMMA ReconcilerTyped ==
  ASSUME Typed, Reconciler
  PROVE  Typed'
<1> USE DEF Typed
<1>1. ASSUME ReconcileRead PROVE Typed'
  <2>1. recon' \in Decisions
    BY <1>1 DEF ReconcileRead, resolveStaleUpdateState, Decisions, RowOK, Rows
  <2> QED BY <1>1, <2>1 DEF ReconcileRead, RowOK, ProcOK, MonitorOK, ReqOK, RestOK, BudgetOK
<1>2. ASSUME ReconcileWrite PROVE Typed'
  <2>1. recon \in Decisions
    BY <1>2 DEF ReconcileWrite, RestOK
  <2>2. recon.state \in UpdateStates /\ recon.target \in Versions \union {NoVersion}
    BY <2>1 DEF Decisions, UpdateStates
  <2>3. RowOK' /\ BudgetOK'
    BY <1>2, <2>2, WriteType, ColumnTypes DEF ReconcileWrite, RowOK
  <2> QED BY <1>2, <2>3 DEF ReconcileWrite, ProcOK, MonitorOK, ReqOK, RestOK
<1> QED BY <1>1, <1>2 DEF Reconciler

LEMMA OlderType == \A a \in Rows : Older(a) \in Rows
<1> SUFFICES ASSUME NEW a \in Rows PROVE Older(a) \in Rows
  OBVIOUS
<1>1. a.age \in 0 .. Wait + 1 /\ Wait \in Nat
  BY AgentsAssumption DEF Rows
<1>2. ~(a.age > Wait) => a.age + 1 \in 0 .. Wait + 1
  BY <1>1
<1> QED BY <1>2 DEF Older, Rows

LEMMA OthersTyped ==
  ASSUME Typed,
         \/ \E port \in Ports : CreateNodeAgent(port)
         \/ \E enabled \in BOOLEAN : SetEnabledRead(enabled)
         \/ SetEnabledSave
         \/ \E v \in Versions : ApplyUpdate(v)
         \/ PlaceInstance \/ StartOnNode \/ InstanceGone
         \/ AgentDown \/ AgentUp \/ ControllerRestart \/ Tick
         \/ UNCHANGED vars
  PROVE  Typed'
<1> USE DEF Typed
<1>1. ASSUME NEW port \in Ports, CreateNodeAgent(port) PROVE Typed'
  <2>1. RowOK'
    BY <1>1, AgentsAssumption DEF CreateNodeAgent, NewRow, RowOK, Rows, Health, UpdateStates
  <2>2. BudgetOK'
    BY <1>1, UpsetType DEF CreateNodeAgent
  <2> QED BY <1>1, <2>1, <2>2 DEF CreateNodeAgent, ProcOK, MonitorOK, ReqOK, RestOK
<1>2. ASSUME NEW enabled \in BOOLEAN, SetEnabledRead(enabled) PROVE Typed'
  <2>1. admin' \in Rows
    BY <1>2 DEF SetEnabledRead, RowOK, Rows
  <2>2. BudgetOK'
    BY <1>2, UpsetType DEF SetEnabledRead
  <2> QED BY <1>2, <2>1, <2>2 DEF SetEnabledRead, RowOK, ProcOK, MonitorOK, ReqOK, RestOK
<1>3. ASSUME SetEnabledSave PROVE Typed'
  BY <1>3 DEF SetEnabledSave, RowOK, ProcOK, MonitorOK, ReqOK, RestOK, BudgetOK
<1>4. ASSUME \/ \E v \in Versions : ApplyUpdate(v)
             \/ StartOnNode \/ InstanceGone \/ AgentUp
      PROVE Typed'
  <2>1. ASSUME NEW v \in Versions, ApplyUpdate(v) PROVE ProcOK'
    <3>1. [proc EXCEPT !.pending = @ \ {v}] \in Procs
      BY DEF ProcOK, Procs
    <3>2. [proc EXCEPT !.version = v, !.pending = {}] \in Procs
      BY DEF ProcOK, Procs, Binaries
    <3> QED BY <2>1, <3>1, <3>2 DEF ApplyUpdate, ProcOK
  <2>2. ASSUME StartOnNode \/ InstanceGone \/ AgentUp PROVE ProcOK'
    <3>1. proc' \in Procs
      BY <2>2 DEF StartOnNode, InstanceGone, AgentUp, ProcOK, Procs
    <3> QED BY <2>2, <3>1 DEF StartOnNode, InstanceGone, AgentUp, ProcOK
  <2>3. ProcOK'
    BY <1>4, <2>1, <2>2
  <2> QED BY <1>4, <2>3 DEF ApplyUpdate, StartOnNode, InstanceGone, AgentUp,
                            RowOK, MonitorOK, ReqOK, RestOK, BudgetOK
<1>5. ASSUME PlaceInstance \/ AgentDown PROVE Typed'
  <2>1. proc' \in Procs
    BY <1>5 DEF PlaceInstance, AgentDown, ProcOK, Procs
  <2>2. BudgetOK'
    BY <1>5, UpsetType DEF PlaceInstance, AgentDown
  <2> QED BY <1>5, <2>1, <2>2 DEF PlaceInstance, AgentDown, ProcOK, RowOK, MonitorOK, ReqOK, RestOK
<1>6. ASSUME ControllerRestart PROVE Typed'
  <2>1. BudgetOK'
    BY <1>6, UpsetType DEF ControllerRestart
  <2>2. ReqOK'
    BY <1>6 DEF ControllerRestart, ReqOK, Request, Sound
  <2>3. MonitorOK'
    BY <1>6, AgentsAssumption DEF ControllerRestart, MonitorOK, Probes
  <2> QED BY <1>6, <2>1, <2>2, <2>3 DEF ControllerRestart, RowOK, ProcOK, RestOK
<1>7. ASSUME Tick PROVE Typed'
  <2>1. RowOK' /\ RestOK'
    <3>1. admin = None => Older(admin) = None
      BY DEF Older
    <3> QED BY <1>7, <3>1, OlderType DEF Tick, RowOK, RestOK
  <2>2. ReqOK'
    <3>1. ASSUME NEW r \in Requests
          PROVE  req'[r] \in Request /\ req'[r].todo = req[r].todo /\ req'[r].pc = req[r].pc
      <4>1. req[r] \in Request /\ req[r].left \in 0 .. Wait
        BY DEF ReqOK, Request
      <4>2. req[r].left > 0 => req[r].left - 1 \in 0 .. Wait
        BY <4>1, AgentsAssumption
      <4> QED BY <1>7, <4>1, <4>2 DEF Tick, Request
    <3> QED BY <1>7, <3>1 DEF Tick, ReqOK, Sound
  <2> QED BY <1>7, <2>1, <2>2 DEF Tick, ProcOK, MonitorOK, BudgetOK
<1>8. ASSUME UNCHANGED vars PROVE Typed'
  BY <1>8 DEF vars, RowOK, ProcOK, MonitorOK, ReqOK, RestOK, BudgetOK
<1> QED BY <1>1, <1>2, <1>3, <1>4, <1>5, <1>6, <1>7, <1>8

LEMMA TypedStep == Typed /\ [Next]_vars => Typed'
BY MonitorTyped, OrchestratorTyped, ReconcilerTyped, OthersTyped DEF Next

\* The row, the agent's process, the monitor and every request keep their
\* types: in particular a request that works on a target has one left, and no
\* row is older than the reconciler can tell.
THEOREM TypeCorrect == Spec => []TypeOK
BY InitTyped, TypedStep, TypedIsType, PTL DEF Spec

-----------------------------------------------------------------------------
(* "updated" is backed by a heartbeat. The row alone is not enough: the row *)
(* an administrator's call has read, the decision a reconciler round has    *)
(* taken and the version a monitor round carries are written back later.    *)

Backed(a) == /\ a.version \in reported \union {NoVersion}
             /\ a.state = "updated" => a.target \in reported

AllBacked == /\ Backed(row)
             /\ admin # None => Backed(admin)
             /\ recon # None /\ recon.state = "updated" => recon.target \in reported
             /\ probe.pc \in {"answered", "version"} => probe.version \in reported

\* A row that keeps its update columns, or gets the target somebody has
\* found in its version, is as well backed as before.
LEMMA WriteBacked ==
  ASSUME RowOK, Backed(row), reported \subseteq reported', NEW new,
         new.version \in reported' \union {NoVersion},
         new.state = "updated" => new.target \in reported', Write(new)
  PROVE  Backed(row)'
BY DEF Write, Backed

LEMMA KeptBacked ==
  ASSUME NEW a, Backed(a), reported \subseteq reported'
  PROVE  /\ a.version \in reported' \union {NoVersion}
         /\ a.state = "updated" => a.target \in reported'
BY DEF Backed

LEMMA MonitorBacked ==
  ASSUME Typed, AllBacked, Monitor
  PROVE  AllBacked'
<1>0. row \in Rows /\ Backed(row) /\ reported \subseteq reported'
  BY DEF Typed, RowOK, AllBacked, Monitor, ProbeLoad, ProbeFail, ProbeMark, ProbeLost,
         ProbeAnswer, ProbeStatus, ProbeVersion
<1>1. UNCHANGED <<admin, recon>>
  BY DEF Monitor, ProbeLoad, ProbeFail, ProbeMark, ProbeLost, ProbeAnswer, ProbeStatus,
         ProbeVersion
<1>2. /\ (admin # None => Backed(admin))'
      /\ (recon # None /\ recon.state = "updated" => recon.target \in reported)'
  BY <1>0, <1>1 DEF AllBacked, Backed
<1>3. (probe.pc \in {"answered", "version"} => probe.version \in reported)'
  <2>1. CASE ProbeLoad \/ ProbeFail \/ ProbeMark \/ ProbeLost \/ ProbeVersion
    <3>1. ProbeLoad => probe'.pc \in {"mark", "call"}
      BY DEF ProbeLoad
    <3>2. ProbeFail => probe'.pc \in {"mark", "idle"}
      BY DEF ProbeFail
    <3>3. ProbeMark => probe'.pc = "lost"
      BY DEF ProbeMark, Typed, MonitorOK, Probes
    <3>4. ProbeLost \/ ProbeVersion => probe'.pc = "idle"
      BY DEF ProbeLost, ProbeVersion
    <3> QED BY <2>1, <3>1, <3>2, <3>3, <3>4
  <2>2. CASE ProbeAnswer
    BY <2>2 DEF ProbeAnswer
  <2>3. ASSUME NEW hot \in BOOLEAN, ProbeStatus(hot)
        PROVE  (probe.pc \in {"answered", "version"} => probe.version \in reported)'
    BY <2>3 DEF ProbeStatus, AllBacked, Typed, MonitorOK, Probes
  <2> QED BY <2>1, <2>2, <2>3 DEF Monitor
<1>4. Backed(row)'
  <2>1. CASE ProbeLoad \/ ProbeFail
    BY <1>0, <2>1 DEF ProbeLoad, ProbeFail, Backed
  <2>2. CASE ProbeMark
    BY <1>0, <2>2, WriteBacked, KeptBacked DEF ProbeMark, UpdateHealth, Rows, RowOK
  <2>3. CASE ProbeLost
    BY <1>0, <2>3, WriteBacked, KeptBacked DEF ProbeLost, UpdateHealthStatus, Rows, RowOK
  <2>4. CASE ProbeAnswer
    BY <1>0, <2>4, WriteBacked, KeptBacked DEF ProbeAnswer, UpdateHealth, Rows, RowOK
  <2>5. CASE \E hot \in BOOLEAN : ProbeStatus(hot)
    BY <1>0, <2>5, WriteBacked, KeptBacked DEF ProbeStatus, UpdateHealthStatus, Rows, RowOK
  <2>6. CASE ProbeVersion
    BY <1>0, <2>6, WriteBacked, KeptBacked DEF ProbeVersion, UpdateAgentVersion, Rows, RowOK, AllBacked
  <2> QED BY <2>1, <2>2, <2>3, <2>4, <2>5, <2>6 DEF Monitor
<1> QED BY <1>2, <1>3, <1>4 DEF AllBacked

LEMMA OrchestratorBacked ==
  ASSUME Typed, AllBacked, NEW r \in Requests, Orchestrator(r)
  PROVE  AllBacked'
<1> USE DEF Typed
<1>0. /\ row \in Rows /\ Backed(row) /\ UNCHANGED <<admin, recon, probe, reported>>
  BY DEF RowOK, AllBacked, Orchestrator, Submit, UpdateFilter, UpdateStart, UpdateSend,
         UpdateRebooting, UpdatePoll, UpdateFail, Disconnect
<1>1. Backed(row)'
  <2>1. CASE UNCHANGED row
    BY <1>0, <2>1 DEF Backed
  <2>2. ASSUME NEW s \in UpdateStates \ {"updated"}, row' = UpdateUpdateState(row, s, Target(r))
        PROVE  Backed(row)'
    BY <1>0, <2>2 DEF UpdateUpdateState, Rows, Backed
  <2>3. CASE UpdatePoll(r) /\ row' = UpdateUpdateState(row, "updated", Target(r))
    <3>1. Target(r) \in Versions /\ row.version = Target(r)
      BY <2>3, TargetType DEF UpdatePoll
    <3>2. Target(r) \in reported
      BY <1>0, <3>1, VersionsAssumption DEF Backed
    <3> QED BY <1>0, <2>3, <3>2 DEF UpdateUpdateState, Rows, Backed
  <2> QED BY <2>1, <2>2, <2>3
          DEF Orchestrator, Submit, UpdateFilter, UpdateStart, UpdateSend, UpdateRebooting,
              UpdatePoll, UpdateFail, Disconnect, Write, UpdateStates, InProgress
<1> QED BY <1>0, <1>1 DEF AllBacked, Backed

LEMMA ReconcilerBacked ==
  ASSUME Typed, AllBacked, Reconciler
  PROVE  AllBacked'
<1>0. row \in Rows /\ Backed(row) /\ UNCHANGED <<admin, probe, reported>>
  BY DEF Typed, RowOK, AllBacked, Reconciler, ReconcileRead, ReconcileWrite
<1>1. CASE ReconcileRead
  <2>1. recon'.state = "updated" => recon'.target \in reported
    BY <1>0, <1>1 DEF ReconcileRead, resolveStaleUpdateState, Backed, Rows
  <2> QED BY <1>0, <1>1, <2>1 DEF ReconcileRead, AllBacked, Backed
<1>2. CASE ReconcileWrite
  <2>1. Backed(row)'
    BY <1>0, <1>2 DEF ReconcileWrite, Write, UpdateUpdateState, Rows, AllBacked, Backed
  <2> QED BY <1>0, <1>2, <2>1 DEF ReconcileWrite, AllBacked, Backed
<1> QED BY <1>1, <1>2 DEF Reconciler

LEMMA OthersBacked ==
  ASSUME Typed, AllBacked,
         \/ \E port \in Ports : CreateNodeAgent(port)
         \/ \E enabled \in BOOLEAN : SetEnabledRead(enabled)
         \/ SetEnabledSave
         \/ \E v \in Versions : ApplyUpdate(v)
         \/ PlaceInstance \/ StartOnNode \/ InstanceGone
         \/ AgentDown \/ AgentUp \/ ControllerRestart \/ Tick
         \/ UNCHANGED vars
  PROVE  AllBacked'
<1>0. row \in Rows /\ Backed(row) /\ (admin # None => admin \in Rows /\ Backed(admin))
  BY DEF Typed, RowOK, RestOK, AllBacked
<1>1. CASE \E port \in Ports : CreateNodeAgent(port)
  BY <1>0, <1>1 DEF CreateNodeAgent, NewRow, AllBacked, Backed
<1>2. CASE \E enabled \in BOOLEAN : SetEnabledRead(enabled)
  BY <1>0, <1>2 DEF SetEnabledRead, Rows, AllBacked, Backed
<1>3. CASE SetEnabledSave
  BY <1>0, <1>3 DEF SetEnabledSave, AllBacked, Backed
<1>4. CASE ControllerRestart
  BY <1>0, <1>4 DEF ControllerRestart, AllBacked, Backed
<1>5. CASE Tick
  <2>1. ASSUME NEW a \in Rows, Backed(a)
        PROVE  /\ Older(a).version = a.version /\ Older(a).state = a.state
               /\ Older(a).target = a.target
    BY DEF Older, Rows
  <2>2. Backed(row)'
    BY <1>0, <1>5, <2>1 DEF Tick, Backed
  <2>3. (admin # None => Backed(admin))'
    BY <1>0, <1>5, <2>1 DEF Tick, Backed, Older
  <2> QED BY <1>5, <2>2, <2>3 DEF Tick, AllBacked
<1>6. CASE UNCHANGED <<row, admin, recon, probe, reported>>
  BY <1>6 DEF AllBacked, Backed
<1> QED BY <1>1, <1>2, <1>3, <1>4, <1>5, <1>6
        DEF ApplyUpdate, PlaceInstance, StartOnNode, InstanceGone, AgentDown, AgentUp, vars

LEMMA BackedStep == Typed /\ AllBacked /\ [Next]_vars => AllBacked'
BY MonitorBacked, OrchestratorBacked, ReconcilerBacked, OthersBacked DEF Next

LEMMA InitBacked == Init => AllBacked
BY DEF Init, NewRow, AllBacked, Backed

\* Whatever order the poll of a request, the reconciler, the monitor and an
\* administrator's Save take: a row that says "updated" names a version some
\* heartbeat has carried.
THEOREM RowIsBacked == Spec => []RowIsTrue
<1>1. Typed /\ AllBacked => RowIsTrue
  BY TypedIsType DEF AllBacked, Backed, RowIsTrue, UpdatedWasReported
<1> QED BY <1>1, InitTyped, TypedStep, InitBacked, BackedStep, PTL DEF Spec

-----------------------------------------------------------------------------
(* The debounce. The monitor's own count is what it decides by; a restart   *)
(* of the controller sets it back, so it is at most the true number of      *)
(* heartbeats missed in a row, and a round that got as far as marking the   *)
(* row has seen the threshold reached, or had no client and no address to   *)
(* make one for.                                                            *)

Counted == /\ failCounts <= missed
           /\ probe.pc \in {"mark", "lost"}
                => missed >= FailThreshold \/ probe.undialled \in Malformed

\* What a step may do to the counters and the round.
LEMMA CountedStep == Typed /\ Counted /\ [Next]_vars => Counted'
<1> SUFFICES ASSUME Typed, Counted, [Next]_vars PROVE Counted'
  OBVIOUS
<1>0. /\ failCounts \in 0 .. FailThreshold /\ missed \in 0 .. FailThreshold
      /\ FailThreshold \in Nat \ {0}
  BY AgentsAssumption DEF Typed, MonitorOK
<1>1. CASE UNCHANGED <<failCounts, missed, probe>>
  BY <1>1 DEF Counted
<1>2. CASE ProbeLoad
  BY <1>2 DEF ProbeLoad, GetFails, Counted
<1>3. CASE ProbeFail
  <2>1. failCounts' <= missed'
    BY <1>0, <1>3 DEF ProbeFail, Counted
  <2>2. probe'.pc = "mark" => missed' >= FailThreshold
    BY <1>0, <1>3 DEF ProbeFail, Counted
  <2>3. probe'.pc # "lost"
    BY <1>3 DEF ProbeFail
  <2> QED BY <2>1, <2>2, <2>3 DEF Counted
<1>4. CASE ProbeMark
  <2>1. probe \in [pc : {"mark", "lost"}, undialled : Malformed \union {None}]
    BY <1>4 DEF ProbeMark, Typed, MonitorOK, Probes
  <2>2. probe'.undialled = probe.undialled
    BY <1>4, <2>1 DEF ProbeMark
  <2> QED BY <1>4, <2>2 DEF ProbeMark, Counted
<1>9. CASE ProbeLost
  BY <1>9 DEF ProbeLost, Counted
<1>5. CASE ProbeAnswer
  BY <1>0, <1>5 DEF ProbeAnswer, Counted
<1>6. ASSUME NEW hot \in BOOLEAN, ProbeStatus(hot) PROVE Counted'
  BY <1>6 DEF ProbeStatus, Counted
<1>7. CASE ProbeVersion
  BY <1>7 DEF ProbeVersion, Counted
<1>8. CASE ControllerRestart
  BY <1>0, <1>8 DEF ControllerRestart, Counted
<1> QED BY <1>1, <1>2, <1>3, <1>4, <1>9, <1>5, <1>6, <1>7, <1>8
        DEF Next, Monitor, Orchestrator, Reconciler, Submit, UpdateFilter, UpdateStart, UpdateSend,
            UpdateRebooting, UpdatePoll, UpdateFail, Disconnect, ReconcileRead, ReconcileWrite,
            CreateNodeAgent, SetEnabledRead, SetEnabledSave, ApplyUpdate, PlaceInstance,
            StartOnNode, InstanceGone, AgentDown, AgentUp, Tick, vars

\* Only the last step of a round that reached the threshold or had no client,
\* or a Save, turns a row unhealthy.
LEMMA TurnsUnhealthy ==
  ASSUME Typed, Counted, [Next]_vars, row.health # "unhealthy", row'.health = "unhealthy"
  PROVE  \/ missed' >= FailThreshold
         \/ probe.pc = "lost" /\ probe.undialled \in Malformed
         \/ row' = admin
<1>0. row \in Rows
  BY DEF Typed, RowOK
<1>1. CASE UNCHANGED row
  BY <1>1
<1>2. CASE ProbeLost
  BY <1>2 DEF ProbeLost, Counted
<1>3. CASE SetEnabledSave
  BY <1>3 DEF SetEnabledSave
<1>4. CASE row'.health = row.health
  BY <1>4
<1>5. ASSUME NEW hot \in BOOLEAN, ProbeStatus(hot) PROVE FALSE
  <2>1. row' = row \/ row' = UpdateHealthStatus(row, SelfCheck(hot))
    BY <1>5 DEF ProbeStatus, Write
  <2> QED BY <1>0, <2>1 DEF UpdateHealthStatus, SelfCheck, Rows
<1>6. CASE ProbeMark \/ ProbeAnswer \/ ProbeVersion
  <2>1. \/ row' = row
        \/ \E alive \in BOOLEAN : row' = UpdateHealth(row, alive)
        \/ row' = UpdateAgentVersion(row, probe.version)
    BY <1>6 DEF ProbeMark, ProbeAnswer, ProbeVersion, Write
  <2> QED BY <1>0, <1>4, <2>1 DEF UpdateHealth, UpdateAgentVersion, Rows
<1>7. ASSUME NEW r \in Requests, Orchestrator(r) PROVE row'.health = row.health
  <2>1. row' = row \/ \E s \in UpdateStates : row' = UpdateUpdateState(row, s, Target(r))
    BY <1>7 DEF Orchestrator, Submit, UpdateFilter, UpdateStart, UpdateSend, UpdateRebooting,
                UpdatePoll, UpdateFail, Disconnect, Write, UpdateStates, InProgress
  <2> QED BY <1>0, <2>1 DEF UpdateUpdateState, Rows
<1>8. CASE ReconcileWrite
  BY <1>0, <1>4, <1>8 DEF ReconcileWrite, Write, UpdateUpdateState, Rows
<1>9. CASE \E port \in Ports : CreateNodeAgent(port)
  BY <1>9 DEF CreateNodeAgent, NewRow
<1>10. CASE Tick
  BY <1>0, <1>4, <1>10 DEF Tick, Older, Rows
<1> QED BY <1>1, <1>2, <1>3, <1>4, <1>5, <1>6, <1>7, <1>8, <1>9, <1>10
        DEF Next, Monitor, Reconciler, ProbeLoad, ProbeFail, ReconcileRead, SetEnabledRead,
            ApplyUpdate, PlaceInstance, StartOnNode, InstanceGone, AgentDown, AgentUp,
            ControllerRestart, vars

\* A row turns unhealthy only after FailThreshold heartbeats missed in a row,
\* however often the controller restarts in between, by a round that had no
\* client and an address none can be made for, or because a Save wrote an
\* older row back.
THEOREM HealthIsDebounced == Spec => Debounced
<1>1. Init => Counted
  BY AgentsAssumption DEF Init, Counted
<1>2. Typed /\ Counted /\ [Next]_vars
        => [row.health # "unhealthy" /\ row'.health = "unhealthy"
              => \/ missed' >= FailThreshold
                 \/ probe.pc = "lost" /\ probe.undialled \in Malformed
                 \/ row' = admin]_vars
  BY TurnsUnhealthy
<1> QED BY <1>1, <1>2, InitTyped, TypedStep, CountedStep, PTL DEF Spec, Debounced
=============================================================================

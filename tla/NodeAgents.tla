------------------------------ MODULE NodeAgents ------------------------------
(***************************************************************************)
(* One node agent as the controller keeps it: its row of node_agents, the   *)
(* health monitor that probes it, the one-click update (orchestrator        *)
(* requests and the reconciler that heals their state machine), and the     *)
(* administrator who registers, enables and disables it. The agent process  *)
(* itself is modelled as far as these parts see it: it answers or not,      *)
(* accepts an update, replaces its binary and restarts.                     *)
(*                                                                         *)
(* Agents share nothing but the order in which the monitor visits them, so  *)
(* one row stands for each of them. Time is relative: a row knows the age   *)
(* of its last state write, a request how long it may still wait.           *)
(***************************************************************************)
EXTENDS Integers, Sequences, FiniteSets

CONSTANTS
    None,           \* no connection, no row at hand
    Versions,       \* versions with a row in agent_releases
    Broken,         \* those whose object does not match the row's checksum
    Requests,       \* batch-update and rollback calls, each made at most once
    MaxTargets,     \* targets one batch names
    Ports,          \* addresses an agent can be registered with: the node's
                    \* IP and a port, neither of which is validated
    Malformed,      \* those that cannot be parsed: no client can be made
    FailThreshold,  \* HEARTBEAT_FAIL_THRESHOLD
    Wait,           \* AGENT_UPDATE_WAIT_SEC, in ticks
    MaxUpsets       \* lost heartbeats and replies, failing database calls,
                    \* outages, restarts, administrator calls, placements

ASSUME AgentsAssumption ==
    /\ Broken \subseteq Versions
    /\ FailThreshold \in Nat \ {0}
    /\ Wait \in Nat \ {0}
    /\ MaxTargets \in Nat \ {0}
    /\ MaxUpsets \in Nat
    /\ Malformed \subseteq Ports /\ Ports \ Malformed # {}

VARIABLES
    row,        \* the row of node_agents
    proc,       \* the agent process on the node
    conn,       \* the connection ClientRegistry keeps for the agent
    failCounts, \* consecutive failed heartbeats, in the monitor's memory
    probe,      \* the monitor's round: where it is and what it loaded
    req,        \* the orchestrator's requests
    recon,      \* what a reconciler round decided from the row it read
    admin,      \* the row an enable/disable call works from
    placed,     \* instances of the controller that name this agent: 0 or 1
    budget,     \* what is left of MaxUpsets
    reported,   \* history: versions a heartbeat has carried
    missed      \* history: failed heartbeats since the last answered one

vars == <<row, proc, conn, failCounts, probe, req, recon, admin, placed,
          budget, reported, missed>>

NoVersion == "unknown"
Factory == "factory"    \* the version the agent was deployed with
Binaries == Versions \union {Factory}

(* Register of the release use case accepts versions vX.Y.Z and no others,  *)
(* so the empty column of a row that was never probed is not one of them.   *)
ASSUME VersionsAssumption == NoVersion \notin Versions

Health == {"unknown", "healthy", "degraded", "unhealthy"}
InProgress == {"downloading", "rebooting"}
UpdateStates == {"idle", "updated", "failed"} \union InProgress

Rows == [enabled: BOOLEAN, port: Ports, alive: BOOLEAN, health: Health,
         version: Binaries \union {NoVersion}, state: UpdateStates,
         target: Versions \union {NoVersion}, age: 0 .. Wait + 1]

(* CreateNodeAgent: every other column has its zero value.                  *)
NewRow(port) ==
    [enabled |-> TRUE, port |-> port, alive |-> FALSE, health |-> "unknown",
     version |-> NoVersion, state |-> "idle", target |-> NoVersion, age |-> 0]

Upset == budget > 0 /\ budget' = budget - 1

(* A call of the repository: the row is written, or the call fails.         *)
Write(new) ==
    \/ row' = new /\ UNCHANGED budget
    \/ UNCHANGED row /\ Upset

-----------------------------------------------------------------------------
(* The columns each repository call writes, and no others.                  *)

UpdateHealth(r, alive) == [r EXCEPT !.alive = alive]
UpdateHealthStatus(r, h) == [r EXCEPT !.health = h]
UpdateAgentVersion(r, v) == [r EXCEPT !.version = v]
UpdateUpdateState(r, s, v) ==
    [r EXCEPT !.state = s, !.target = v, !.age = 0]

(* ClientRegistry.Get: a connection made once is used whatever the address  *)
(* the caller passes; otherwise one is made without calling the agent, which *)
(* fails only for an address that cannot be parsed.                         *)
GetFails(port) == conn = None /\ port \in Malformed
Dial(port) == IF conn = None THEN port ELSE conn
Answers(port) == proc.up /\ Dial(port) = proc.listen

(* healthy or degraded by the figures of the heartbeat.                     *)
SelfCheck(hot) == IF hot THEN "degraded" ELSE "healthy"

-----------------------------------------------------------------------------
(* The health monitor: load the row and call, then write what was learnt.   *)

(* Without a client the round goes straight to markUnhealthy and counts     *)
(* nothing; it carries the address there.                                   *)
ProbeLoad ==
    /\ probe.pc = "idle" /\ row.enabled
    /\ IF GetFails(row.port)
         THEN /\ probe' = [pc |-> "mark", undialled |-> row.port]
              /\ UNCHANGED conn
         ELSE /\ probe' = [pc |-> "call", port |-> row.port, known |-> row.version]
              /\ conn' = Dial(row.port)
    /\ UNCHANGED <<row, proc, failCounts, req, recon, admin, placed, budget,
                   reported, missed>>

\* Mutant: one failure too few.
ProbeFailEarly ==
    /\ probe.pc = "call"
    /\ IF Answers(probe.port) THEN Upset ELSE UNCHANGED budget
    /\ failCounts' = IF failCounts < FailThreshold THEN failCounts + 1
                                                   ELSE failCounts
    /\ missed' = IF missed < FailThreshold THEN missed + 1 ELSE missed
    /\ probe' = IF failCounts + 2 >= FailThreshold
                  THEN [pc |-> "mark", undialled |-> None] ELSE [pc |-> "idle"]
    /\ UNCHANGED <<row, proc, conn, req, recon, admin, placed, reported>>

(* The heartbeat call fails: the row is touched only from the threshold on. *)
ProbeFail ==
    /\ probe.pc = "call"
    /\ IF Answers(probe.port) THEN Upset ELSE UNCHANGED budget
    /\ failCounts' = IF failCounts < FailThreshold THEN failCounts + 1
                                                   ELSE failCounts
    /\ missed' = IF missed < FailThreshold THEN missed + 1 ELSE missed
    /\ probe' = IF failCounts + 1 >= FailThreshold
                  THEN [pc |-> "mark", undialled |-> None] ELSE [pc |-> "idle"]
    /\ UNCHANGED <<row, proc, conn, req, recon, admin, placed, reported>>

(* markUnhealthy: two writes.                                               *)
ProbeMark ==
    /\ probe.pc = "mark"
    /\ Write(UpdateHealth(row, FALSE))
    /\ probe' = [probe EXCEPT !.pc = "lost"]
    /\ UNCHANGED <<proc, conn, failCounts, req, recon, admin, placed,
                   reported, missed>>

\* Mutant: the status follows only while the row still says alive.
ProbeLostIfAlive ==
    /\ probe.pc = "lost"
    /\ IF row.alive THEN Write(UpdateHealthStatus(row, "unhealthy"))
                    ELSE UNCHANGED <<row, budget>>
    /\ probe' = [pc |-> "idle"]
    /\ UNCHANGED <<proc, conn, failCounts, req, recon, admin, placed,
                   reported, missed>>

ProbeLost ==
    /\ probe.pc = "lost"
    /\ Write(UpdateHealthStatus(row, "unhealthy"))
    /\ probe' = [pc |-> "idle"]
    /\ UNCHANGED <<proc, conn, failCounts, req, recon, admin, placed,
                   reported, missed>>

(* The heartbeat is answered: the count restarts, alive is written.         *)
ProbeAnswer ==
    /\ probe.pc = "call" /\ Answers(probe.port)
    /\ failCounts' = 0 /\ missed' = 0
    /\ Write(UpdateHealth(row, TRUE))
    /\ probe' = [pc |-> "answered", known |-> probe.known,
                 version |-> proc.version]
    /\ reported' = reported \union {proc.version}
    /\ UNCHANGED <<proc, conn, req, recon, admin, placed>>

\* Mutant: the version is written once and for all.
ProbeStatusOnce(hot) ==
    /\ probe.pc = "answered"
    /\ Write(UpdateHealthStatus(row, SelfCheck(hot)))
    /\ probe' = IF probe.known # NoVersion THEN [pc |-> "idle"]
                                          ELSE [probe EXCEPT !.pc = "version"]
    /\ UNCHANGED <<proc, conn, failCounts, req, recon, admin, placed,
                   reported, missed>>

(* applyHeartbeat: the status; then the version, only if it is not the one  *)
(* the loaded row had.                                                      *)
ProbeStatus(hot) ==
    /\ probe.pc = "answered"
    /\ Write(UpdateHealthStatus(row, SelfCheck(hot)))
    /\ probe' = IF probe.version = probe.known THEN [pc |-> "idle"]
                                               ELSE [probe EXCEPT !.pc = "version"]
    /\ UNCHANGED <<proc, conn, failCounts, req, recon, admin, placed,
                   reported, missed>>

ProbeVersion ==
    /\ probe.pc = "version"
    /\ Write(UpdateAgentVersion(row, probe.version))
    /\ probe' = [pc |-> "idle"]
    /\ UNCHANGED <<proc, conn, failCounts, req, recon, admin, placed,
                   reported, missed>>

-----------------------------------------------------------------------------
(* The update orchestrator. A request names its targets in order and works  *)
(* on them one after the other.                                             *)

Target(r) == Head(req[r].todo)
Step(r, pc) == req' = [req EXCEPT ![r].pc = pc]

(* This target is over: on to the next one, or answer the caller.           *)
NextTarget(r) ==
    req' = [req EXCEPT ![r] =
              [pc |-> IF Len(@.todo) = 1 THEN "done" ELSE "filter",
               todo |-> Tail(@.todo), port |-> None, left |-> Wait]]

(* BatchUpdate and Rollback: both validate and call Update; an empty batch  *)
(* is refused, a rollback is a batch of one.                                *)
Submit(r) ==
    /\ req[r].pc = "new"
    /\ \E n \in 1 .. MaxTargets : \E todo \in [1 .. n -> Versions] :
         req' = [req EXCEPT ![r] = [pc |-> "filter", todo |-> todo,
                                    port |-> None, left |-> Wait]]
    /\ UNCHANGED <<row, proc, conn, failCounts, probe, recon, admin, placed,
                   budget, reported, missed>>

activeInstancesOnAgent == placed

MayUpdate(v) ==
    /\ row.alive
    /\ row.state \notin InProgress
    /\ row.version # v
    /\ activeInstancesOnAgent = 0

(* The filters pass or the target is skipped; nothing is written yet.       *)
UpdateFilter(r) ==
    /\ req[r].pc = "filter"
    /\ IF MayUpdate(Target(r))
         THEN req' = [req EXCEPT ![r].pc = "start", ![r].port = row.port]
         ELSE NextTarget(r)
    /\ UNCHANGED <<row, proc, conn, failCounts, probe, recon, admin, placed,
                   budget, reported, missed>>

UpdateStart(r) ==
    /\ req[r].pc = "start"
    /\ \/ /\ row' = UpdateUpdateState(row, "downloading", Target(r))
          /\ IF GetFails(req[r].port)
               THEN Step(r, "fail") /\ UNCHANGED conn
               ELSE Step(r, "send") /\ conn' = Dial(req[r].port)
          /\ UNCHANGED budget
       \/ Upset /\ NextTarget(r) /\ UNCHANGED <<row, conn>>
    /\ UNCHANGED <<proc, failCounts, probe, recon, admin, placed, reported,
                   missed>>

(* update_node_agent on the node: refused when it runs that version or has  *)
(* active instances, else applied in the background.                        *)
Accepts(v) == v # proc.version /\ ~proc.active

UpdateSend(r) ==
    /\ req[r].pc = "send"
    /\ \/ /\ Answers(req[r].port) /\ Accepts(Target(r))
          /\ proc' = [proc EXCEPT !.pending = @ \union {Target(r)}]
          /\ \/ Step(r, "accepted") /\ UNCHANGED budget
             \/ Step(r, "fail") /\ Upset
       \/ /\ ~ (Answers(req[r].port) /\ Accepts(Target(r)))
          /\ Step(r, "fail") /\ UNCHANGED <<proc, budget>>
    /\ UNCHANGED <<row, conn, failCounts, probe, recon, admin, placed,
                   reported, missed>>

UpdateRebooting(r) ==
    /\ req[r].pc = "accepted"
    /\ Write(UpdateUpdateState(row, "rebooting", Target(r)))
    /\ Step(r, "poll")
    /\ UNCHANGED <<proc, conn, failCounts, probe, recon, admin, placed,
                   reported, missed>>

(* The row shows the target's version before the deadline.                  *)
UpdatePoll(r) ==
    /\ req[r].pc = "poll" /\ req[r].left > 0
    /\ row.version = Target(r)
    /\ Write(UpdateUpdateState(row, "updated", Target(r)))
    /\ NextTarget(r)
    /\ UNCHANGED <<proc, conn, failCounts, probe, recon, admin, placed,
                   reported, missed>>

UpdateFail(r) ==
    /\ \/ req[r].pc = "fail"
       \/ req[r].pc = "poll" /\ req[r].left = 0
    /\ Write(UpdateUpdateState(row, "failed", Target(r)))
    /\ NextTarget(r)
    /\ UNCHANGED <<proc, conn, failCounts, probe, recon, admin, placed,
                   reported, missed>>

(* The caller goes away: the request's context fails every later call.      *)
Disconnect(r) ==
    /\ req[r].pc \notin {"new", "done"}
    /\ Upset
    /\ req' = [req EXCEPT ![r].pc = "done"]
    /\ UNCHANGED <<row, proc, conn, failCounts, probe, recon, admin, placed,
                   reported, missed>>

-----------------------------------------------------------------------------
(* The reconciler: what a round decides from the row it read.               *)

\* Mutants: the version is not compared; downloading is not looked at.
resolveByTimeout(a) ==
    IF a.state \notin InProgress \/ a.age <= Wait THEN None ELSE "updated"
resolveRebootingOnly(a) ==
    IF a.state # "rebooting" THEN None
    ELSE IF a.target # NoVersion /\ a.version = a.target THEN "updated"
    ELSE IF a.age > Wait THEN "failed"
    ELSE None

resolveStaleUpdateState(a) ==
    IF a.state \notin InProgress THEN None
    ELSE IF a.target # NoVersion /\ a.version = a.target THEN "updated"
    ELSE IF a.age > Wait THEN "failed"
    ELSE None

ReconcileRead ==
    /\ recon = None /\ resolveStaleUpdateState(row) # None
    /\ recon' = [state |-> resolveStaleUpdateState(row), target |-> row.target]
    /\ UNCHANGED <<row, proc, conn, failCounts, probe, req, admin, placed,
                   budget, reported, missed>>

ReconcileWrite ==
    /\ recon # None
    /\ Write(UpdateUpdateState(row, recon.state, recon.target))
    /\ recon' = None
    /\ UNCHANGED <<proc, conn, failCounts, probe, req, admin, placed,
                   reported, missed>>

-----------------------------------------------------------------------------
(* The administrator. Save writes back every column it read.                *)

CreateNodeAgent(port) ==
    /\ Upset
    /\ row' = NewRow(port)
    /\ UNCHANGED <<proc, conn, failCounts, probe, req, recon, admin, placed,
                   reported, missed>>

SetEnabledRead(enabled) ==
    /\ admin = None
    /\ Upset
    /\ admin' = [row EXCEPT !.enabled = enabled]
    /\ UNCHANGED <<row, proc, conn, failCounts, probe, req, recon, placed,
                   reported, missed>>

SetEnabledSave ==
    /\ admin # None
    /\ row' = admin
    /\ admin' = None
    /\ UNCHANGED <<proc, conn, failCounts, probe, req, recon, placed, budget,
                   reported, missed>>

-----------------------------------------------------------------------------
(* The node: the agent replaces its binary and restarts, an instance comes  *)
(* and goes, the agent is down for a while.                                 *)

(* run_update_and_restart: a binary that fails its checks changes nothing;  *)
(* otherwise the process exits and the new one knows no pending update.     *)
ApplyUpdate(v) ==
    /\ proc.up /\ v \in proc.pending
    /\ proc' = IF v \in Broken
                 THEN [proc EXCEPT !.pending = @ \ {v}]
                 ELSE [proc EXCEPT !.version = v, !.pending = {}]
    /\ UNCHANGED <<row, conn, failCounts, probe, req, recon, admin, placed,
                   budget, reported, missed>>

(* The scheduler binds an instance to the agent, the agent starts it, and   *)
(* in the end both forget it.                                               *)
PlaceInstance ==
    /\ placed = 0 /\ Upset
    /\ row.enabled /\ row.health \in {"healthy", "degraded"}
    /\ placed' = 1
    /\ UNCHANGED <<row, proc, conn, failCounts, probe, req, recon, admin,
                   reported, missed>>

StartOnNode ==
    /\ placed = 1 /\ proc.up /\ ~proc.active
    /\ proc' = [proc EXCEPT !.active = TRUE]
    /\ UNCHANGED <<row, conn, failCounts, probe, req, recon, admin, placed,
                   budget, reported, missed>>

InstanceGone ==
    /\ placed = 1
    /\ placed' = 0
    /\ proc' = [proc EXCEPT !.active = FALSE]
    /\ UNCHANGED <<row, conn, failCounts, probe, req, recon, admin, budget,
                   reported, missed>>

AgentDown ==
    /\ proc.up /\ Upset
    /\ proc' = [proc EXCEPT !.up = FALSE, !.pending = {}]
    /\ UNCHANGED <<row, conn, failCounts, probe, req, recon, admin, placed,
                   reported, missed>>

AgentUp ==
    /\ ~proc.up
    /\ proc' = [proc EXCEPT !.up = TRUE]
    /\ UNCHANGED <<row, conn, failCounts, probe, req, recon, admin, placed,
                   budget, reported, missed>>

(* The controller restarts: requests, rounds, counts and connections go.    *)
ControllerRestart ==
    /\ Upset
    /\ conn' = None /\ failCounts' = 0
    /\ probe' = [pc |-> "idle"]
    /\ req' = [r \in Requests |->
                 IF req[r].pc = "new" THEN req[r]
                                      ELSE [req[r] EXCEPT !.pc = "done"]]
    /\ recon' = None /\ admin' = None
    /\ UNCHANGED <<row, proc, placed, reported, missed>>

Older(r) == IF r = None \/ r.age > Wait THEN r ELSE [r EXCEPT !.age = @ + 1]

Tick ==
    /\ row' = Older(row) /\ admin' = Older(admin)
    /\ req' = [r \in Requests |->
                 IF req[r].pc = "poll" /\ req[r].left > 0
                   THEN [req[r] EXCEPT !.left = @ - 1] ELSE req[r]]
    /\ UNCHANGED <<proc, conn, failCounts, probe, recon, placed, budget,
                   reported, missed>>

-----------------------------------------------------------------------------
Init ==
    /\ \E port \in Ports : row = NewRow(port)
    /\ \E port \in Ports \ Malformed :
         proc = [up |-> TRUE, version |-> Factory, listen |-> port,
                 active |-> FALSE, pending |-> {}]
    /\ conn = None /\ failCounts = 0 /\ missed = 0
    /\ probe = [pc |-> "idle"]
    /\ req = [r \in Requests |-> [pc |-> "new", todo |-> <<>>, port |-> None,
                                left |-> Wait]]
    /\ recon = None /\ admin = None /\ placed = 0 /\ reported = {}
    /\ budget = MaxUpsets

Monitor ==
    \/ ProbeLoad \/ ProbeFail \/ ProbeMark \/ ProbeLost \/ ProbeAnswer
    \/ \E hot \in BOOLEAN : ProbeStatus(hot)
    \/ ProbeVersion

Orchestrator(r) ==
    \/ Submit(r) \/ UpdateFilter(r) \/ UpdateStart(r) \/ UpdateSend(r)
    \/ UpdateRebooting(r) \/ UpdatePoll(r) \/ UpdateFail(r) \/ Disconnect(r)

Reconciler == ReconcileRead \/ ReconcileWrite

Next ==
    \/ Monitor
    \/ \E r \in Requests : Orchestrator(r)
    \/ Reconciler
    \/ \E port \in Ports : CreateNodeAgent(port)
    \/ \E enabled \in BOOLEAN : SetEnabledRead(enabled)
    \/ SetEnabledSave
    \/ \E v \in Versions : ApplyUpdate(v)
    \/ PlaceInstance \/ StartOnNode \/ InstanceGone
    \/ AgentDown \/ AgentUp \/ ControllerRestart \/ Tick

(* What the controller's own goroutines keep doing. The agent, its node and *)
(* the administrator owe nothing, except that a started call ends.          *)
Fairness ==
    /\ WF_vars(Monitor)
    /\ WF_vars(Reconciler)
    /\ WF_vars(SetEnabledSave)
    /\ WF_vars(Tick)
    /\ \A r \in Requests : WF_vars(Orchestrator(r) /\ req[r].pc # "new")

Spec == Init /\ [][Next]_vars /\ Fairness

-----------------------------------------------------------------------------
(* Types.                                                                   *)
TypeOK ==
    /\ row \in Rows
    /\ proc \in [up: BOOLEAN, version: Binaries, listen: Ports,
                 active: BOOLEAN, pending: SUBSET Versions]
    /\ conn \in Ports \union {None}
    /\ failCounts \in 0 .. FailThreshold /\ missed \in 0 .. FailThreshold
    /\ probe.pc \in {"idle", "call", "mark", "lost", "answered", "version"}
    /\ \A r \in Requests :
         /\ req[r].pc \in {"new", "filter", "start", "send", "accepted",
                           "poll", "fail", "done"}
         /\ req[r].todo \in Seq(Versions) /\ Len(req[r].todo) <= MaxTargets
         /\ req[r].pc \notin {"new", "done"} => req[r].todo # <<>>
         /\ req[r].left \in 0 .. Wait
    /\ recon \in [state: {"updated", "failed"},
                  target: Versions \union {NoVersion}] \union {None}
    /\ admin \in Rows \union {None}
    /\ budget \in 0 .. MaxUpsets
    /\ placed \in 0 .. 1
    /\ reported \subseteq Binaries

(* "updated" is never a guess: whoever wrote it, the poll of a request, the *)
(* reconciler, or a Save that wrote an old row back, the agent has reported *)
(* the target version in a heartbeat.                                       *)
UpdatedWasReported == row.state = "updated" => row.target \in reported

(* The debounce of the health monitor: a row turns unhealthy only after     *)
(* FailThreshold heartbeats in a row have failed, controller restarts       *)
(* included. Two exceptions: a round that had no client and an address none *)
(* can be made for counts nothing and marks at once (probeAgent), and a     *)
(* Save may write an older row back.                                        *)
Debounced ==
    [][row.health # "unhealthy" /\ row'.health = "unhealthy"
         => \/ missed' >= FailThreshold
            \/ probe.pc = "lost" /\ probe.undialled \in Malformed
            \/ row' = admin]_vars

(* The update state machine does not stick in downloading or rebooting,     *)
(* though requests are dropped, the controller restarts, the agent never    *)
(* comes back, and an enable or disable may write an old state back.        *)
NotStuck == row.state \in InProgress ~> row.state \notin InProgress

(* An enabled agent that stays down is in the end, and stays, unhealthy.    *)
DeadIsNoticed ==
    <>[](~proc.up /\ row.enabled)
       => <>[](~row.alive /\ row.health = "unhealthy")

Reachable == proc.up /\ Answers(row.port)

(* An enabled agent that stays reachable is in the end, and stays, alive,   *)
(* schedulable and shown with the version it runs, whatever earlier Saves   *)
(* wrote back.                                                              *)
LiveIsShown ==
    <>[](Reachable /\ row.enabled)
       => <>[](/\ row.alive /\ row.health \in {"healthy", "degraded"}
               /\ row.version = proc.version)

(* What the row says of an update, and of everything else, can be relied on *)
(* (updateOne, reconcileOnce, SetEnabled).                                  *)
RowIsTrue == TypeOK /\ UpdatedWasReported

(* In the end the row follows the agent, dead or alive (probeAgent).        *)
RowFollowsAgent == DeadIsNoticed /\ LiveIsShown
=============================================================================

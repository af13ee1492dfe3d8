------------------------------ MODULE Placement ------------------------------
(***************************************************************************)
(* The resource aware scheduler of controller-go: Schedule reads the rows  *)
(* of agents and nodes once, filters the candidates by the hard            *)
(* constraints, takes the best score, plans its ports and asks for the     *)
(* reservation in a transaction that looks at the row again; a conflict    *)
(* starts over.  Several workers schedule at once, while agents come and   *)
(* go, an administrator edits the container configuration and instances    *)
(* stop.  Instances nobody can take wait in the scheduling queue with      *)
(* backoff and timeout until QueueWaker finds them due.                    *)
(*                                                                         *)
(* Quantities are in units, Core of them to a CPU core; shares, weights    *)
(* and scores are in tenths.  Times in a queue row are the ticks left.     *)
(***************************************************************************)
EXTENDS PortPlan

CONSTANTS Instances,   \* instance IDs, numbers (ties are broken by them)
          Agents,      \* agent IDs, numbers; one node per agent
          HardDims,    \* dimensions that must fit: cpu, disk (memory)
          SoftDims,    \* dimensions that only count for the score: bandwidth
          Core,        \* units of cpu in one core
          Cap,         \* Cap[a][d]: capacity of a's node; 0 in SoftDims: no limit set
          Target,      \* utilization_target, in tenths
          Used,        \* Used[a]: cpu_used of the node
          Samples,     \* Samples[a]: window of samples, [cpu, bw] records
          Location, Region, regionForce,
          Freq,        \* Freq[a]: core_frequency
          Override,    \* Override[i][d]: request given at creation, 0: none
          DefaultReq,  \* DefaultReq[d]: the request when nothing is configured
          Configs,     \* container configurations an administrator may save
          Config0,     \* the one there is at the start
          Branches,    \* contents that steam_branches of the game may have
          Cache0, Steam0,  \* caches and branches at the start
          CacheSize,   \* bytes of a cached branch
          Priority, reservationRetry, maxPerRound,
          backoffBase, backoffMax, timeout,
          MaxChanges,  \* bound: changes by agents and administrators, failures,
                       \* starts before the last clean-up has deleted the ports
          None

Dims == HardDims \cup SoftDims

\* A row of game_container_configs with its port excerpts.
ContainerConfig == [mode : {"nat", "host"}, inject : BOOLEAN, single : BOOLEAN,
                    req : [Dims -> Nat], excerpts : Seq(PortExcerpt)]

ASSUME PlacementAssumption ==
  /\ Instances \subseteq Nat /\ Agents \subseteq Nat \ {0}
  /\ IsFiniteSet(Instances) /\ IsFiniteSet(Agents)
  /\ "cpu" \in HardDims /\ "disk" \in HardDims /\ SoftDims = {"bw"}
  /\ \A a \in Agents : /\ Cap[a] \in [Dims -> Nat] /\ Used[a] \in Nat /\ Freq[a] \in Nat
                       /\ Samples[a] \in Seq([cpu : Nat, bw : Nat])
  /\ \A i \in Instances : Override[i] \in [Dims -> Nat]
  /\ DefaultReq \in [Dims -> Nat] /\ \A d \in HardDims : DefaultReq[d] > 0
  /\ Configs \subseteq ContainerConfig /\ Config0 \in Configs /\ Steam0 \in Branches
  /\ Cache0 \in [Agents -> {"missing", "downloading", "available"}]
  /\ Target \in 1 .. 10
  /\ {reservationRetry, timeout, backoffMax} \subseteq Nat
  /\ {maxPerRound, backoffBase} \subseteq Nat \ {0}

VARIABLES agent,    \* agent[a]: rows of the agent and its node
          cache,    \* cache[a]: the snapshot of NodeCacheView
          steam,    \* steam_branches of the game, in table order
          config,   \* game_container_configs with its port excerpts
          editing,  \* configuration whose excerpts are still to be replaced
          ports,    \* game_container_port_mappings
          inst,     \* inst[i]: row of i in game_instances
          job,      \* job[i]: the call of Schedule for i
          row,      \* row[i]: row of i in scheduling_queue, or None
          cleaning, \* instances whose clean-up has still to delete the port rows
          scanned,  \* QueueWaker has scanned since the last tick
          changes

vars == <<agent, cache, steam, config, editing, ports, inst, job, row, cleaning, scanned,
          changes>>

AgentRow == [status : {"unregistered", "enabled", "disabled"},
             health : {"unknown", "healthy", "degraded", "unhealthy"},
             beat : {"none", "fresh", "stale"},
             pressure : {"Normal", "Critical"},
             reserved : [Dims -> Nat]]

InstanceRow == [status : {"Scheduling", "Queued", "Warming", "Preparing",
                          "Stopping", "Releasing", "Stopped", "Failed"},
                agent : Agents \cup {0}, req : [Dims -> Nat],
                why : {"", "config_error", "structural", "conflicts", "queue_timeout"}]

Zero == [d \in Dims |-> 0]
IdleJob == [pc |-> "idle", attempt |-> 0, view |-> None, best |-> 0,
            req |-> Zero, branch |-> None, single |-> FALSE, warm |-> FALSE, rows |-> {}]

Init ==
  /\ \E beat \in {"fresh", "stale"} :
       agent = [a \in Agents |-> [status |-> "enabled", health |-> "healthy",
                                  beat |-> beat, pressure |-> "Normal", reserved |-> Zero]]
  /\ cache = Cache0 /\ steam = Steam0
  /\ config = Config0 /\ editing = None
  /\ ports = {}
  /\ inst = [i \in Instances |-> [status |-> "Stopped", agent |-> 0, req |-> Override[i], why |-> ""]]
  /\ job = [i \in Instances |-> IdleJob]
  /\ row = [i \in Instances |-> None]
  /\ cleaning = {}
  /\ scanned = FALSE
  /\ changes = 0
-----------------------------------------------------------------------------
(* What is asked for and what there is.                                    *)

\* Given at creation, else configured, else (hard dimensions) the default. The
\* row of an instance created with a request keeps it where a placement
\* records its own: from then on that one counts in every dimension, until a
\* failed stop drops it.
Given(i) == IF Override[i] # Zero THEN inst[i].req ELSE Zero
resolveRequest(i) ==
  [d \in Dims |-> IF Given(i)[d] > 0 THEN Given(i)[d]
                  ELSE IF config.req[d] > 0 THEN config.req[d]
                  ELSE IF d \in HardDims THEN DefaultReq[d] ELSE 0]

\* The enabled branch named public, or the first enabled one; None without.
resolveBranch ==
  LET enabled == SelectSeq(steam, LAMBDA b : b.enabled)
      public == SelectSeq(enabled, LAMBDA b : b.name = "public")
  IN IF public # <<>> THEN Head(public) ELSE IF enabled # <<>> THEN Head(enabled) ELSE None

capacityLimit(a, d) == (Cap[a][d] * Target) \div 10
Allocatable(a, v, d) == capacityLimit(a, d) - v.reserved[d]
ResourcesSatisfied(a, v, req) == \A d \in HardDims : Allocatable(a, v, d) >= req[d]

HasCache(a) == cache[a] \in {"available", "downloading"}

\* Room for the branch in the cache budget; free when its size is unknown.
constraintCacheDisk(a, v) ==
  LET known == \E b \in Agents : HasCache(b)
      alloc == Allocatable(a, v, "disk")
      buffer == (alloc * 3) \div 20
  IN HasCache(a) \/ ~known \/ CacheSize + buffer <= alloc

RowsOf(a) == {r \in ports : r.agent = a}
PlanOn(a) == PlanPorts(config, usedHostPorts(RowsOf(a)))

\* The hard constraints in the order they are tried, each with the reason
\* that it gives; the first that does not hold excludes the agent.
applyConstraints(i, a, v, req, branch) ==
  << [reason |-> "not enabled",    holds |-> v.status = "enabled"],
     [reason |-> "unhealthy",      holds |-> v.health \in {"healthy", "degraded"}],
     [reason |-> "no heartbeat",   holds |-> v.beat # "none"],
     [reason |-> "heartbeat late", holds |-> v.beat = "fresh"],
     [reason |-> "shortage",       holds |-> ResourcesSatisfied(a, v, req)],
     [reason |-> "ports",          holds |-> PlanOn(a).ok],
     [reason |-> "no branch",      holds |-> branch # None],
     [reason |-> "cache disk",     holds |-> constraintCacheDisk(a, v)],
     [reason |-> "pressure",       holds |-> v.pressure = "Normal"] >>

Reason(i, a, v, req, branch) ==
  LET constraints == applyConstraints(i, a, v, req, branch)
      failed == {k \in DOMAIN constraints : ~constraints[k].holds}
  IN IF failed = {} THEN "eligible" ELSE constraints[Min(failed)].reason

\* What the filter finds of every candidate.
Filter(i, view, req, branch) == [a \in DOMAIN view |-> Reason(i, a, view[a], req, branch)]
Eligible(reasons) == {a \in DOMAIN reasons : reasons[a] = "eligible"}

\* By the words of the reason: a late heartbeat is not among the health
\* reasons and counts as a matter of resources.
isResourceOnly(reason) ==
  reason \notin {"not enabled", "unhealthy", "no heartbeat", "no branch"}
-----------------------------------------------------------------------------
(* Scores.                                                                 *)

DefaultScoreWeights == [region |-> 10, bandwidth |-> 8, locality |-> 5, history |-> 6,
                        balance |-> 7, degraded |-> 20, frequency |-> 0, cache |-> 20]

clamp01(x) == IF x < 0 THEN 0 ELSE IF x > 10 THEN 10 ELSE x
Flag(b) == IF b THEN 10 ELSE 0

\* The sample at index (n - 1) * 0.95 of the sorted window: the least with
\* more samples than that up to it.
percentile95(values) ==
  LET UpTo(k) == {n \in DOMAIN values : values[n] <= values[k]}
      late == {k \in DOMAIN values : Cardinality(UpTo(k)) > ((Len(values) - 1) * 19) \div 20}
  IN IF values = <<>> THEN 0 ELSE Min({values[k] : k \in late})

avgUtilization(a) ==
  IF Samples[a] = <<>> THEN 0
  ELSE (MapThenSumSet(LAMBDA n : Samples[a][n].cpu, DOMAIN Samples[a]) * 10)
         \div (Len(Samples[a]) * Cap[a]["cpu"])

\* Share left of the bandwidth after what is reserved or, if more, was used.
bandwidthRatio(a, v) ==
  LET p95 == percentile95([n \in DOMAIN Samples[a] |-> Samples[a][n].bw])
      spent == Max({v.reserved["bw"], p95})
  IN IF Cap[a]["bw"] = 0 THEN 0 ELSE clamp01(((Cap[a]["bw"] - spent) * 10) \div Cap[a]["bw"])

utilizationOf(a, v) ==
  IF Cap[a]["cpu"] = 0 THEN 0 ELSE (Max({v.reserved["cpu"], Used[a]}) * 10) \div Cap[a]["cpu"]

cacheSpillWatermark == 8

freqRange(eligible) == [min |-> Min({Freq[a] : a \in eligible}), max |-> Max({Freq[a] : a \in eligible})]

ComputeScore(i, a, v, eligible, single) ==
  LET w == DefaultScoreWeights
      f == freqRange(eligible)
      affinity == HasCache(a) /\ utilizationOf(a, v) <= cacheSpillWatermark
  IN w.region * Flag(Region[i] # "" /\ Location[a] = Region[i])
     + w.bandwidth * bandwidthRatio(a, v)
     + w.locality * Flag(inst[i].agent = a)
     + w.history * (10 - clamp01(avgUtilization(a)))
     + w.balance * (10 - clamp01(utilizationOf(a, v)))
     - w.degraded * Flag(v.health = "degraded")
     + w.frequency * (IF single /\ f.max > f.min
                      THEN ((Freq[a] - f.min) * 10) \div (f.max - f.min) ELSE 0)
     + w.cache * Flag(affinity)

\* The highest score, and of equals the smallest agent ID.
pickBest(i, view, eligible, single) ==
  CHOOSE a \in eligible : \A b \in eligible \ {a} :
    LET sa == ComputeScore(i, a, view[a], eligible, single)
        sb == ComputeScore(i, b, view[b], eligible, single)
    IN sa > sb \/ (sa = sb /\ a < b)
-----------------------------------------------------------------------------
(* Decisions.                                                              *)

loadCandidates == [a \in {x \in Agents : agent[x].status # "unregistered"} |-> agent[a]]

hasRegionMatch(i, cands) == Region[i] = "" \/ \E a \in cands : Location[a] = Region[i]

\* Why there is no candidate: structural causes fail, the rest may wait.
classifyNoCandidate(i, reasons, branch) ==
  IF \/ DOMAIN reasons = {}
     \/ branch = None
     \/ regionForce /\ ~hasRegionMatch(i, DOMAIN reasons)
     \/ \E a \in DOMAIN reasons : ~isResourceOnly(reasons[a])
  THEN "Failed" ELSE "Queued"

\* The checks that Schedule makes before it looks at any agent.
ConfigError(req) == config.single /\ (req["cpu"] < Core \/ req["cpu"] % Core # 0)
BuildMissing == resolveBranch # None /\ resolveBranch.build = 0

\* What Schedule decides when nothing interferes: an agent or an outcome.
Decide(i) ==
  LET req == resolveRequest(i)
      reasons == Filter(i, loadCandidates, req, resolveBranch)
      eligible == Eligible(reasons)
  IN IF ConfigError(req) \/ BuildMissing THEN "Failed"
     ELSE IF eligible = {} THEN classifyNoCandidate(i, reasons, resolveBranch)
     ELSE ToString(pickBest(i, loadCandidates, eligible, config.single))

\* Mutant: the dry run trusts the last heartbeat.
PreviewStale(i) ==
  LET req == resolveRequest(i)
      view == [a \in DOMAIN loadCandidates |-> [agent[a] EXCEPT !.beat = "fresh"]]
      reasons == Filter(i, view, req, resolveBranch)
      eligible == Eligible(reasons)
  IN IF eligible # {} THEN ToString(pickBest(i, view, eligible, config.single))
     ELSE IF \A a \in DOMAIN reasons : isResourceOnly(reasons[a])
     THEN "Queued" ELSE "Failed"

\* The dry run for administrators has its own copy of the decision.
Preview(i) ==
  LET req == resolveRequest(i)
      view == loadCandidates
      reasons == Filter(i, view, req, resolveBranch)
      eligible == Eligible(reasons)
  IN IF eligible # {} THEN ToString(pickBest(i, view, eligible, config.single))
     ELSE IF \A a \in DOMAIN reasons : isResourceOnly(reasons[a])
     THEN "Queued" ELSE "Failed"
-----------------------------------------------------------------------------
(* The scheduling queue.                                                   *)

backoff(n) == IF n <= 1 THEN backoffBase ELSE Min({backoffMax, backoffBase * 2^(n - 1)})

PriorityOf(i) == IF Priority[i] <= 0 THEN 100 ELSE Priority[i]

Enqueue(i) == row' = [row EXCEPT ![i] = [attempts |-> 0, wake |-> backoffBase,
                                         left |-> timeout, priority |-> PriorityOf(i)]]
Dequeue(i) == row' = [row EXCEPT ![i] = None]

\* Mutant: the backoff of a retry stays at its base.
OnStillQueuedFlat(i) ==
  row' = [row EXCEPT ![i].attempts = 1, ![i].wake = backoff(1)]

OnStillQueued(i) ==
  row' = [row EXCEPT ![i].attempts = @ + 1, ![i].wake = backoff(row[i].attempts + 1)]

TimedOut(i) == row[i].left = 0

Ends(i, status, why) ==
  /\ inst' = [inst EXCEPT ![i].status = status, ![i].why = why]
  /\ job' = [job EXCEPT ![i] = IdleJob]

\* The dispatcher's end of a Schedule that found nobody: the first time the
\* instance is queued, later it backs off or its time is up.
ToQueue(i) ==
  \/ /\ row[i] = None
     /\ Enqueue(i) /\ Ends(i, "Queued", "")
  \/ /\ row[i] # None /\ ~TimedOut(i)
     /\ OnStillQueued(i) /\ Ends(i, "Queued", "")
  \/ /\ row[i] # None /\ TimedOut(i)
     /\ Dequeue(i) /\ Ends(i, "Failed", "queue_timeout")

\* FailedInstance leaves the queue row to QueueWaker.
ToFailed(i, why) == Ends(i, "Failed", why) /\ UNCHANGED row

Before(i, j) ==
  \/ row[i].priority < row[j].priority
  \/ row[i].priority = row[j].priority /\ (row[i].left < row[j].left \/ (row[i].left = row[j].left /\ i < j))

\* Due rows in order: at most maxPerRound queued instances go to the
\* dispatcher, rows of others met on the way are deleted.
wakeOnce ==
  LET due == {i \in Instances : row[i] # None /\ row[i].wake = 0}
      queued == {i \in due : inst[i].status = "Queued"}
      reached == {i \in due : Cardinality({j \in queued : Before(j, i)}) < maxPerRound}
      woken == queued \cap reached
      stale == reached \ queued
  IN /\ ~scanned \/ woken \cup stale # {}
     /\ scanned' = TRUE
     /\ row' = [i \in Instances |-> IF i \in stale THEN None ELSE row[i]]
     /\ inst' = [i \in Instances |-> IF i \in woken THEN [inst[i] EXCEPT !.status = "Scheduling"] ELSE inst[i]]
     /\ job' = [i \in Instances |-> IF i \in woken THEN [IdleJob EXCEPT !.pc = "check"] ELSE job[i]]
     /\ UNCHANGED <<agent, cache, steam, config, editing, ports, cleaning, changes>>

Less(n) == IF n = 0 THEN 0 ELSE n - 1

\* Time passes; QueueWaker scans more often than any backoff ends.
Tick ==
  /\ scanned /\ scanned' = FALSE
  /\ row' = [i \in Instances |-> IF row[i] = None THEN None
                                 ELSE [row[i] EXCEPT !.wake = Less(@), !.left = Less(@)]]
  /\ UNCHANGED <<agent, cache, steam, config, editing, ports, inst, job, cleaning, changes>>
-----------------------------------------------------------------------------
(* One call of Schedule.                                                   *)

\* The agent is kept only by a failed stop, which is to be repeated first.
IsStopFailure(i) == inst[i].status = "Failed" /\ inst[i].agent # 0

\* A start while the port rows of the last placement are still there is one of
\* the disturbances that MaxChanges bounds.
Begin(i) ==
  /\ inst[i].status \in {"Stopped", "Failed"} /\ ~IsStopFailure(i) /\ job[i].pc = "idle"
  /\ IF i \in cleaning THEN changes < MaxChanges /\ changes' = changes + 1 ELSE UNCHANGED changes
  /\ inst' = [inst EXCEPT ![i].status = "Scheduling", ![i].why = ""]
  /\ job' = [job EXCEPT ![i] = [IdleJob EXCEPT !.pc = "check"]]
  /\ UNCHANGED <<agent, cache, steam, config, editing, ports, row, cleaning, scanned>>

\* Configuration, request and branch are read once for all attempts; a bad
\* configuration ends the call.
Check(i) ==
  /\ job[i].pc = "check"
  /\ IF ConfigError(resolveRequest(i)) \/ BuildMissing
     THEN ToFailed(i, "config_error")
     ELSE /\ job' = [job EXCEPT ![i].pc = "load", ![i].req = resolveRequest(i),
                                ![i].branch = resolveBranch, ![i].single = config.single]
          /\ UNCHANGED <<inst, row>>
  /\ UNCHANGED <<agent, cache, steam, config, editing, ports, cleaning, scanned, changes>>

Load(i) ==
  /\ job[i].pc = "load"
  /\ job' = [job EXCEPT ![i].pc = "choose", ![i].view = loadCandidates]
  /\ UNCHANGED <<agent, cache, steam, config, editing, ports, inst, row, cleaning, scanned, changes>>

\* Filter and score, on the rows as they were loaded. Ports and caches are
\* looked up now.
Choose(i) ==
  LET view == job[i].view
      reasons == Filter(i, view, job[i].req, job[i].branch)
      eligible == Eligible(reasons)
  IN /\ job[i].pc = "choose"
     /\ \/ /\ eligible # {}
           /\ LET best == pickBest(i, view, eligible, job[i].single)
              IN job' = [job EXCEPT ![i].pc = "plan", ![i].best = best, ![i].warm = ~HasCache(best)]
           /\ UNCHANGED <<inst, row>>
        \/ /\ eligible = {} /\ classifyNoCandidate(i, reasons, job[i].branch) = "Queued"
           /\ ToQueue(i)
        \/ /\ eligible = {} /\ classifyNoCandidate(i, reasons, job[i].branch) = "Failed"
           /\ ToFailed(i, "structural")
     /\ UNCHANGED <<agent, cache, steam, config, editing, ports, cleaning, scanned, changes>>

\* Mutant: no limit on the attempts.
RetryForever(i) ==
  /\ job' = [job EXCEPT ![i] = [job[i] EXCEPT !.pc = "load"]]
  /\ UNCHANGED <<inst, row>>

\* Conflicts start over with fresh rows, reservationRetry times.
Retry(i) ==
  IF job[i].attempt >= reservationRetry
  THEN ToFailed(i, "conflicts")
  ELSE /\ job' = [job EXCEPT ![i] = [IdleJob EXCEPT !.pc = "load", !.attempt = job[i].attempt + 1,
                                !.req = job[i].req, !.branch = job[i].branch, !.single = job[i].single]]
       /\ UNCHANGED <<inst, row>>

Plan(i) ==
  LET plan == PlanOn(job[i].best)
  IN /\ job[i].pc = "plan"
     /\ IF plan.ok THEN /\ job' = [job EXCEPT ![i].pc = "reserve", ![i].rows = plan.rows]
                        /\ UNCHANGED <<inst, row>>
                   ELSE Retry(i)
     /\ UNCHANGED <<agent, cache, steam, config, editing, ports, cleaning, scanned, changes>>

Planned(i) == {[inst |-> i, agent |-> job[i].best, proto |-> r.proto, host |-> r.host,
                container |-> r.container, isGamePort |-> r.isGamePort] : r \in job[i].rows}

Full(i, a) == \E d \in HardDims : agent[a].reserved[d] + job[i].req[d] > capacityLimit(a, d)
PortTaken(i, a) == \E p \in RowsOf(a), r \in job[i].rows : p.host = r.host /\ p.proto = r.proto

Granted(i, a) ==
  /\ agent' = [agent EXCEPT ![a].reserved = [d \in Dims |-> @[d] + job[i].req[d]]]
  /\ ports' = ports \cup Planned(i)
  /\ inst' = [inst EXCEPT ![i] = [status |-> IF job[i].warm THEN "Warming" ELSE "Preparing",
                                  agent |-> a, req |-> job[i].req, why |-> ""]]
  /\ job' = [job EXCEPT ![i] = IdleJob]
  /\ Dequeue(i)

\* Mutants of the transaction: no second look at the capacity, none at the
\* ports, and a capacity that may not be used up.
TryReserveBlind(i) ==
  LET a == job[i].best
  IN /\ job[i].pc = "reserve"
     /\ IF PortTaken(i, a) THEN Retry(i) /\ UNCHANGED <<agent, ports>> ELSE Granted(i, a)
     /\ UNCHANGED <<cache, steam, config, editing, cleaning, scanned, changes>>

TryReservePortBlind(i) ==
  LET a == job[i].best
  IN /\ job[i].pc = "reserve"
     /\ IF Full(i, a) THEN Retry(i) /\ UNCHANGED <<agent, ports>> ELSE Granted(i, a)
     /\ UNCHANGED <<cache, steam, config, editing, cleaning, scanned, changes>>

TryReserveStrict(i) ==
  LET a == job[i].best
      tight == \E d \in HardDims : agent[a].reserved[d] + job[i].req[d] >= capacityLimit(a, d)
  IN /\ job[i].pc = "reserve"
     /\ IF tight \/ PortTaken(i, a) THEN Retry(i) /\ UNCHANGED <<agent, ports>> ELSE Granted(i, a)
     /\ UNCHANGED <<cache, steam, config, editing, cleaning, scanned, changes>>

\* The transaction looks at capacity and ports again under the node's lock.
TryReserve(i) ==
  LET a == job[i].best
  IN /\ job[i].pc = "reserve"
     /\ IF Full(i, a) \/ PortTaken(i, a) THEN Retry(i) /\ UNCHANGED <<agent, ports>>
                                         ELSE Granted(i, a)
     /\ UNCHANGED <<cache, steam, config, editing, cleaning, scanned, changes>>

\* The end of an instance, cleaned up or failed: the reservation first, with
\* the request recorded when it was made; then the row; then, only after a
\* clean-up, the port rows.
\* Bound: an instance comes to its next end after the port rows of its last
\* clean-up are gone.

\* Mutant: what is given back is what the instance would ask for now.
ReleaseResolved(i) ==
  /\ inst[i].status \in {"Warming", "Preparing", "Stopping"} /\ i \notin cleaning
  /\ agent' = [agent EXCEPT ![inst[i].agent].reserved =
                 [d \in Dims |-> Max({@[d] - resolveRequest(i)[d], 0})]]
  /\ inst' = [inst EXCEPT ![i].status = "Releasing"]
  /\ UNCHANGED <<cache, steam, config, editing, ports, job, row, cleaning, scanned, changes>>

Release(i) ==
  /\ inst[i].status \in {"Warming", "Preparing", "Stopping"} /\ i \notin cleaning
  /\ agent' = [agent EXCEPT ![inst[i].agent].reserved =
                 [d \in Dims |-> Max({@[d] - inst[i].req[d], 0})]]
  /\ inst' = [inst EXCEPT ![i].status = "Releasing"]
  /\ UNCHANGED <<cache, steam, config, editing, ports, job, row, cleaning, scanned, changes>>

\* After the Save the instance may be started again.
onCleanInstanceSucceeded(i) ==
  /\ inst[i].status = "Releasing"
  /\ inst' = [inst EXCEPT ![i].status = "Stopped", ![i].agent = 0]
  /\ cleaning' = cleaning \cup {i}
  /\ UNCHANGED <<agent, cache, steam, config, editing, ports, job, row, scanned, changes>>

\* All rows of the instance go, whichever placement they are from.
ReleasePorts(i) ==
  /\ i \in cleaning
  /\ ports' = {r \in ports : r.inst # i}
  /\ cleaning' = cleaning \ {i}
  /\ UNCHANGED <<agent, cache, steam, config, editing, inst, job, row, scanned, changes>>

\* Mutant: the request stays in the row of a stop that failed.
FailedInstanceKeepsRequest(i) ==
  /\ inst[i].status = "Releasing" /\ changes < MaxChanges /\ changes' = changes + 1
  /\ \/ inst' = [inst EXCEPT ![i].status = "Failed"]
     \/ inst[i].req # Zero /\ inst' = [inst EXCEPT ![i].status = "Failed", ![i].agent = 0]
  /\ UNCHANGED <<agent, cache, steam, config, editing, ports, job, row, cleaning, scanned>>

\* A failure keeps the port rows; one while stopping or cleaning keeps the
\* agent too and drops the request, so that nothing is given back twice.
FailedInstance(i) ==
  /\ inst[i].status = "Releasing" /\ changes < MaxChanges /\ changes' = changes + 1
  /\ \/ inst' = [inst EXCEPT ![i].status = "Failed", ![i].req = Zero]
     \/ inst[i].req # Zero /\ inst' = [inst EXCEPT ![i].status = "Failed", ![i].agent = 0]
  /\ UNCHANGED <<agent, cache, steam, config, editing, ports, job, row, cleaning, scanned>>

\* The stop that failed is tried again; what it gives back is in the row.
StopGameInstance(i) ==
  /\ IsStopFailure(i)
  /\ inst' = [inst EXCEPT ![i].status = "Stopping"]
  /\ UNCHANGED <<agent, cache, steam, config, editing, ports, job, row, cleaning, scanned, changes>>
-----------------------------------------------------------------------------
(* The surroundings.                                                       *)

Changed == changes < MaxChanges /\ changes' = changes + 1

\* Administrators, the health monitor and the pressure monitor.
AgentChanges(a) ==
  /\ Changed
  /\ \/ \E s \in {"enabled", "disabled"} \ {agent[a].status} : agent' = [agent EXCEPT ![a].status = s]
     \/ agent[a].reserved = Zero /\ agent' = [agent EXCEPT ![a].status = "unregistered"]
     \/ \E h \in {"healthy", "degraded", "unhealthy"} \ {agent[a].health} : agent' = [agent EXCEPT ![a].health = h]
     \/ \E b \in {"fresh", "stale"} \ {agent[a].beat} : agent' = [agent EXCEPT ![a].beat = b]
     \/ \E p \in {"Normal", "Critical"} \ {agent[a].pressure} : agent' = [agent EXCEPT ![a].pressure = p]
  /\ UNCHANGED <<cache, steam, config, editing, ports, inst, job, row, cleaning, scanned>>

CacheChanges(a) ==
  /\ Changed
  /\ \E s \in {"missing", "downloading", "available"} \ {cache[a]} : cache' = [cache EXCEPT ![a] = s]
  /\ UNCHANGED <<agent, steam, config, editing, ports, inst, job, row, cleaning, scanned>>

SteamChanges ==
  /\ Changed
  /\ steam' \in Branches \ {steam}
  /\ UNCHANGED <<agent, cache, config, editing, ports, inst, job, row, cleaning, scanned>>

\* UpdateConfig saves the row and then replaces the excerpts.
UpdateConfig ==
  /\ Changed /\ editing = None
  /\ \E c \in Configs \ {config} :
       /\ config' = [c EXCEPT !.excerpts = config.excerpts]
       /\ editing' = c.excerpts
  /\ UNCHANGED <<agent, cache, steam, ports, inst, job, row, cleaning, scanned>>

ReplacePortExcerpts ==
  /\ editing # None
  /\ config' = [config EXCEPT !.excerpts = editing]
  /\ editing' = None
  /\ UNCHANGED <<agent, cache, steam, ports, inst, job, row, cleaning, scanned, changes>>

Schedule(i) == Check(i) \/ Load(i) \/ Choose(i) \/ Plan(i) \/ TryReserve(i)

Next ==
  \/ \E i \in Instances : \/ Begin(i) \/ Schedule(i)
                          \/ Release(i) \/ onCleanInstanceSucceeded(i) \/ ReleasePorts(i)
                          \/ FailedInstance(i) \/ StopGameInstance(i)
  \/ wakeOnce \/ Tick
  \/ \E a \in Agents : AgentChanges(a) \/ CacheChanges(a)
  \/ SteamChanges \/ UpdateConfig \/ ReplacePortExcerpts

\* Weak fairness of Schedule(i), which is enabled exactly while the call is
\* under way, written without ENABLED.
ScheduleRuns(i) == []<>(job[i].pc = "idle") \/ []<><<job'[i] # job[i]>>_vars

\* The dispatcher's goroutines and QueueWaker run on; nobody else has to.
Spec ==
  /\ Init /\ [][Next]_vars
  /\ \A i \in Instances : /\ ScheduleRuns(i) /\ WF_vars(ReleasePorts(i))
                           /\ WF_vars(onCleanInstanceSucceeded(i) \/ FailedInstance(i))
  /\ WF_vars(wakeOnce) /\ WF_vars(Tick) /\ WF_vars(ReplacePortExcerpts)
-----------------------------------------------------------------------------
(* Properties.                                                             *)

\* Types of the rows, the calls and the queue.
TypeOK ==
  /\ agent \in [Agents -> AgentRow]
  /\ cache \in [Agents -> {"missing", "downloading", "available"}]
  /\ steam \in Branches
  /\ \A r \in ports : r.inst \in Instances /\ r.agent \in Agents /\ r.proto \in ProtocolType
  /\ inst \in [Instances -> InstanceRow] /\ cleaning \subseteq Instances
  /\ \A i \in Instances :
       /\ job[i].pc \in {"idle", "check", "load", "choose", "plan", "reserve"}
       /\ job[i].attempt \in 0 .. reservationRetry
       /\ row[i] # None => row[i].wake <= Max({backoffBase, backoffMax}) /\ row[i].left <= timeout

Placed(i) == inst[i].status \in {"Warming", "Preparing"}
Holds(i, a) == inst[i].agent = a /\ Placed(i)

\* The counters of a node are the requests of the instances it holds, as
\* they were when they were placed, and never exceed the limit, although
\* every scheduler decided on rows that others have changed since, the
\* configured request may have been edited and an end may fail and be repeated
\* (TryReserve, Release, FailedInstance).
NeverOvercommitted ==
  \A a \in Agents, d \in Dims :
    /\ agent[a].reserved[d] = MapThenSumSet(LAMBDA i : inst[i].req[d], {i \in Instances : Holds(i, a)})
    /\ d \in HardDims => agent[a].reserved[d] <= capacityLimit(a, d)

\* No two rows give one protocol's host port of an agent twice, although
\* plans are made outside the transaction (TryReserve, step 3).
PortsExclusive ==
  \A r, s \in ports :
    r.agent = s.agent /\ r.proto = s.proto /\ r.host = s.host => r = s

Injected == config.inject /\ config.mode = "nat"

\* The port on which a game listens that declares port: its own one, or in an
\* injected block that begins at host port start, the host's.
InBlock(port) ==
  /\ Injected
  /\ port \in gameBase(config.excerpts) .. gameBase(config.excerpts) + blockLen(config.excerpts) - 1
ListensOn(start, port) ==
  IF InBlock(port) THEN start + (port - gameBase(config.excerpts)) ELSE port

\* Whatever is in use, a plan that succeeds serves the configuration: there
\* is one start of the block such that every declared port has, for each of
\* its protocols, a row to where the game listens, from a host port that was
\* free, the same one in a block; and no row leads anywhere else.  No two rows
\* share a host port, and outside injection the protocols of one container
\* port share theirs (PlanPorts).
PlanServes ==
  \A a \in Agents :
    LET plan == PlanOn(a)
        es == config.excerpts
    IN plan.ok =>
         /\ \E start \in TCP_PORT_BEGIN .. TCP_PORT_END :
              /\ \A port \in Declared(es) : \A p \in portRequirement(es, port) :
                   \E r \in plan.rows :
                     /\ r.proto = p /\ r.container = ListensOn(start, port)
                     /\ InBlock(port) => r.host = r.container
                     /\ ~portInUse(usedHostPorts(RowsOf(a)), {p}, r.host)
              /\ \A r \in plan.rows : \E port \in Declared(es) :
                   /\ r.proto \in portRequirement(es, port)
                   /\ r.container \in {port, ListensOn(start, port)}
         /\ \A r, s \in plan.rows : r.host = s.host /\ r.proto = s.proto => r = s
         /\ ~Injected => \A r, s \in plan.rows : r.container = s.container => r.host = s.host

\* The dry run tells what Schedule would do now, unless there is no agent or
\* no branch at all, the configuration is refused beforehand, or the region
\* is forced: those checks Preview does not make (Preview).
PreviewAgrees ==
  \A i \in Instances :
    \/ DOMAIN loadCandidates = {} \/ resolveBranch = None \/ regionForce
    \/ ConfigError(resolveRequest(i)) \/ BuildMissing
    \/ Preview(i) = Decide(i)

\* A reservation is refused only if the node or its ports changed since the
\* call read them: the transaction's limits are those of the filter, so a
\* call that runs alone never loses an attempt (TryReserve, ComputeCapacity).
RefusedOnlyIfChanged ==
  [][\A i \in Instances :
       job[i].pc = "reserve" /\ job'[i].pc = "load" =>
         LET a == job[i].best
         IN \/ agent[a].reserved # job[i].view[a].reserved
            \/ job[i].rows # PlanOn(a).rows]_vars

\* Rows read long ago, edited requests, lost races and repeated stops
\* notwithstanding, the counters move only as Reservations allows: by what one
\* instance takes or, later and once, by the very same (TryReserve, Release,
\* FailedInstance, StopGameInstance).
Reservation == INSTANCE Reservations WITH
  Limit <- [a \in Agents |-> [d \in HardDims |-> capacityLimit(a, d)]],
  NoAgent <- 0,
  reserved <- [a \in Agents |-> agent[a].reserved],
  held <- [i \in Instances |-> IF Placed(i) THEN [agent |-> inst[i].agent, req |-> inst[i].req]
                                           ELSE [agent |-> 0, req |-> Zero]]

ImplementsReservations == Reservation!Spec

\* Every call of Schedule returns: conflicts do not go on for ever.
ScheduleEnds == \A i \in Instances : []<>(job[i].pc = "idle")

\* No instance stays queued for ever, the least urgent neither: with backoff
\* the others leave it a turn, and its time runs out (wakeOnce, backoff).
QueueEnds == \A i \in Instances : []<>(inst[i].status # "Queued")

\* What players are told is where the game listens: the address is the host
\* port of the declared game port, the adapter of an injecting configuration
\* is told the same one and any other nothing.  A plan marks only a TCP row,
\* so an injected game port without TCP is left out (Rows, the two readers).
GamePortReached ==
  \A a \in Agents :
    LET plan == PlanOn(a)
        es == config.excerpts
        address == GetInstanceConnectInfo(config, plan.rows)
        told == buildInstanceEnv(config, plan.rows)
        protos == portRequirement(es, gameBase(es))
    IN plan.ok /\ gameBase(es) # 0 /\ protos # {} /\ (Injected => "tcp" \in protos) =>
         /\ \E r \in plan.rows : r.host = address /\
              r.container = (IF Injected THEN address ELSE gameBase(es))
         /\ told = IF Injected THEN address ELSE 0

\* What the transaction is for: limits and ports hold although every scheduler
\* works from rows it read before (TryReserve).
LimitsKept == TypeOK /\ NeverOvercommitted /\ PortsExclusive

\* What a call decides stands: only others' changes refuse a reservation, and
\* what is reserved is given back as it was (TryReserve, Release).
TransactionsKept == RefusedOnlyIfChanged /\ ImplementsReservations

\* A plan is complete, and the game can be reached through it (PlanPorts).
PlanIsUsable == PlanServes /\ GamePortReached

\* Neither a call nor a place in the queue lasts for ever (Schedule, wakeOnce).
CallsEnd == ScheduleEnds /\ QueueEnds
=============================================================================

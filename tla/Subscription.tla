---------------------------- MODULE Subscription ----------------------------
(***************************************************************************)
(* Subscriptions (platform-service/internal/biz/subscription_use_case.go)  *)
(* and the controller's rule that at most one instance of a subscription   *)
(* is active: the check before a start, and the partial unique index of    *)
(* migration 000027 that backs it.                                         *)
(*                                                                         *)
(* A use case reads the subscription, calls the controller, and saves the  *)
(* whole subscription; each of these is a step.  The life of an instance   *)
(* is what InstanceLifecycle details: here the statuses up to a node       *)
(* (Pending, Scheduling, Queued) are "Busy", those from the build to the   *)
(* start "Preparing", Stopping and Cleaning "Stopping", and a failure that *)
(* keeps the node is "StopFailed".                                         *)
(***************************************************************************)
EXTENDS Integers, FiniteSets

CONSTANTS Subs, Instances,
          Handlers,      \* HTTP handlers that run at once
          Sweeper,       \* the goroutine of the expiry sweep
          MaxInstances,  \* MaxInstances[s]: max_instances of the plan s buys (0: no limit)
          MaxTime,       \* bound: last moment of the clock
          Overlap,       \* may operations on one subscription overlap?
          NoSub, NoInst

ASSUME SubscriptionAssumption ==
  /\ MaxInstances \in [Subs -> Nat] /\ MaxTime \in Nat
  /\ IsFiniteSet(Instances)
  /\ Overlap \in BOOLEAN
  /\ Sweeper \notin Handlers
  /\ NoSub \notin Subs /\ NoInst \notin Instances

VARIABLES sub,   \* sub[s]: status and expires_at of the row of s
          inst,  \* inst[i]: owner and status of the row, and the dispatcher's copy
          op,    \* op[p]: the operation that process p performs
          rest,  \* rows the running sweep has still to visit, as it read them
          now

vars == <<sub, inst, op, rest, now>>

Processes == Handlers \cup {Sweeper}
InstanceStatus == {"none", "Stopped", "Busy", "CacheWarming", "Preparing", "Running",
                   "Stopping", "Failed", "StopFailed"}
SubscriptionStatus == {"none", "active", "expired", "cancelled", "suspended"}

\* IsActive of the entity, and the statuses the index counts. The two are meant
\* to be the same set (the comments of the migration and of IsActive, section 5
\* of subscription-design.md, the drift test), and they are not: the index
\* leaves out Stopped = 8 and 10, which is CacheWarming, and counts Failed = 11.
IsActive(status) == status \notin {"none", "Stopped", "Failed", "StopFailed"}
Indexed(status) == status \notin {"none", "Stopped", "CacheWarming"}

\* May the row of i have this status?  uq_subscription_single_active.
IndexAllows(i, status) ==
  Indexed(status) => \A j \in Instances \ {i} :
                       inst[j].sub = inst[i].sub => ~Indexed(inst[j].status)

NoRow == [status |-> "none", expires |-> 0]
Idle == [kind |-> "idle", pc |-> "idle", s |-> NoSub, i |-> NoInst,
         read |-> NoRow, todo |-> {}, err |-> FALSE]

Init == /\ sub = [s \in Subs |-> NoRow]
        /\ inst = [i \in Instances |-> [sub |-> NoSub, status |-> "none", copy |-> "none"]]
        /\ op = [p \in Processes |-> Idle]
        /\ rest = {}
        /\ now = 0
-----------------------------------------------------------------------------
Overdue(x) == x.expires < now
checkActive(x) == x.status = "active" /\ ~Overdue(x)

\* Is nobody at work on s?
Quiet(s) == (\A r \in rest : r.s # s) /\ (\A q \in Processes : op[q].s # s)
MayBegin(p, s) == op[p] = Idle /\ (Overlap \/ Quiet(s))

Begin(p, kind, s, i, pc) ==
  /\ MayBegin(p, s)
  /\ op' = [op EXCEPT ![p] = [Idle EXCEPT !.kind = kind, !.pc = pc, !.s = s, !.i = i,
                                          !.read = sub[s]]]
  /\ UNCHANGED <<sub, inst, rest, now>>

Done(p) == op' = [op EXCEPT ![p] = Idle]

\* Purchase: a new row, for one period of the plan.
Purchase(s) ==
  /\ sub[s].status = "none"
  /\ now < MaxTime
  /\ sub' = [sub EXCEPT ![s] = [status |-> "active", expires |-> now + 1]]
  /\ UNCHANGED <<inst, op, rest, now>>

\* Suspend, Cancel, Unsuspend and Renew: what they require and what they save.
\* Every plan has a duration here.
Requires == [Suspend |-> {"active"}, Cancel |-> {"active", "suspended"},
             Unsuspend |-> {"suspended"}, Renew |-> {"active", "expired"}]
Later(x) == IF x.expires > now THEN x.expires ELSE now

Saved(kind, x) ==
  [status |-> CASE kind = "Suspend" -> "suspended"
                [] kind = "Cancel" -> "cancelled"
                [] kind = "Expire" -> "expired"
                [] OTHER -> "active",
   expires |-> IF kind = "Renew" THEN Later(x) + 1 ELSE x.expires]

BeginChange(p, kind, s) ==
  /\ sub[s].status \in Requires[kind]
  /\ kind = "Renew" => Later(sub[s]) < MaxTime
  /\ Begin(p, kind, s, NoInst, IF kind \in {"Suspend", "Cancel"} THEN "list" ELSE "save")

\* The sweep lists what is overdue, visits one after the other and returns at
\* the first error.
ExpireOverdue ==
  /\ op[Sweeper] = Idle /\ rest = {}
  /\ rest' = {[s |-> s, read |-> sub[s]] :
                s \in {x \in Subs : /\ sub[x].status = "active" /\ Overdue(sub[x])
                                    /\ Overlap \/ Quiet(x)}}
  /\ rest' # {}
  /\ UNCHANGED <<sub, inst, op, now>>

ExpireOne ==
  /\ op[Sweeper] = Idle
  /\ \E r \in rest :
       /\ rest' = rest \ {r}
       /\ op' = [op EXCEPT ![Sweeper] = [Idle EXCEPT !.kind = "Expire", !.pc = "list", !.s = r.s,
                                                     !.read = r.read]]
  /\ UNCHANGED <<sub, inst, now>>

\* Mutant: instances at rest are asked to stop as well.
ListAllInstances(p) ==
  /\ op[p].pc = "list"
  /\ op' = [op EXCEPT ![p].pc = "stop", ![p].todo = {i \in Instances : inst[i].sub = op[p].s}]
  /\ UNCHANGED <<sub, inst, rest, now>>

\* stopActiveInstances: list what is not stopped or failed ...
ListInstances(p) ==
  /\ op[p].pc = "list"
  /\ op' = [op EXCEPT ![p].pc = "stop",
                      ![p].todo = {i \in Instances : inst[i].sub = op[p].s /\ IsActive(inst[i].status)}]
  /\ UNCHANGED <<sub, inst, rest, now>>

MayStop(i) == inst[i].status \in {"Running", "StopFailed"}
StopGameInstance(i) == inst' = [inst EXCEPT ![i].status = "Stopping", ![i].copy = "Stopping"]

\* ... and stop one after the other; an error is remembered, not the end.
StopOne(p, i) ==
  /\ op[p].pc = "stop" /\ i \in op[p].todo
  /\ IF MayStop(i) THEN StopGameInstance(i) ELSE UNCHANGED inst
  /\ op' = [op EXCEPT ![p].todo = @ \ {i}, ![p].err = @ \/ ~MayStop(i)]
  /\ UNCHANGED <<sub, rest, now>>

\* Mutant: the errors of the stops are ignored.
StoppedAllAnyway(p) ==
  /\ op[p].pc = "stop" /\ op[p].todo = {}
  /\ op' = [op EXCEPT ![p].pc = "save"]
  /\ UNCHANGED <<sub, inst, rest, now>>

\* An error ends the operation before the save, and the sweep with it.
StoppedAll(p) ==
  /\ op[p].pc = "stop" /\ op[p].todo = {}
  /\ \/ op[p].err /\ Done(p) /\ rest' = IF p = Sweeper THEN {} ELSE rest
     \/ ~op[p].err /\ op' = [op EXCEPT ![p].pc = "save"] /\ UNCHANGED rest
  /\ UNCHANGED <<sub, inst, now>>

SaveSubscription(p) ==
  /\ op[p].pc = "save"
  /\ sub' = [sub EXCEPT ![op[p].s] = Saved(op[p].kind, op[p].read)]
  /\ Done(p)
  /\ UNCHANGED <<inst, rest, now>>
-----------------------------------------------------------------------------
(* Instances of a subscription.                                            *)

Owned(s) == {i \in Instances : inst[i].sub = s}

\* Bound: an instance ID is left for one more creation.
IdLeft == Cardinality({p \in Processes : op[p].pc = "create"}) < Cardinality(Owned(NoSub))

\* Mutant: one instance too many.
BeginCreateOver(p, s) ==
  /\ IdLeft
  /\ checkActive(sub[s])
  /\ MaxInstances[s] > 0 => Cardinality(Owned(s)) <= MaxInstances[s]
  /\ Begin(p, "Create", s, NoInst, "create")

\* CreateInstance: the checks, and the controller's insert.
BeginCreate(p, s) ==
  /\ IdLeft
  /\ checkActive(sub[s])
  /\ MaxInstances[s] > 0 => Cardinality(Owned(s)) < MaxInstances[s]
  /\ Begin(p, "Create", s, NoInst, "create")

CreateInstance(p, i) ==
  /\ op[p].pc = "create"
  /\ inst[i].sub = NoSub
  /\ inst' = [inst EXCEPT ![i] = [sub |-> op[p].s, status |-> "Stopped", copy |-> "none"]]
  /\ Done(p)
  /\ UNCHANGED <<sub, rest, now>>

\* StartInstance: the platform's checks; then the controller's.
BeginStart(p, s, i) ==
  /\ i \in Owned(s)
  /\ checkActive(sub[s])
  /\ Begin(p, "Start", s, i, "start")

\* Mutant: no look at the other instances.
anySlot(i) == TRUE

checkSubscriptionSlot(i) == \A j \in Owned(inst[i].sub) \ {i} : ~IsActive(inst[j].status)

StartChecks(p) ==
  /\ op[p].pc = "start"
  /\ op' = [op EXCEPT ![p] = IF /\ inst[op[p].i].status \in {"Stopped", "Failed"}
                                /\ checkSubscriptionSlot(op[p].i)
                             THEN [@ EXCEPT !.pc = "pending"] ELSE Idle]
  /\ UNCHANGED <<sub, inst, rest, now>>

\* ... and its save, which the index may refuse: mapSaveConflict answers that
\* several instances were started at once.
StartGameInstance(p) ==
  LET i == op[p].i
  IN /\ op[p].pc = "pending"
     /\ IF IndexAllows(i, "Busy")
        THEN /\ inst' = [inst EXCEPT ![i].status = "Busy", ![i].copy = "Busy"]
             /\ Done(p)
        ELSE /\ op' = [op EXCEPT ![p].pc = "conflict"]
             /\ UNCHANGED inst
     /\ UNCHANGED <<sub, rest, now>>

Conflict(p) ==
  /\ op[p].pc = "conflict"
  /\ Done(p)
  /\ UNCHANGED <<sub, inst, rest, now>>

\* StopInstance is allowed whatever the state of the subscription.
StopInstance(s, i) ==
  /\ i \in Owned(s)
  /\ Overlap \/ Quiet(s)
  /\ MayStop(i)
  /\ StopGameInstance(i)
  /\ UNCHANGED <<sub, op, rest, now>>

\* The administrator deletes an instance that the dispatcher does not handle,
\* or one that waits in the scheduling queue, which is Busy here.
DeleteInstance(i) ==
  /\ inst[i].status \in {"Stopped", "Failed", "StopFailed", "Running", "Busy"}
  /\ Overlap \/ Quiet(inst[i].sub)
  /\ inst' = [inst EXCEPT ![i] = [sub |-> NoSub, status |-> "none", copy |-> "none"]]
  /\ UNCHANGED <<sub, op, rest, now>>

\* The dispatcher moves its copy on; the error of a write that the index
\* refuses is ignored.
Follows == [Busy |-> {"CacheWarming", "Preparing", "Failed", "Stopped"},
            CacheWarming |-> {"Preparing", "Failed"},
            Preparing |-> {"Running", "Failed"},
            Stopping |-> {"Stopped", "StopFailed"}]
Advance(i, to) ==
  /\ inst[i].copy # "none" /\ to \in Follows[inst[i].copy]
  /\ inst' = [inst EXCEPT ![i].copy = IF to \in DOMAIN Follows THEN to ELSE "none",
                          ![i].status = IF IndexAllows(i, to) THEN to ELSE @]
  /\ UNCHANGED <<sub, op, rest, now>>

\* The container of a running instance dies.
Die(i) ==
  /\ inst[i].status = "Running"
  /\ inst' = [inst EXCEPT ![i].status = "Failed"]
  /\ UNCHANGED <<sub, op, rest, now>>

Tick == now < MaxTime /\ now' = now + 1 /\ UNCHANGED <<sub, inst, op, rest>>
-----------------------------------------------------------------------------
Step(p) == \/ ListInstances(p) \/ StoppedAll(p) \/ SaveSubscription(p)
           \/ StartChecks(p) \/ StartGameInstance(p) \/ Conflict(p)
           \/ \E i \in Instances : StopOne(p, i) \/ CreateInstance(p, i)

Next ==
  \/ \E s \in Subs : Purchase(s)
  \/ ExpireOverdue \/ ExpireOne
  \/ \E p \in Handlers, s \in Subs :
       \/ \E kind \in DOMAIN Requires : BeginChange(p, kind, s)
       \/ BeginCreate(p, s)
       \/ \E i \in Instances : BeginStart(p, s, i)
  \/ \E p \in Processes : Step(p)
  \/ \E i \in Instances : \/ \E s \in Subs : StopInstance(s, i)
                          \/ \E to \in InstanceStatus : Advance(i, to)
                          \/ DeleteInstance(i) \/ Die(i)
  \/ Tick

Spec == Init /\ [][Next]_vars

\* A handler that began goes on; the dispatcher settles every instance
\* (Settles of InstanceLifecycle); the sweep runs every minute for ever, so
\* it also meets a moment in which no handler works on the subscription.  A
\* node that is asked to stop an instance again and again does so in the end.
FairSpec ==
  /\ Spec
  /\ \A p \in Processes : WF_vars(Step(p))
  /\ WF_vars(ExpireOne)
  /\ \A s \in Subs : SF_vars(ExpireOverdue /\ \E r \in rest' : r.s = s)
  /\ \A i \in Instances :
       /\ WF_vars(\E to \in InstanceStatus : Advance(i, to))
       /\ SF_vars(inst[i].copy = "Stopping" /\ Advance(i, "Stopped"))
-----------------------------------------------------------------------------
\* Types: a renewal or purchase pays for one period, so expires_at is within
\* one period of the clock's end (Purchase, Renew).
TypeOK ==
  LET Rows == [status : SubscriptionStatus, expires : 0 .. MaxTime + 1]
  IN
  /\ sub \in [Subs -> Rows]
  /\ inst \in [Instances -> [sub : Subs \cup {NoSub}, status : InstanceStatus,
                             copy : {"none"} \cup DOMAIN Follows]]
  /\ op \in [Processes -> [kind : {"idle", "Expire", "Create", "Start"} \cup DOMAIN Requires,
                           pc : {"idle", "list", "stop", "save", "create", "start", "pending",
                                 "conflict"},
                           s : Subs \cup {NoSub}, i : Instances \cup {NoInst},
                           read : Rows,
                           todo : SUBSET Instances, err : BOOLEAN]]
  /\ rest \subseteq [s : Subs, read : Rows]
  /\ now \in 0 .. MaxTime

\* Suspend, Cancel and the sweep stop what runs before they save: once a
\* subscription is not active nothing of it is active, or it is stopping.
InactiveIsQuiet ==
  \A i \in Instances :
    inst[i].sub # NoSub /\ sub[inst[i].sub].status # "active" /\ IsActive(inst[i].status) =>
      inst[i].status = "Stopping"

\* The limit of the plan holds through every change of the
\* subscription: the count and the creation are two calls, and nobody
\* creates in between when requests on one subscription do not overlap.
WithinLimit ==
  \A s \in Subs : MaxInstances[s] > 0 => Cardinality(Owned(s)) <= MaxInstances[s]

\* A subscription gets what was paid for and no more, whichever stops fail
\* on the way (Suspend, Cancel, ExpireOverdue, CreateInstance).
PaidFor == TypeOK /\ InactiveIsQuiet /\ WithinLimit

\* At most one instance of a subscription is active: the check before a start
\* sees to it, the index does not count one that is warming its cache.
SingleActive ==
  \A i, j \in Instances :
    i # j /\ inst[i].sub = inst[j].sub /\ IsActive(inst[i].status) => ~IsActive(inst[j].status)

\* No write of the dispatcher is refused by the index: the row follows.
NoWriteLost == \A i \in Instances : inst[i].copy # "none" => inst[i].status = inst[i].copy

\* What the index does refuse is a start, and never for the reason it gives:
\* no other instance of the subscription is active, and one of them has failed.
RefusedBesideFailed ==
  \A p \in Processes : op[p].pc = "conflict" =>
    LET siblings == Owned(inst[op[p].i].sub) \ {op[p].i}
    IN /\ \A j \in siblings : ~IsActive(inst[j].status)
       /\ \E j \in siblings : inst[j].status \in {"Failed", "StopFailed"}

\* The slot of a subscription, with its requests in sequence: the check before
\* a start (checkSubscriptionSlot) keeps it single by itself. The index of
\* migration 000027, which counts the failed and not the warming, adds nothing
\* to that: it refuses no write of the dispatcher, and every start it refuses
\* is one that the check, the design and the drift test would let through.
\* Requests that overlap are another matter: see the README, section 6.
OneSlot == SingleActive /\ NoWriteLost /\ RefusedBesideFailed

\* An overdue subscription is expired, unless it is renewed or given up
\* first: an instance in the middle of a start, which makes the sweep
\* return with an error, delays the expiry of all and prevents none.
OverdueExpires ==
  \A s \in Subs : sub[s].status = "active" /\ Overdue(sub[s]) ~>
                  ~(sub[s].status = "active" /\ Overdue(sub[s]))
=============================================================================

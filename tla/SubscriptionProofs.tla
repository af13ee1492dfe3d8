-------------------------- MODULE SubscriptionProofs --------------------------
(***************************************************************************)
(* What holds of Subscription for any subscriptions, plans, instances and  *)
(* handlers.  As in the run, operations on one subscription come one after *)
(* the other where a theorem says so; those on different ones overlap.     *)
(***************************************************************************)
EXTENDS Subscription, FiniteSetTheorems, TLAPS

Rows == [status : SubscriptionStatus, expires : 0 .. MaxTime + 1]
Insts == [sub : Subs \cup {NoSub}, status : InstanceStatus, copy : {"none"} \cup DOMAIN Follows]
Kinds == {"idle", "Expire", "Create", "Start"} \cup DOMAIN Requires
Pcs == {"idle", "list", "stop", "save", "create", "start", "pending", "conflict"}
Ops == [kind : Kinds, pc : Pcs, s : Subs \cup {NoSub}, i : Instances \cup {NoInst},
        read : Rows, todo : SUBSET Instances, err : BOOLEAN]

\* Operations that stop the instances before they save.
Stopping == {"Suspend", "Cancel", "Expire"}

\* Which operation is where, and what it works on.
Sound(x) ==
  /\ x.pc \in {"list", "stop"} => x.kind \in Stopping
  /\ x.pc = "save" => x.kind \in Stopping \cup {"Unsuspend", "Renew"}
  /\ x.pc = "create" => x.kind = "Create"
  /\ x.pc \in {"start", "pending", "conflict"} => x.kind = "Start" /\ x.i \in Instances
  /\ x.pc # "idle" => x.s \in Subs
  /\ x.pc = "idle" => x = Idle
  /\ x.kind = "Renew" => x.read.expires < MaxTime

SubOK == sub \in [Subs -> Rows]
InstOK == inst \in [Instances -> Insts]
OpOK == op \in [Processes -> Ops] /\ \A p \in Processes : Sound(op[p])
RestOK == rest \subseteq [s : Subs, read : Rows]
NowOK == now \in 0 .. MaxTime
Typed == SubOK /\ InstOK /\ OpOK /\ RestOK /\ NowOK

LEMMA Strings ==
  /\ DOMAIN Follows = {"Busy", "CacheWarming", "Preparing", "Stopping"}
  /\ DOMAIN Requires = {"Suspend", "Cancel", "Unsuspend", "Renew"}
  /\ Follows["Busy"] = {"CacheWarming", "Preparing", "Failed", "Stopped"}
  /\ Follows["CacheWarming"] = {"Preparing", "Failed"}
  /\ Follows["Preparing"] = {"Running", "Failed"}
  /\ Follows["Stopping"] = {"Stopped", "StopFailed"}
BY DEF Follows, Requires

LEMMA NoRowType == NoRow \in Rows
BY SubscriptionAssumption DEF NoRow, Rows, SubscriptionStatus

LEMMA IdleType == Idle \in Ops /\ Sound(Idle) /\ Idle.s = NoSub /\ Idle.pc = "idle"
<1>1. Idle \in Ops
  BY NoRowType DEF Idle, Ops, Kinds, Pcs
<1>2. Idle.pc = "idle" /\ Idle.kind = "idle" /\ Idle.s = NoSub
  BY DEF Idle
<1> QED BY <1>1, <1>2 DEF Sound

LEMMA InitTyped == Init => Typed
<1> SUFFICES ASSUME Init PROVE Typed
  OBVIOUS
<1>1. SubOK /\ RestOK /\ NowOK
  BY NoRowType, SubscriptionAssumption DEF Init, SubOK, RestOK, NowOK
<1>2. InstOK
  BY DEF Init, InstOK, Insts, InstanceStatus
<1>3. OpOK
  BY IdleType DEF Init, OpOK
<1> QED BY <1>1, <1>2, <1>3 DEF Typed

LEMMA PutOp ==
  ASSUME OpOK, NEW p \in Processes, NEW x \in Ops, Sound(x), op' = [op EXCEPT ![p] = x]
  PROVE  OpOK'
BY DEF OpOK

LEMMA DoneOp ==
  ASSUME OpOK, NEW p \in Processes, Done(p)
  PROVE  OpOK'
BY PutOp, IdleType DEF Done

LEMMA PutInst ==
  ASSUME InstOK, NEW i \in Instances, NEW x \in Insts, inst' = [inst EXCEPT ![i] = x]
  PROVE  InstOK'
BY DEF InstOK

\* An operation that goes on to pc, with what it read.
LEMMA MoveOp ==
  ASSUME OpOK, NEW p \in Processes, NEW pc \in Pcs, NEW todo \in SUBSET Instances, NEW err \in BOOLEAN,
         op'= [op EXCEPT ![p] = [op[p] EXCEPT !.pc = pc, !.todo = todo, !.err = err]],
         op[p].pc # "idle",
         \/ op[p].pc \in {"list", "stop"} /\ pc \in {"stop", "save"}
         \/ op[p].pc \in {"start", "pending"} /\ pc \in {"pending", "conflict"}
  PROVE  OpOK'
<1> DEFINE x == [op[p] EXCEPT !.pc = pc, !.todo = todo, !.err = err]
<1>1. op[p] \in Ops /\ Sound(op[p])
  BY DEF OpOK
<1>2. x \in Ops
  BY <1>1 DEF Ops
<1>3. x.kind = op[p].kind /\ x.pc = pc /\ x.s = op[p].s /\ x.i = op[p].i /\ x.read = op[p].read
  BY <1>1 DEF Ops
<1>4. Sound(x)
  BY <1>1, <1>3 DEF Sound
<1> QED BY <1>2, <1>4, PutOp

LEMMA BeginTyped ==
  ASSUME Typed, NEW p \in Processes, NEW kind \in Kinds, NEW s \in Subs, NEW i \in Instances \cup {NoInst},
         NEW pc \in Pcs, Begin(p, kind, s, i, pc),
         \/ kind \in {"Suspend", "Cancel"} /\ pc = "list"
         \/ kind \in {"Unsuspend", "Renew"} /\ pc = "save"
         \/ kind = "Create" /\ pc = "create"
         \/ kind = "Start" /\ pc = "start" /\ i \in Instances,
         kind = "Renew" => sub[s].expires < MaxTime
  PROVE  Typed'
<1> DEFINE x == [Idle EXCEPT !.kind = kind, !.pc = pc, !.s = s, !.i = i, !.read = sub[s]]
<1>1. sub[s] \in Rows
  BY DEF Typed, SubOK
<1>2. x \in Ops
  BY <1>1, IdleType DEF Ops
<1>3. x.kind = kind /\ x.pc = pc /\ x.s = s /\ x.i = i /\ x.read = sub[s]
  BY DEF Idle
<1>4. Sound(x)
  BY <1>3 DEF Sound, Stopping
<1>5. op' = [op EXCEPT ![p] = x] /\ UNCHANGED <<sub, inst, rest, now>>
  BY DEF Begin
<1> QED BY <1>2, <1>4, <1>5, PutOp DEF Typed, SubOK, InstOK, RestOK, NowOK

\* The handlers' first steps.
LEMMA RequestTyped ==
  ASSUME Typed, NEW p \in Handlers, NEW s \in Subs,
         \/ \E kind \in DOMAIN Requires : BeginChange(p, kind, s)
         \/ BeginCreate(p, s)
         \/ \E i \in Instances : BeginStart(p, s, i)
  PROVE  Typed'
<1>0. p \in Processes
  BY DEF Processes
<1>1. ASSUME NEW kind \in DOMAIN Requires, BeginChange(p, kind, s) PROVE Typed'
  <2>1. kind \in {"Suspend", "Cancel", "Unsuspend", "Renew"} /\ kind \in Kinds
    BY Strings DEF Kinds
  <2>2. kind = "Renew" => sub[s].expires < MaxTime
    <3>1. sub[s].expires \in Nat /\ now \in Nat
      BY SubscriptionAssumption DEF Typed, SubOK, Rows, NowOK
    <3> QED BY <1>1, <3>1, SubscriptionAssumption DEF BeginChange, Later
  <2>3. Begin(p, kind, s, NoInst, IF kind \in {"Suspend", "Cancel"} THEN "list" ELSE "save")
    BY <1>1 DEF BeginChange
  <2>4. CASE kind \in {"Suspend", "Cancel"}
    <3>1. Begin(p, kind, s, NoInst, "list")
      BY <2>3, <2>4
    <3> QED BY <1>0, <2>1, <2>2, <2>4, <3>1, BeginTyped DEF Pcs
  <2>5. CASE kind \in {"Unsuspend", "Renew"}
    <3>1. Begin(p, kind, s, NoInst, "save")
      BY <2>3, <2>5
    <3> QED BY <1>0, <2>1, <2>2, <2>5, <3>1, BeginTyped DEF Pcs
  <2> QED BY <2>1, <2>4, <2>5
<1>2. CASE BeginCreate(p, s)
  BY <1>0, <1>2, BeginTyped DEF BeginCreate, Kinds, Pcs
<1>3. ASSUME NEW i \in Instances, BeginStart(p, s, i) PROVE Typed'
  BY <1>0, <1>3, BeginTyped DEF BeginStart, Kinds, Pcs
<1> QED BY <1>1, <1>2, <1>3

\* What an instance's row may become.
LEMMA InstTyped ==
  ASSUME InstOK, NEW i \in Instances, NEW st \in InstanceStatus, NEW copy \in {"none"} \cup DOMAIN Follows,
         inst' = [inst EXCEPT ![i].status = st, ![i].copy = copy]
  PROVE  InstOK'
<1>1. [inst[i] EXCEPT !.status = st, !.copy = copy] \in Insts
  BY DEF InstOK, Insts
<1>2. inst' = [inst EXCEPT ![i] = [inst[i] EXCEPT !.status = st, !.copy = copy]]
  OBVIOUS
<1> QED BY <1>1, <1>2, PutInst

LEMMA StopTyped ==
  ASSUME InstOK, NEW i \in Instances, StopGameInstance(i)
  PROVE  InstOK'
BY InstTyped, Strings DEF StopGameInstance, InstanceStatus

\* Saved keeps expires_at within one period of the end of the clock.
LEMMA SavedType ==
  ASSUME NowOK, NEW x \in Ops, Sound(x)
  PROVE  Saved(x.kind, x.read) \in Rows
<1>1. x.read \in Rows /\ x.read.expires \in 0 .. MaxTime + 1 /\ now \in 0 .. MaxTime /\ MaxTime \in Nat
  BY SubscriptionAssumption DEF Ops, Rows, NowOK
<1>2. x.kind = "Renew" => Later(x.read) + 1 \in 0 .. MaxTime + 1
  BY <1>1 DEF Sound, Later
<1> QED BY <1>1, <1>2 DEF Saved, Rows, SubscriptionStatus

LEMMA StepTyped ==
  ASSUME Typed, NEW p \in Processes, Step(p)
  PROVE  Typed'
<1>0. op[p] \in Ops /\ Sound(op[p]) /\ op \in [Processes -> Ops] /\ OpOK
  BY DEF Typed, OpOK
<1>1. CASE ListInstances(p)
  <2> DEFINE t == {i \in Instances : inst[i].sub = op[p].s /\ IsActive(inst[i].status)}
  <2>1. op' = [op EXCEPT ![p] = [op[p] EXCEPT !.pc = "stop", !.todo = t, !.err = op[p].err]]
    BY <1>0, <1>1 DEF ListInstances, Ops
  <2>2. t \in SUBSET Instances /\ op[p].err \in BOOLEAN /\ op[p].pc = "list"
    BY <1>0, <1>1 DEF ListInstances, Ops
  <2>3. OpOK'
    <3> HIDE DEF t
    <3> QED BY <1>0, <2>1, <2>2, MoveOp DEF Pcs
  <2> QED BY <1>1, <2>3 DEF ListInstances, Typed, SubOK, InstOK, RestOK, NowOK
<1>2. CASE StoppedAll(p)
  <2>1. OpOK'
    <3>1. CASE Done(p)
      BY <1>0, <3>1, DoneOp
    <3>2. CASE op' = [op EXCEPT ![p].pc = "save"]
      <4>1. op' = [op EXCEPT ![p] = [op[p] EXCEPT !.pc = "save", !.todo = op[p].todo, !.err = op[p].err]]
        BY <1>0, <3>2 DEF Ops
      <4>2. op[p].pc = "stop" /\ op[p].todo \in SUBSET Instances /\ op[p].err \in BOOLEAN
        BY <1>0, <1>2 DEF StoppedAll, Ops
      <4> QED BY <1>0, <4>1, <4>2, MoveOp DEF Pcs
    <3> QED BY <1>2, <3>1, <3>2 DEF StoppedAll
  <2>2. RestOK'
    BY <1>2 DEF StoppedAll, Typed, RestOK
  <2> QED BY <1>2, <2>1, <2>2 DEF StoppedAll, Typed, SubOK, InstOK, NowOK
<1>3. CASE SaveSubscription(p)
  <2>1. SubOK'
    BY <1>0, <1>3, SavedType DEF SaveSubscription, Typed, SubOK
  <2> QED BY <1>0, <1>3, <2>1, DoneOp DEF SaveSubscription, Typed, InstOK, RestOK, NowOK
<1>4. CASE StartChecks(p)
  <2>1. OpOK'
    <3>1. CASE op' = [op EXCEPT ![p] = Idle]
      BY <1>0, <3>1, PutOp, IdleType
    <3>2. CASE op' = [op EXCEPT ![p] = [op[p] EXCEPT !.pc = "pending"]]
      <4>1. op' = [op EXCEPT ![p] = [op[p] EXCEPT !.pc = "pending", !.todo = op[p].todo, !.err = op[p].err]]
        BY <1>0, <3>2 DEF Ops
      <4>2. op[p].pc = "start" /\ op[p].todo \in SUBSET Instances /\ op[p].err \in BOOLEAN
        BY <1>0, <1>4 DEF StartChecks, Ops
      <4> QED BY <1>0, <4>1, <4>2, MoveOp DEF Pcs
    <3> QED BY <1>0, <1>4, <3>1, <3>2 DEF StartChecks
  <2> QED BY <1>4, <2>1 DEF StartChecks, Typed, SubOK, InstOK, RestOK, NowOK
<1>5. CASE StartGameInstance(p)
  <2>0. op[p].pc = "pending" /\ op[p].i \in Instances
    BY <1>0, <1>5 DEF StartGameInstance, Sound
  <2>1. CASE /\ inst' = [inst EXCEPT ![op[p].i].status = "Busy", ![op[p].i].copy = "Busy"]
             /\ Done(p)
    BY <1>0, <1>5, <2>0, <2>1, InstTyped, DoneOp, Strings
       DEF StartGameInstance, Typed, SubOK, RestOK, NowOK, InstanceStatus
  <2>2. CASE op' = [op EXCEPT ![p].pc = "conflict"] /\ UNCHANGED inst
    <3>1. op' = [op EXCEPT ![p] = [op[p] EXCEPT !.pc = "conflict", !.todo = op[p].todo, !.err = op[p].err]]
      BY <1>0, <2>2 DEF Ops
    <3>2. op[p].todo \in SUBSET Instances /\ op[p].err \in BOOLEAN
      BY <1>0 DEF Ops
    <3>3. OpOK'
      BY <1>0, <2>0, <3>1, <3>2, MoveOp DEF Pcs
    <3> QED BY <1>5, <2>2, <3>3 DEF StartGameInstance, Typed, SubOK, InstOK, RestOK, NowOK
  <2> QED BY <1>5, <2>1, <2>2 DEF StartGameInstance
<1>6. CASE Conflict(p)
  BY <1>0, <1>6, DoneOp DEF Conflict, Typed, SubOK, InstOK, RestOK, NowOK
<1>7. ASSUME NEW i \in Instances, StopOne(p, i) PROVE Typed'
  <2>1. op' = [op EXCEPT ![p] = [op[p] EXCEPT !.pc = "stop", !.todo = op[p].todo \ {i}, !.err = op[p].err \/ ~MayStop(i)]]
    BY <1>0, <1>7 DEF StopOne, Ops
  <2>2. op[p].pc = "stop" /\ op[p].todo \ {i} \in SUBSET Instances /\ (op[p].err \/ ~MayStop(i)) \in BOOLEAN
    BY <1>0, <1>7 DEF StopOne, Ops
  <2>3. OpOK'
    BY <1>0, <2>1, <2>2, MoveOp DEF Pcs
  <2>4. InstOK'
    BY <1>7, StopTyped DEF StopOne, Typed, InstOK
  <2> QED BY <1>7, <2>3, <2>4 DEF StopOne, Typed, SubOK, RestOK, NowOK
<1>8. ASSUME NEW i \in Instances, CreateInstance(p, i) PROVE Typed'
  <2>1. [sub |-> op[p].s, status |-> "Stopped", copy |-> "none"] \in Insts
    BY <1>0, <1>8 DEF CreateInstance, Sound, Insts, InstanceStatus
  <2> QED BY <1>0, <1>8, <2>1, PutInst, DoneOp DEF CreateInstance, Typed, SubOK, RestOK, NowOK
<1> QED BY <1>1, <1>2, <1>3, <1>4, <1>5, <1>6, <1>7, <1>8 DEF Step

LEMMA TypedStep == Typed /\ [Next]_vars => Typed'
<1> SUFFICES ASSUME Typed, [Next]_vars PROVE Typed'
  OBVIOUS
<1>1. ASSUME NEW s \in Subs, Purchase(s) PROVE Typed'
  <2>1. [status |-> "active", expires |-> now + 1] \in Rows
    BY <1>1, SubscriptionAssumption DEF Purchase, Typed, NowOK, Rows, SubscriptionStatus
  <2> QED BY <1>1, <2>1 DEF Purchase, Typed, SubOK, InstOK, OpOK, RestOK, NowOK
<1>2. CASE ExpireOverdue
  BY <1>2 DEF ExpireOverdue, Typed, SubOK, InstOK, OpOK, RestOK, NowOK
<1>3. CASE ExpireOne
  <2>1. PICK r \in rest : /\ rest' = rest \ {r}
                          /\ op' = [op EXCEPT ![Sweeper] = [Idle EXCEPT !.kind = "Expire", !.pc = "list", !.s = r.s,
                                                                        !.read = r.read]]
    BY <1>3 DEF ExpireOne
  <2> DEFINE x == [Idle EXCEPT !.kind = "Expire", !.pc = "list", !.s = r.s, !.read = r.read]
  <2>2. r.s \in Subs /\ r.read \in Rows
    BY DEF Typed, RestOK
  <2>3. x \in Ops
    BY <2>2, IdleType DEF Ops, Kinds, Pcs
  <2>4. x.kind = "Expire" /\ x.pc = "list" /\ x.s = r.s
    BY DEF Idle
  <2>5. Sound(x)
    BY <2>2, <2>4 DEF Sound, Stopping
  <2>6. OpOK'
    BY <2>1, <2>3, <2>5, PutOp DEF Typed, Processes
  <2> QED BY <1>3, <2>1, <2>6 DEF ExpireOne, Typed, SubOK, InstOK, RestOK, NowOK
<1>4. ASSUME NEW i \in Instances,
             \/ \E s \in Subs : StopInstance(s, i)
             \/ \E to \in InstanceStatus : Advance(i, to)
             \/ DeleteInstance(i) \/ Die(i)
      PROVE  Typed'
  <2>0. inst[i] \in Insts /\ inst \in [Instances -> Insts] /\ InstOK
    BY DEF Typed, InstOK
  <2>1. UNCHANGED <<sub, op, rest, now>>
    BY <1>4 DEF StopInstance, Advance, DeleteInstance, Die
  <2>2. CASE \E s \in Subs : StopInstance(s, i)
    BY <2>0, <2>1, <2>2, StopTyped DEF StopInstance, Typed, SubOK, OpOK, RestOK, NowOK
  <2>3. ASSUME NEW to \in InstanceStatus, Advance(i, to) PROVE InstOK'
    <3>1. /\ (IF IndexAllows(i, to) THEN to ELSE inst[i].status) \in InstanceStatus
          /\ (IF to \in DOMAIN Follows THEN to ELSE "none") \in {"none"} \cup DOMAIN Follows
      BY <2>0 DEF Insts
    <3>2. inst' = [inst EXCEPT ![i].status = IF IndexAllows(i, to) THEN to ELSE inst[i].status,
                               ![i].copy = IF to \in DOMAIN Follows THEN to ELSE "none"]
      BY <2>0, <2>3 DEF Advance, Insts
    <3> QED BY <2>0, <3>1, <3>2, InstTyped
  <2>4. CASE DeleteInstance(i)
    <3>1. [sub |-> NoSub, status |-> "none", copy |-> "none"] \in Insts
      BY DEF Insts, InstanceStatus
    <3> QED BY <2>0, <2>1, <2>4, <3>1, PutInst DEF DeleteInstance, Typed, SubOK, OpOK, RestOK, NowOK
  <2>5. CASE Die(i)
    <3>1. inst' = [inst EXCEPT ![i].status = "Failed", ![i].copy = inst[i].copy]
      BY <2>0, <2>5 DEF Die, Insts
    <3> QED BY <2>0, <2>1, <3>1, InstTyped DEF Typed, SubOK, OpOK, RestOK, NowOK, Insts, InstanceStatus
  <2> QED BY <1>4, <2>1, <2>2, <2>3, <2>4, <2>5 DEF Typed, SubOK, OpOK, RestOK, NowOK
<1>5. CASE Tick
  BY <1>5, SubscriptionAssumption DEF Tick, Typed, SubOK, InstOK, OpOK, RestOK, NowOK
<1>6. CASE UNCHANGED vars
  BY <1>6 DEF vars, Typed, SubOK, InstOK, OpOK, RestOK, NowOK
<1> QED BY <1>1, <1>2, <1>3, <1>4, <1>5, <1>6, RequestTyped, StepTyped DEF Next

\* Every row, copy and request of a subscription has its type, overlapping
\* requests included; a renewal is bounded by the clock it was begun at.
THEOREM TypeCorrect == Spec => []TypeOK
<1>1. Typed => TypeOK
  BY DEF Typed, SubOK, InstOK, OpOK, RestOK, NowOK, TypeOK, Rows, Insts, Ops, Kinds, Pcs
<1> QED BY <1>1, InitTyped, TypedStep, PTL DEF Spec

-----------------------------------------------------------------------------
(* Operations on one subscription, one after the other.                    *)

\* A subscription has at most one operation, or is listed by the sweep once.
Exclusive ==
  /\ \A p, q \in Processes : p # q /\ op[p].s = op[q].s => op[p].s = NoSub
  /\ \A r \in rest : \A p \in Processes : op[p].s # r.s
  /\ \A r, t \in rest : r.s = t.s => r = t

\* What an operation has read still stands when it saves.
Current ==
  /\ \A r \in rest : r.read = sub[r.s] /\ r.read.status = "active"
  /\ \A p \in Processes : op[p].s # NoSub =>
       /\ op[p].read = sub[op[p].s] /\ op[p].read.status # "none"
       /\ op[p].kind \in {"Create", "Start"} => op[p].read.status = "active"

\* What an operation knows about the instances of its subscription.
Settled(i) == IsActive(inst[i].status) => inst[i].status = "Stopping"
Work(p) ==
  LET x == op[p]
      mine == {i \in Instances : inst[i].sub = op[p].s}
  IN /\ x.pc = "stop" => /\ x.todo \subseteq mine
                         /\ x.err \/ \A i \in mine \ x.todo : Settled(i)
     /\ x.pc = "save" /\ x.kind \in Stopping => \A i \in mine : Settled(i)
     /\ x.kind = "Start" => x.i \in mine
     /\ x.pc = "pending" => /\ inst[x.i].status \in {"Stopped", "Failed"}
                            /\ \A i \in mine \ {x.i} : ~IsActive(inst[i].status)
     /\ x.pc = "conflict" => /\ \A i \in mine \ {x.i} : ~IsActive(inst[i].status)
                             /\ \E i \in mine \ {x.i} : inst[i].status \in {"Failed", "StopFailed"}
     /\ x.pc = "create" /\ MaxInstances[x.s] > 0 => Cardinality(mine) < MaxInstances[x.s]

\* One instance of a subscription at most is anywhere but stopped: an active one
\* keeps the others from starting by the check, a failed one by the index.
Occupies(status) == status \notin {"none", "Stopped"}
Slots ==
  /\ \A i \in Instances : /\ inst[i].sub = NoSub <=> inst[i].status = "none"
                          /\ inst[i].copy # "none" => inst[i].status = inst[i].copy
  /\ \A i, j \in Instances : i # j /\ inst[i].sub = inst[j].sub /\ Occupies(inst[i].status)
                               => ~Occupies(inst[j].status)

Ordered == Exclusive /\ Current /\ \A p \in Processes : Work(p)
Inv == Typed /\ Ordered /\ Slots /\ InactiveIsQuiet /\ WithinLimit

LEMMA InitInv == Init => Inv
<1> SUFFICES ASSUME Init PROVE Inv
  OBVIOUS
<1>1. \A p \in Processes : op[p] = Idle
  BY DEF Init
<1>2. Idle.s = NoSub /\ Idle.pc = "idle" /\ Idle.kind = "idle"
  BY DEF Idle
<1>3. Exclusive /\ Current /\ \A p \in Processes : Work(p)
  <2>1. rest = {} /\ \A p \in Processes : op[p].s = NoSub /\ op[p].pc = "idle" /\ op[p].kind = "idle"
    BY <1>1, <1>2 DEF Init
  <2>2. Exclusive /\ Current
    BY <2>1 DEF Exclusive, Current
  <2>3. \A p \in Processes : Work(p)
    BY <2>1 DEF Work
  <2> QED BY <2>2, <2>3
<1>4. Slots /\ InactiveIsQuiet
  BY DEF Init, Slots, InactiveIsQuiet, Occupies
<1>5. WithinLimit
  <2>1. \A s \in Subs : Owned(s) = {}
    BY SubscriptionAssumption DEF Init, Owned
  <2>2. Cardinality({}) = 0
    BY FS_EmptySet
  <2>3. \A s \in Subs : MaxInstances[s] \in Nat
    BY SubscriptionAssumption
  <2> QED BY <2>1, <2>2, <2>3 DEF WithinLimit
<1> QED BY <1>3, <1>4, <1>5, InitTyped DEF Inv, Ordered

-----------------------------------------------------------------------------
(* Who works on a subscription.                                            *)

\* An operation that is not idle works on a subscription.
LEMMA Busy ==
  ASSUME Typed, NEW p \in Processes
  PROVE  /\ op[p] \in Ops /\ Sound(op[p])
         /\ op[p].s = NoSub <=> op[p] = Idle
         /\ op[p].s # NoSub <=> op[p].pc # "idle"
<1>1. op[p] \in Ops /\ Sound(op[p]) /\ NoSub \notin Subs
  BY SubscriptionAssumption DEF Typed, OpOK
<1> QED BY <1>1, IdleType DEF Sound

LEMMA ExclusiveKept ==
  ASSUME Exclusive, rest' \subseteq rest, \A p \in Processes : op'[p].s \in {op[p].s, NoSub},
         \A r \in rest : r.s # NoSub
  PROVE  Exclusive'
BY DEF Exclusive

LEMMA CurrentKept ==
  ASSUME Current, rest' \subseteq rest, UNCHANGED sub,
         \A p \in Processes : \/ op'[p].s = NoSub
                              \/ op'[p].s = op[p].s /\ op'[p].read = op[p].read /\ op'[p].kind = op[p].kind
  PROVE  Current'
BY DEF Current

LEMMA WorkIdle ==
  ASSUME NEW p \in Processes, op'[p] = Idle
  PROVE  Work(p)'
<1>1. op'[p].pc = "idle" /\ op'[p].kind = "idle"
  BY DEF Idle
<1> QED BY <1>1 DEF Work

Resting == {"Stopped", "Failed", "StopFailed"}

\* What an instance may do while an operation works on its subscription.
Calm(i) ==
  /\ inst'[i].sub = inst[i].sub
  /\ IsActive(inst'[i].status) => IsActive(inst[i].status)
  /\ Settled(i) => Settled(i)'
  /\ inst[i].status \in Resting => inst'[i].status = inst[i].status

LEMMA WorkKept ==
  ASSUME Typed, NEW p \in Processes, Work(p), op'[p] = op[p],
         \A i \in Instances : \/ inst'[i] = inst[i]
                              \/ op[p].s \notin {inst[i].sub, inst'[i].sub}
                              \/ Calm(i)
  PROVE  Work(p)'
<1> DEFINE mine == {i \in Instances : inst[i].sub = op[p].s}
<1>1. {i \in Instances : inst'[i].sub = op'[p].s} = mine
  BY DEF Calm
<1>2. \A i \in mine : \/ inst'[i] = inst[i]
                      \/ Calm(i)
  OBVIOUS
<1>3. \A i \in mine : /\ Settled(i) => Settled(i)'
                      /\ IsActive(inst'[i].status) => IsActive(inst[i].status)
                      /\ inst[i].status \in Resting => inst'[i].status = inst[i].status
  BY <1>2 DEF Calm, Settled
<1> HIDE DEF mine
<1>4. op[p].pc = "pending" => op[p].i \in mine
  BY Busy DEF Work, Sound, mine
<1>5. /\ op[p].pc = "stop" => /\ op[p].todo \subseteq mine
                              /\ op[p].err \/ \A i \in mine \ op[p].todo : Settled(i)
      /\ op[p].pc = "save" /\ op[p].kind \in Stopping => \A i \in mine : Settled(i)
      /\ op[p].kind = "Start" => op[p].i \in mine
      /\ op[p].pc = "pending" => /\ inst[op[p].i].status \in {"Stopped", "Failed"}
                                 /\ \A i \in mine \ {op[p].i} : ~IsActive(inst[i].status)
      /\ op[p].pc = "create" /\ MaxInstances[op[p].s] > 0 => Cardinality(mine) < MaxInstances[op[p].s]
  BY DEF Work, mine
<1>6. /\ op[p].pc = "stop" => /\ op[p].todo \subseteq mine
                              /\ op[p].err \/ \A i \in mine \ op[p].todo : Settled(i)'
      /\ op[p].pc = "save" /\ op[p].kind \in Stopping => \A i \in mine : Settled(i)'
      /\ op[p].kind = "Start" => op[p].i \in mine
      /\ op[p].pc = "pending" => /\ inst'[op[p].i].status \in {"Stopped", "Failed"}
                                 /\ \A i \in mine \ {op[p].i} : ~IsActive(inst'[i].status)
  BY <1>3, <1>4, <1>5 DEF Resting
<1>7. op[p].pc = "conflict" => /\ \A i \in mine \ {op[p].i} : ~IsActive(inst[i].status)
                               /\ \E i \in mine \ {op[p].i} : inst[i].status \in {"Failed", "StopFailed"}
  BY DEF Work, mine
<1>8. op[p].pc = "conflict" => /\ \A i \in mine \ {op[p].i} : ~IsActive(inst'[i].status)
                               /\ \E i \in mine \ {op[p].i} : inst'[i].status \in {"Failed", "StopFailed"}
  BY <1>3, <1>7 DEF Resting
<1>9. op'[p].pc = "conflict" =>
        /\ \A i \in {i \in Instances : inst'[i].sub = op'[p].s} \ {op'[p].i} : ~IsActive(inst'[i].status)
        /\ \E i \in {i \in Instances : inst'[i].sub = op'[p].s} \ {op'[p].i} :
             inst'[i].status \in {"Failed", "StopFailed"}
  BY <1>1, <1>8
<1> QED BY <1>1, <1>5, <1>6, <1>9 DEF Work

\* Rows: one instance changes.
LEMMA SlotsKept ==
  ASSUME Slots, NEW i \in Instances, \A j \in Instances \ {i} : inst'[j] = inst[j],
         inst'[i].sub = NoSub <=> inst'[i].status = "none",
         inst'[i].copy # "none" => inst'[i].status = inst'[i].copy,
         Occupies(inst'[i].status) =>
           \A j \in Instances \ {i} : inst[j].sub = inst'[i].sub => ~Occupies(inst[j].status)
  PROVE  Slots'
BY DEF Slots

LEMMA LimitKept ==
  ASSUME WithinLimit, NEW i \in Instances, \A j \in Instances \ {i} : inst'[j] = inst[j],
         inst'[i].sub = inst[i].sub \/ inst'[i].sub = NoSub
  PROVE  WithinLimit'
<1> SUFFICES ASSUME NEW s \in Subs, MaxInstances[s] > 0
             PROVE  Cardinality(Owned(s)') <= MaxInstances[s]
  BY DEF WithinLimit
<1>1. Owned(s)' \subseteq Owned(s)
  BY SubscriptionAssumption DEF Owned
<1>2. IsFiniteSet(Owned(s))
  BY SubscriptionAssumption, FS_Subset DEF Owned
<1>3. Cardinality(Owned(s)') <= Cardinality(Owned(s)) /\ Cardinality(Owned(s)) \in Nat /\ Cardinality(Owned(s)') \in Nat
  BY <1>1, <1>2, FS_Subset, FS_CardinalityType
<1>4. Cardinality(Owned(s)) <= MaxInstances[s] /\ MaxInstances[s] \in Nat
  BY SubscriptionAssumption DEF WithinLimit
<1> QED BY <1>3, <1>4

\* A step that changes no instance keeps what is said of instances alone.
LEMMA InstsKept ==
  ASSUME Slots, WithinLimit, UNCHANGED inst
  PROVE  Slots' /\ WithinLimit'
BY DEF Slots, WithinLimit, Owned

-----------------------------------------------------------------------------
(* The steps of an operation.                                              *)

LEMMA BeginInv ==
  ASSUME Inv, Overlap = FALSE, NEW p \in Processes, NEW kind \in Kinds, NEW s \in Subs,
         NEW i \in Instances \cup {NoInst}, NEW pc \in {"list", "save", "create", "start"},
         Begin(p, kind, s, i, pc), Typed',
         pc = "save" => kind \notin Stopping,
         kind = "Start" => i \in Owned(s),
         pc = "create" /\ MaxInstances[s] > 0 => Cardinality(Owned(s)) < MaxInstances[s],
         sub[s].status # "none",
         kind \in {"Create", "Start"} => sub[s].status = "active"
  PROVE  Inv'
<1>1. op[p] = Idle /\ Quiet(s) /\ UNCHANGED <<sub, inst, rest, now>>
  BY DEF Begin, MayBegin
<1>2. /\ op'[p].kind = kind /\ op'[p].pc = pc /\ op'[p].s = s /\ op'[p].i = i /\ op'[p].read = sub[s]
      /\ \A q \in Processes \ {p} : op'[q] = op[q]
  <2>1. op'[p] = [Idle EXCEPT !.kind = kind, !.pc = pc, !.s = s, !.i = i, !.read = sub[s]]
        /\ \A q \in Processes \ {p} : op'[q] = op[q]
    BY DEF Begin, Inv, Typed, OpOK
  <2> QED BY <2>1 DEF Idle
<1>3. Exclusive'
  BY <1>1, <1>2 DEF Inv, Ordered, Exclusive, Quiet
<1>4. Current'
  BY <1>1, <1>2 DEF Inv, Ordered, Current
<1>5. ASSUME NEW q \in Processes PROVE Work(q)'
  <2>1. CASE q = p
    <3>1. {j \in Instances : inst'[j].sub = op'[p].s} = Owned(s)
      BY <1>1, <1>2 DEF Owned
    <3> QED BY <1>2, <2>1, <3>1 DEF Work
  <2>2. CASE q # p
    BY <1>1, <1>2, <2>2, WorkKept DEF Inv, Ordered
  <2> QED BY <2>1, <2>2
<1>6. InactiveIsQuiet'
  BY <1>1 DEF Inv, InactiveIsQuiet
<1> QED BY <1>1, <1>3, <1>4, <1>5, <1>6, InstsKept DEF Inv, Ordered

LEMMA RequestInv ==
  ASSUME Inv, Overlap = FALSE, NEW p \in Handlers, NEW s \in Subs,
         \/ \E kind \in DOMAIN Requires : BeginChange(p, kind, s)
         \/ BeginCreate(p, s)
         \/ \E i \in Instances : BeginStart(p, s, i)
  PROVE  Inv'
<1>0. p \in Processes /\ Typed'
  BY RequestTyped DEF Processes, Inv
<1>1. ASSUME NEW kind \in DOMAIN Requires, BeginChange(p, kind, s) PROVE Inv'
  <2>1. kind \in {"Suspend", "Cancel", "Unsuspend", "Renew"} /\ kind \in Kinds
    BY Strings DEF Kinds
  <2>2. sub[s].status # "none"
    <3>1. sub[s].status \in Requires[kind]
      BY <1>1 DEF BeginChange
    <3> QED BY <2>1, <3>1 DEF Requires
  <2>3. PICK pc \in {"list", "save"} : Begin(p, kind, s, NoInst, pc) /\ (pc = "save" => kind \notin {"Suspend", "Cancel"})
    BY <1>1 DEF BeginChange
  <2>4. pc = "save" => kind \notin Stopping
    BY <2>1, <2>3 DEF Stopping
  <2> QED BY <1>0, <2>1, <2>2, <2>3, <2>4, BeginInv
<1>2. CASE BeginCreate(p, s)
  <2>1. "Create" \in Kinds /\ sub[s].status = "active" /\ Begin(p, "Create", s, NoInst, "create")
        /\ (MaxInstances[s] > 0 => Cardinality(Owned(s)) < MaxInstances[s])
    BY <1>2 DEF BeginCreate, Kinds, checkActive
  <2> QED BY <1>0, <2>1, BeginInv
<1>3. ASSUME NEW i \in Instances, BeginStart(p, s, i) PROVE Inv'
  <2>1. "Start" \in Kinds /\ sub[s].status = "active" /\ i \in Owned(s) /\ Begin(p, "Start", s, i, "start")
    BY <1>3 DEF BeginStart, Kinds, checkActive
  <2> QED BY <1>0, <2>1, BeginInv
<1> QED BY <1>1, <1>2, <1>3

\* Steps that touch no instance, and the subscription only in the save.
LEMMA QuietStepInv ==
  ASSUME Inv, Typed', NEW p \in Processes, UNCHANGED <<sub, inst>>, rest' \subseteq rest,
         \A q \in Processes \ {p} : op'[q] = op[q],
         \/ op'[p] = Idle
         \/ op'[p].s = op[p].s /\ op'[p].read = op[p].read /\ op'[p].kind = op[p].kind,
         Work(p)'
  PROVE  Inv'
<1>1. Exclusive'
  <2>1. \A r \in rest : r.s # NoSub
    BY SubscriptionAssumption DEF Inv, Typed, RestOK
  <2> QED BY <2>1, ExclusiveKept, IdleType DEF Inv, Ordered
<1>2. Current'
  BY CurrentKept, IdleType DEF Inv, Ordered
<1>3. ASSUME NEW q \in Processes \ {p} PROVE Work(q)'
  BY <1>3, WorkKept DEF Inv, Ordered
<1>4. InactiveIsQuiet'
  BY DEF Inv, InactiveIsQuiet
<1> QED BY <1>1, <1>2, <1>3, <1>4, InstsKept DEF Inv, Ordered

\* One that touches one instance, perhaps, and leaves the process idle or
\* where it was.
LEMMA InstanceStepInv ==
  ASSUME Inv, Typed', UNCHANGED <<sub, rest>>, NEW i \in Instances,
         \A j \in Instances \ {i} : inst'[j] = inst[j],
         \A q \in Processes :
           \/ op'[q] = Idle
           \/ /\ op'[q] = op[q]
              /\ \/ Calm(i)
                 \/ op[q].s \notin {inst[i].sub, inst'[i].sub},
         Slots', WithinLimit',
         inst'[i].sub # NoSub /\ sub[inst'[i].sub].status # "active" => Settled(i)'
  PROVE  Inv'
<1>1. Exclusive'
  <2>1. \A r \in rest : r.s # NoSub
    BY SubscriptionAssumption DEF Inv, Typed, RestOK
  <2>2. \A q \in Processes : op'[q].s \in {op[q].s, NoSub}
    BY IdleType
  <2> QED BY <2>1, <2>2, ExclusiveKept DEF Inv, Ordered
<1>2. Current'
  BY CurrentKept, IdleType DEF Inv, Ordered
<1>3. ASSUME NEW q \in Processes PROVE Work(q)'
  <2>1. CASE op'[q] = Idle
    BY <2>1, WorkIdle
  <2>2. CASE op'[q] # Idle
    <3>1. op'[q] = op[q] /\ \A j \in Instances : \/ inst'[j] = inst[j]
                                                 \/ op[q].s \notin {inst[j].sub, inst'[j].sub}
                                                 \/ Calm(j)
      BY <2>2
    <3> QED BY <3>1, WorkKept DEF Inv, Ordered
  <2> QED BY <2>1, <2>2
<1>4. InactiveIsQuiet'
  BY DEF Inv, InactiveIsQuiet, Settled
<1> QED BY <1>1, <1>2, <1>3, <1>4 DEF Inv, Ordered

LEMMA StopsInv ==
  ASSUME Inv, NEW p \in Processes, ListInstances(p) \/ StoppedAll(p)
  PROVE  Inv'
<1>0. op[p] \in Ops /\ op \in [Processes -> Ops] /\ Work(p) /\ Typed'
  BY StepTyped DEF Inv, Ordered, Typed, OpOK, Step
<1> DEFINE mine == {i \in Instances : inst[i].sub = op[p].s}
<1>1. CASE ListInstances(p)
  <2>1. /\ op'[p].pc = "stop" /\ op'[p].todo = {i \in Instances : inst[i].sub = op[p].s /\ IsActive(inst[i].status)}
        /\ op'[p].s = op[p].s /\ op'[p].read = op[p].read /\ op'[p].kind = op[p].kind /\ op'[p].i = op[p].i
        /\ \A q \in Processes \ {p} : op'[q] = op[q]
    BY <1>0, <1>1 DEF ListInstances, Ops
  <2>2. UNCHANGED <<sub, inst, rest>>
    BY <1>1 DEF ListInstances
  <2>3. {i \in Instances : inst'[i].sub = op'[p].s} = mine
    BY <2>1, <2>2
  <2>4. op'[p].todo \subseteq mine /\ \A i \in mine \ op'[p].todo : Settled(i)'
    BY <2>1, <2>2 DEF Settled
  <2>5. op[p].kind # "Start"
    BY <1>1, Busy DEF ListInstances, Inv, Sound, Stopping
  <2>6. Work(p)'
    BY <2>1, <2>3, <2>4, <2>5 DEF Work
  <2> QED BY <1>0, <2>1, <2>2, <2>6, QuietStepInv
<1>2. CASE StoppedAll(p) /\ Done(p)
  <2>1. op'[p] = Idle /\ \A q \in Processes \ {p} : op'[q] = op[q]
    BY <1>0, <1>2 DEF Done
  <2>2. UNCHANGED <<sub, inst>> /\ rest' \subseteq rest
    BY <1>2 DEF StoppedAll
  <2> QED BY <1>0, <2>1, <2>2, WorkIdle, QuietStepInv
<1>3. CASE StoppedAll(p) /\ ~Done(p)
  <2>1. /\ op[p].pc = "stop" /\ op[p].todo = {} /\ ~op[p].err
        /\ op' = [op EXCEPT ![p].pc = "save"] /\ UNCHANGED <<sub, inst, rest>>
    BY <1>3 DEF StoppedAll
  <2>2. /\ op'[p].pc = "save"
        /\ op'[p].s = op[p].s /\ op'[p].read = op[p].read /\ op'[p].kind = op[p].kind /\ op'[p].i = op[p].i
        /\ \A q \in Processes \ {p} : op'[q] = op[q]
    BY <1>0, <2>1 DEF Ops
  <2>3. {i \in Instances : inst'[i].sub = op'[p].s} = mine
    BY <2>1, <2>2
  <2>4. \A i \in mine : Settled(i)'
    BY <1>0, <2>1 DEF Work, Settled
  <2>5. op[p].kind # "Start"
    BY <2>1, Busy DEF Inv, Sound, Stopping
  <2>6. Work(p)'
    BY <2>2, <2>3, <2>4, <2>5 DEF Work
  <2> QED BY <1>0, <2>1, <2>2, <2>6, QuietStepInv
<1> QED BY <1>1, <1>2, <1>3

LEMMA StopOneInv ==
  ASSUME Inv, NEW p \in Processes, NEW i \in Instances, StopOne(p, i)
  PROVE  Inv'
<1>0. /\ op[p] \in Ops /\ op \in [Processes -> Ops] /\ Work(p) /\ Typed' /\ Exclusive /\ Slots
      /\ inst \in [Instances -> Insts] /\ inst[i] \in Insts
  BY StepTyped DEF Inv, Ordered, Typed, OpOK, InstOK, Step
<1>1. /\ op[p].pc = "stop" /\ i \in op[p].todo /\ UNCHANGED <<sub, rest>>
      /\ IF MayStop(i) THEN StopGameInstance(i) ELSE UNCHANGED inst
      /\ op' = [op EXCEPT ![p].todo = @ \ {i}, ![p].err = @ \/ ~MayStop(i)]
  BY DEF StopOne
<1>2. /\ op'[p].pc = "stop" /\ op'[p].todo = op[p].todo \ {i} /\ op'[p].err = (op[p].err \/ ~MayStop(i))
      /\ op'[p].s = op[p].s /\ op'[p].read = op[p].read /\ op'[p].kind = op[p].kind /\ op'[p].i = op[p].i
      /\ \A q \in Processes \ {p} : op'[q] = op[q]
  BY <1>0, <1>1 DEF Ops
<1>3. inst[i].sub = op[p].s /\ op[p].s # NoSub /\ op[p].kind # "Start"
  BY <1>0, <1>1, Busy DEF Work, Inv, Sound, Stopping
<1>4. /\ \A j \in Instances \ {i} : inst'[j] = inst[j]
      /\ inst'[i].sub = inst[i].sub
      /\ MayStop(i) => inst'[i].status = "Stopping" /\ inst'[i].copy = "Stopping"
      /\ ~MayStop(i) => inst'[i] = inst[i]
  BY <1>0, <1>1 DEF StopGameInstance, Insts
<1>5. Slots'
  <2>1. CASE MayStop(i)
    <3>1. Occupies(inst[i].status)
      BY <2>1 DEF MayStop, Occupies
    <3>2. \A j \in Instances \ {i} : inst[j].sub = inst'[i].sub => ~Occupies(inst[j].status)
      BY <1>0, <1>4, <3>1 DEF Slots
    <3>3. inst'[i].sub # NoSub /\ inst'[i].status = "Stopping" /\ inst'[i].copy = "Stopping"
      BY <1>3, <1>4, <2>1
    <3> QED BY <1>0, <1>4, <3>2, <3>3, SlotsKept
  <2>2. CASE ~MayStop(i)
    BY <1>0, <1>4, <2>2 DEF Slots
  <2> QED BY <2>1, <2>2
<1>6. WithinLimit'
  BY <1>4, LimitKept DEF Inv
<1>7. ASSUME NEW q \in Processes PROVE Work(q)'
  <2>1. CASE q = p
    <3> DEFINE mine == {j \in Instances : inst[j].sub = op[p].s}
    <3>1. {j \in Instances : inst'[j].sub = op'[p].s} = mine
      BY <1>2, <1>4
    <3>2. op'[p].todo \subseteq mine
      BY <1>0, <1>1, <1>2 DEF Work
    <3>3. op'[p].err \/ \A j \in mine \ op'[p].todo : Settled(j)'
      <4>1. SUFFICES ASSUME ~op'[p].err, NEW j \in mine \ op'[p].todo PROVE Settled(j)'
        OBVIOUS
      <4>2. MayStop(i) /\ ~op[p].err
        BY <1>2, <4>1
      <4>3. CASE j = i
        BY <1>4, <4>2, <4>3 DEF Settled
      <4>4. CASE j # i
        <5>1. Settled(j) /\ inst'[j] = inst[j]
          BY <1>0, <1>1, <1>2, <1>4, <4>1, <4>2, <4>4 DEF Work
        <5> QED BY <5>1 DEF Settled
      <4> QED BY <4>3, <4>4
    <3> QED BY <1>2, <1>3, <2>1, <3>1, <3>2, <3>3 DEF Work
  <2>2. CASE q # p
    <3>1. op[q].s # op[p].s
      BY <1>0, <1>3, <2>2 DEF Exclusive
    <3>2. \A j \in Instances : inst'[j] = inst[j] \/ op[q].s \notin {inst[j].sub, inst'[j].sub}
      BY <1>3, <1>4, <3>1
    <3> QED BY <1>2, <2>2, <3>2, WorkKept DEF Inv, Ordered
  <2> QED BY <2>1, <2>2
<1>8. Exclusive' /\ Current'
  <2>1. \A r \in rest : r.s # NoSub
    BY SubscriptionAssumption DEF Inv, Typed, RestOK
  <2>2. \A q \in Processes : op'[q].s = op[q].s /\ op'[q].read = op[q].read /\ op'[q].kind = op[q].kind
    BY <1>2
  <2> QED BY <1>1, <2>1, <2>2, ExclusiveKept, CurrentKept DEF Inv, Ordered
<1>9. InactiveIsQuiet'
  BY <1>1, <1>4 DEF Inv, InactiveIsQuiet
<1> QED BY <1>0, <1>5, <1>6, <1>7, <1>8, <1>9 DEF Inv, Ordered

LEMMA SaveInv ==
  ASSUME Inv, NEW p \in Processes, SaveSubscription(p)
  PROVE  Inv'
<1>0. /\ op[p] \in Ops /\ op \in [Processes -> Ops] /\ Work(p) /\ Typed' /\ Exclusive /\ Current
      /\ sub \in [Subs -> Rows]
  BY StepTyped DEF Inv, Ordered, Typed, OpOK, SubOK, Step
<1>1. /\ op[p].pc = "save" /\ sub' = [sub EXCEPT ![op[p].s] = Saved(op[p].kind, op[p].read)]
      /\ op'[p] = Idle /\ UNCHANGED <<inst, rest>> /\ \A q \in Processes \ {p} : op'[q] = op[q]
  BY <1>0 DEF SaveSubscription, Done
<1>2. op[p].s \in Subs /\ op[p].s # NoSub /\ op[p].kind \in Stopping \cup {"Unsuspend", "Renew"}
  BY <1>1, Busy, SubscriptionAssumption DEF Inv, Sound
<1>3. /\ \A s \in Subs \ {op[p].s} : sub'[s] = sub[s]
      /\ op[p].kind \notin Stopping => sub'[op[p].s].status = "active"
  BY <1>0, <1>1, <1>2 DEF Saved, Stopping
<1>4. Exclusive'
  <2>1. \A r \in rest : r.s # NoSub
    BY SubscriptionAssumption DEF Inv, Typed, RestOK
  <2> QED BY <1>0, <1>1, <2>1, ExclusiveKept, IdleType
<1>5. Current'
  <2>1. \A r \in rest : r.s # op[p].s /\ r.s \in Subs
    BY <1>0 DEF Exclusive, Inv, Typed, RestOK
  <2>2. \A q \in Processes \ {p} : op[q].s # NoSub => op[q].s \in Subs \ {op[p].s}
    BY <1>0, <1>2 DEF Exclusive, Inv, Typed, OpOK, Ops
  <2> QED BY <1>0, <1>1, <1>3, <2>1, <2>2, IdleType DEF Current
<1>6. ASSUME NEW q \in Processes PROVE Work(q)'
  <2>1. CASE q = p
    BY <1>1, <2>1, WorkIdle
  <2>2. CASE q # p
    BY <1>1, <2>2, WorkKept DEF Inv, Ordered
  <2> QED BY <2>1, <2>2
<1>7. InactiveIsQuiet'
  <2> SUFFICES ASSUME NEW i \in Instances, inst[i].sub # NoSub, sub'[inst[i].sub].status # "active",
                      IsActive(inst[i].status)
               PROVE  inst[i].status = "Stopping"
    BY <1>1 DEF InactiveIsQuiet
  <2>1. inst[i].sub \in Subs
    BY DEF Inv, Typed, InstOK, Insts
  <2>2. CASE inst[i].sub = op[p].s
    BY <1>0, <1>1, <1>3, <2>2 DEF Work, Settled
  <2>3. CASE inst[i].sub # op[p].s
    BY <1>3, <2>1, <2>3 DEF Inv, InactiveIsQuiet
  <2> QED BY <2>2, <2>3
<1> QED BY <1>0, <1>1, <1>4, <1>5, <1>6, <1>7, InstsKept DEF Inv, Ordered

LEMMA StartInv ==
  ASSUME Inv, NEW p \in Processes, StartChecks(p) \/ StartGameInstance(p) \/ Conflict(p)
  PROVE  Inv'
<1>0. /\ op[p] \in Ops /\ op \in [Processes -> Ops] /\ Work(p) /\ Typed' /\ Exclusive /\ Current /\ Slots
      /\ inst \in [Instances -> Insts]
  BY StepTyped DEF Inv, Ordered, Typed, OpOK, InstOK, Step
<1> DEFINE n == op[p].i
           mine == {i \in Instances : inst[i].sub = op[p].s}
<1>1. op[p].pc \in {"start", "pending", "conflict"} /\ op[p].kind = "Start"
  BY Busy DEF StartChecks, StartGameInstance, Conflict, Inv, Sound
<1>2. n \in mine /\ n \in Instances /\ op[p].s # NoSub /\ op[p].s \in Subs /\ inst[n] \in Insts
  BY <1>0, <1>1, Busy DEF Work, Inv, Sound
<1>3. ASSUME op'[p] = Idle, UNCHANGED <<sub, inst, rest>>, \A q \in Processes \ {p} : op'[q] = op[q]
      PROVE  Inv'
  BY <1>0, <1>3, WorkIdle, QuietStepInv
<1>4. CASE Conflict(p)
  BY <1>0, <1>3, <1>4 DEF Conflict, Done
<1>5. CASE StartChecks(p)
  <2>0. UNCHANGED <<sub, inst, rest>>
    BY <1>5 DEF StartChecks
  <2>1. CASE op' = [op EXCEPT ![p] = Idle]
    BY <1>0, <1>3, <2>0, <2>1
  <2>2. CASE /\ op' = [op EXCEPT ![p] = [op[p] EXCEPT !.pc = "pending"]]
             /\ inst[n].status \in {"Stopped", "Failed"} /\ checkSubscriptionSlot(n)
    <3>1. /\ op'[p].pc = "pending" /\ op'[p].i = n
          /\ op'[p].s = op[p].s /\ op'[p].read = op[p].read /\ op'[p].kind = op[p].kind
          /\ \A q \in Processes \ {p} : op'[q] = op[q]
      BY <1>0, <2>2 DEF Ops
    <3>2. {i \in Instances : inst'[i].sub = op'[p].s} = mine
      BY <2>0, <3>1
    <3>3. \A i \in mine \ {n} : ~IsActive(inst'[i].status)
      BY <1>2, <2>0, <2>2 DEF checkSubscriptionSlot, Owned
    <3>4. Work(p)'
      BY <1>2, <2>0, <2>2, <3>1, <3>2, <3>3 DEF Work
    <3> QED BY <1>0, <2>0, <3>1, <3>4, QuietStepInv
  <2> QED BY <1>5, <2>1, <2>2 DEF StartChecks
<1>6. CASE StartGameInstance(p)
  <2>1. op[p].pc = "pending" /\ UNCHANGED <<sub, rest>>
    BY <1>6 DEF StartGameInstance
  <2>2. CASE op' = [op EXCEPT ![p].pc = "conflict"] /\ UNCHANGED inst
    <3>1. /\ op'[p].pc = "conflict" /\ op'[p].i = n
          /\ op'[p].s = op[p].s /\ op'[p].read = op[p].read /\ op'[p].kind = op[p].kind
          /\ \A q \in Processes \ {p} : op'[q] = op[q]
      BY <1>0, <2>2 DEF Ops
    <3>2. {i \in Instances : inst'[i].sub = op'[p].s} = mine
      BY <2>2, <3>1
    <3>3. Work(p)'
      <4>1. \A i \in mine \ {n} : ~IsActive(inst[i].status)
        BY <1>0, <2>1 DEF Work
      <4>2. ~IndexAllows(n, "Busy")
        <5>1. op'[p] # Idle
          BY <3>1 DEF Idle
        <5>2. Done(p) => op'[p] = Idle
          BY <1>0 DEF Done
        <5> QED BY <1>6, <5>1, <5>2 DEF StartGameInstance
      <4>3. PICK j \in Instances \ {n} : inst[j].sub = inst[n].sub /\ Indexed(inst[j].status)
        BY <4>2 DEF IndexAllows
      <4>4. j \in mine \ {n} /\ inst[j].status \in {"Failed", "StopFailed"}
        BY <1>2, <4>1, <4>3 DEF Indexed, IsActive
      <4> QED BY <1>2, <2>2, <3>1, <3>2, <4>1, <4>4 DEF Work
    <3> QED BY <1>0, <2>1, <2>2, <3>1, <3>3, QuietStepInv
  <2>3. CASE /\ IndexAllows(n, "Busy") /\ Done(p)
             /\ inst' = [inst EXCEPT ![n].status = "Busy", ![n].copy = "Busy"]
    <3>1. /\ inst'[n].sub = op[p].s /\ inst'[n].status = "Busy" /\ inst'[n].copy = "Busy"
          /\ \A j \in Instances \ {n} : inst'[j] = inst[j]
          /\ op'[p] = Idle /\ \A q \in Processes \ {p} : op'[q] = op[q]
      BY <1>0, <1>2, <2>3 DEF Done, Insts
    <3>2. \A j \in Instances \ {n} : inst[j].sub = inst'[n].sub => ~Occupies(inst[j].status)
      <4>1. SUFFICES ASSUME NEW j \in Instances \ {n}, inst[j].sub = op[p].s PROVE ~Occupies(inst[j].status)
        BY <3>1
      <4>2. ~IsActive(inst[j].status)
        BY <1>0, <2>1, <4>1 DEF Work
      <4>3. ~Indexed(inst[j].status)
        BY <1>2, <2>3, <4>1 DEF IndexAllows, Indexed
      <4> QED BY <4>2, <4>3 DEF IsActive, Indexed, Occupies
    <3>3. Slots'
      BY <1>0, <1>2, <3>1, <3>2, SlotsKept
    <3>4. WithinLimit'
      BY <1>2, <3>1, LimitKept DEF Inv
    <3>5. sub[inst'[n].sub].status = "active"
      BY <1>0, <1>1, <1>2, <3>1 DEF Current
    <3>6. \A q \in Processes : op'[q] = Idle \/ (op'[q] = op[q] /\ op[q].s \notin {inst[n].sub, inst'[n].sub})
      BY <1>0, <1>2, <3>1 DEF Exclusive
    <3> QED BY <1>0, <1>2, <2>1, <3>1, <3>3, <3>4, <3>5, <3>6, InstanceStepInv
  <2> QED BY <1>6, <2>2, <2>3 DEF StartGameInstance
<1> QED BY <1>4, <1>5, <1>6

LEMMA CreateInv ==
  ASSUME Inv, NEW p \in Processes, NEW i \in Instances, CreateInstance(p, i)
  PROVE  Inv'
<1>0. /\ op[p] \in Ops /\ op \in [Processes -> Ops] /\ Work(p) /\ Typed' /\ Exclusive /\ Slots
      /\ inst \in [Instances -> Insts]
  BY StepTyped DEF Inv, Ordered, Typed, OpOK, InstOK, Step
<1>1. /\ op[p].pc = "create" /\ inst[i].sub = NoSub /\ UNCHANGED <<sub, rest>>
      /\ inst'[i].sub = op[p].s /\ inst'[i].status = "Stopped" /\ inst'[i].copy = "none"
      /\ \A j \in Instances \ {i} : inst'[j] = inst[j]
      /\ op'[p] = Idle /\ \A q \in Processes \ {p} : op'[q] = op[q]
  BY <1>0 DEF CreateInstance, Done
<1>2. op[p].s \in Subs /\ op[p].s # NoSub
  BY <1>1, Busy, SubscriptionAssumption DEF Inv, Sound
<1>3. Slots'
  BY <1>0, <1>1, <1>2, SlotsKept DEF Occupies
<1>4. WithinLimit'
  <2> SUFFICES ASSUME NEW s \in Subs, MaxInstances[s] > 0
               PROVE  Cardinality(Owned(s)') <= MaxInstances[s]
    BY DEF WithinLimit
  <2>1. IsFiniteSet(Owned(s)) /\ MaxInstances[s] \in Nat /\ Cardinality(Owned(s)) \in Nat
    BY SubscriptionAssumption, FS_Subset, FS_CardinalityType DEF Owned
  <2>2. CASE s = op[p].s
    <3>1. Owned(s)' = Owned(s) \cup {i} /\ i \notin Owned(s)
      BY <1>1, <1>2, <2>2 DEF Owned
    <3>2. Cardinality(Owned(s)) < MaxInstances[s]
      BY <1>0, <1>1, <2>2 DEF Work, Owned
    <3>3. Cardinality(Owned(s)') = Cardinality(Owned(s)) + 1
      BY <2>1, <3>1, FS_AddElement
    <3> QED BY <2>1, <3>2, <3>3
  <2>3. CASE s # op[p].s
    <3>1. Owned(s)' = Owned(s)
      BY <1>1, <2>3, SubscriptionAssumption DEF Owned
    <3> QED BY <3>1 DEF Inv, WithinLimit
  <2> QED BY <2>2, <2>3
<1>5. \A q \in Processes : op'[q] = Idle \/ (op'[q] = op[q] /\ op[q].s \notin {inst[i].sub, inst'[i].sub})
  <2>1. ASSUME NEW q \in Processes \ {p}, op[q] # Idle PROVE op[q].s \notin {inst[i].sub, inst'[i].sub}
    <3>1. op[q].s # NoSub
      BY <2>1, Busy DEF Inv
    <3>2. op[q].s # op[p].s
      BY <1>0, <1>2, <2>1 DEF Exclusive
    <3> QED BY <1>1, <3>1, <3>2
  <2> QED BY <1>1, <2>1
<1>6. Settled(i)'
  BY <1>1 DEF Settled, IsActive
<1> QED BY <1>0, <1>1, <1>3, <1>4, <1>5, <1>6, InstanceStepInv

-----------------------------------------------------------------------------
(* The sweep, the dispatcher and the rest.                                 *)

LEMMA SweepInv ==
  ASSUME Inv, Overlap = FALSE, ExpireOverdue \/ ExpireOne
  PROVE  Inv'
<1>0. Typed' /\ Sweeper \in Processes /\ UNCHANGED <<sub, inst>> /\ Exclusive /\ Current
  BY TypedStep DEF Inv, Ordered, Next, Processes, ExpireOverdue, ExpireOne
<1>1. InactiveIsQuiet'
  BY <1>0 DEF Inv, InactiveIsQuiet
<1>2. CASE ExpireOverdue
  <2>1. UNCHANGED op /\ \A r \in rest' : \E x \in Subs : /\ r = [s |-> x, read |-> sub[x]]
                                                         /\ sub[x].status = "active" /\ Quiet(x)
    BY <1>2 DEF ExpireOverdue
  <2>2. \A r \in rest' : /\ \A q \in Processes : op[q].s # r.s
                         /\ r = [s |-> r.s, read |-> sub[r.s]] /\ r.read = sub[r.s] /\ r.read.status = "active"
    BY <2>1 DEF Quiet
  <2>3. Exclusive'
    <3>1. \A r, t \in rest' : r.s = t.s => r = t
      BY <2>2
    <3> QED BY <1>0, <2>1, <2>2, <3>1 DEF Exclusive
  <2>4. Current'
    BY <1>0, <2>1, <2>2 DEF Current
  <2>5. ASSUME NEW q \in Processes PROVE Work(q)'
    BY <1>0, <2>1, WorkKept DEF Inv, Ordered
  <2> QED BY <1>0, <1>1, <2>3, <2>4, <2>5, InstsKept DEF Inv, Ordered
<1>3. CASE ExpireOne
  <2>1. PICK r \in rest : /\ rest' = rest \ {r} /\ op[Sweeper] = Idle
                          /\ op' = [op EXCEPT ![Sweeper] = [Idle EXCEPT !.kind = "Expire", !.pc = "list", !.s = r.s,
                                                                        !.read = r.read]]
    BY <1>3 DEF ExpireOne
  <2>2. /\ op'[Sweeper].kind = "Expire" /\ op'[Sweeper].pc = "list" /\ op'[Sweeper].s = r.s /\ op'[Sweeper].read = r.read
        /\ \A q \in Processes \ {Sweeper} : op'[q] = op[q]
    <3>1. op'[Sweeper] = [Idle EXCEPT !.kind = "Expire", !.pc = "list", !.s = r.s, !.read = r.read]
          /\ \A q \in Processes \ {Sweeper} : op'[q] = op[q]
      BY <1>0, <2>1 DEF Inv, Typed, OpOK
    <3> QED BY <3>1 DEF Idle
  <2>3. Exclusive'
    BY <1>0, <2>1, <2>2 DEF Exclusive
  <2>4. Current'
    BY <1>0, <2>1, <2>2 DEF Current
  <2>5. ASSUME NEW q \in Processes PROVE Work(q)'
    <3>1. CASE q = Sweeper
      BY <2>2, <3>1 DEF Work
    <3>2. CASE q # Sweeper
      BY <1>0, <2>2, <3>2, WorkKept DEF Inv, Ordered
    <3> QED BY <3>1, <3>2
  <2> QED BY <1>0, <1>1, <2>3, <2>4, <2>5, InstsKept DEF Inv, Ordered
<1> QED BY <1>2, <1>3

LEMMA PurchaseInv ==
  ASSUME Inv, NEW s \in Subs, Purchase(s)
  PROVE  Inv'
<1>0. Typed' /\ UNCHANGED <<inst, op, rest>> /\ Exclusive /\ Current
  BY TypedStep DEF Inv, Ordered, Next, Purchase
<1>1. sub[s].status = "none" /\ sub'[s].status = "active" /\ \A t \in Subs \ {s} : sub'[t] = sub[t]
  BY DEF Purchase, Inv, Typed, SubOK
<1>2. Exclusive'
  BY <1>0 DEF Exclusive
<1>3. Current'
  <2>1. \A r \in rest : r.s \in Subs \ {s}
    BY <1>0, <1>1 DEF Current, Inv, Typed, RestOK
  <2>2. \A q \in Processes : op[q].s # NoSub => op[q].s \in Subs \ {s}
    BY <1>0, <1>1 DEF Current, Inv, Typed, OpOK, Ops
  <2> QED BY <1>0, <1>1, <2>1, <2>2 DEF Current
<1>4. ASSUME NEW q \in Processes PROVE Work(q)'
  BY <1>0, WorkKept DEF Inv, Ordered
<1>5. InactiveIsQuiet'
  <2>1. \A i \in Instances : inst[i].sub # NoSub => inst[i].sub \in Subs
    BY DEF Inv, Typed, InstOK, Insts
  <2> QED BY <1>0, <1>1, <2>1 DEF Inv, InactiveIsQuiet
<1> QED BY <1>0, <1>2, <1>3, <1>4, <1>5, InstsKept DEF Inv, Ordered

LEMMA OwnerInv ==
  ASSUME Inv, Overlap = FALSE, NEW i \in Instances, DeleteInstance(i) \/ \E s \in Subs : StopInstance(s, i)
  PROVE  Inv'
<1>0. /\ Typed' /\ UNCHANGED <<sub, op, rest>> /\ Slots /\ inst \in [Instances -> Insts] /\ inst[i] \in Insts
  BY TypedStep DEF Inv, Next, DeleteInstance, StopInstance, Typed, InstOK
<1>1. Quiet(inst[i].sub) /\ inst[i].status # "none" /\ inst[i].sub # NoSub
  <2>1. Quiet(inst[i].sub) /\ inst[i].status # "none"
    BY DEF DeleteInstance, StopInstance, Owned, MayStop
  <2> QED BY <1>0, <2>1 DEF Slots
<1>2. \A j \in Instances \ {i} : inst'[j] = inst[j]
  BY <1>0 DEF DeleteInstance, StopInstance, StopGameInstance
<1>3. \/ inst'[i].sub = NoSub /\ inst'[i].status = "none" /\ inst'[i].copy = "none"
      \/ /\ inst'[i].sub = inst[i].sub /\ inst'[i].status = "Stopping" /\ inst'[i].copy = "Stopping"
         /\ Occupies(inst[i].status)
  BY <1>0 DEF DeleteInstance, StopInstance, StopGameInstance, MayStop, Occupies, Insts
<1>4. Slots'
  <2>1. Occupies(inst'[i].status) =>
          \A j \in Instances \ {i} : inst[j].sub = inst'[i].sub => ~Occupies(inst[j].status)
    BY <1>0, <1>3 DEF Slots, Occupies
  <2> QED BY <1>0, <1>1, <1>2, <1>3, <2>1, SlotsKept
<1>5. WithinLimit'
  BY <1>2, <1>3, LimitKept DEF Inv
<1>6. \A q \in Processes : op'[q] = Idle \/ (op'[q] = op[q] /\ op[q].s \notin {inst[i].sub, inst'[i].sub})
  <2>1. ASSUME NEW q \in Processes, op[q] # Idle PROVE op[q].s \notin {inst[i].sub, inst'[i].sub}
    <3>1. op[q].s # NoSub /\ op[q].s # inst[i].sub
      BY <1>1, <2>1, Busy DEF Inv, Quiet
    <3> QED BY <1>3, <3>1
  <2> QED BY <1>0, <2>1
<1>7. Settled(i)'
  BY <1>3 DEF Settled, IsActive
<1> QED BY <1>0, <1>2, <1>4, <1>5, <1>6, <1>7, InstanceStepInv

LEMMA DispatcherInv ==
  ASSUME Inv, NEW i \in Instances, Die(i) \/ \E to \in InstanceStatus : Advance(i, to)
  PROVE  Inv'
<1>0. /\ Typed' /\ UNCHANGED <<sub, op, rest>> /\ Slots /\ inst \in [Instances -> Insts] /\ inst[i] \in Insts
  BY TypedStep DEF Inv, Next, Die, Advance, Typed, InstOK
<1>1. \A j \in Instances \ {i} : inst'[j] = inst[j]
  BY <1>0 DEF Die, Advance
<1>2. /\ inst'[i].sub = inst[i].sub /\ inst[i].status # "none" /\ inst'[i].status # "none"
      /\ Occupies(inst[i].status)
      /\ inst'[i].copy # "none" => inst'[i].status = inst'[i].copy
      /\ IsActive(inst'[i].status) => IsActive(inst[i].status) /\ inst[i].status # "Stopping"
      /\ inst[i].status \notin Resting
  <2>1. CASE Die(i)
    <3>1. inst[i].copy = "none"
      BY <1>0, <2>1, Strings DEF Die, Slots, Insts
    <3>2. inst[i].status = "Running" /\ inst'[i].sub = inst[i].sub /\ inst'[i].status = "Failed" /\ inst'[i].copy = "none"
      BY <1>0, <2>1, <3>1 DEF Die, Insts
    <3> QED BY <3>2 DEF Occupies, IsActive, Resting
  <2>2. ASSUME NEW to \in InstanceStatus, Advance(i, to)
        PROVE  /\ inst'[i].sub = inst[i].sub /\ inst[i].status # "none" /\ inst'[i].status # "none"
               /\ Occupies(inst[i].status)
               /\ inst'[i].copy # "none" => inst'[i].status = inst'[i].copy
               /\ IsActive(inst'[i].status) => IsActive(inst[i].status) /\ inst[i].status # "Stopping"
               /\ inst[i].status \notin Resting
    <3>1. /\ inst[i].copy \in {"Busy", "CacheWarming", "Preparing", "Stopping"}
          /\ inst[i].status = inst[i].copy /\ to \in Follows[inst[i].copy]
      BY <1>0, <2>2, Strings DEF Advance, Slots, Insts
    <3>2. Occupies(inst[i].status)
      BY <3>1 DEF Occupies
    <3>3. IndexAllows(i, to)
      <4>1. \A j \in Instances \ {i} : inst[j].sub = inst[i].sub => ~Occupies(inst[j].status)
        BY <1>0, <3>2 DEF Slots
      <4> QED BY <4>1 DEF IndexAllows, Indexed, Occupies
    <3>4. /\ inst'[i].sub = inst[i].sub /\ inst'[i].status = to
          /\ inst'[i].copy = IF to \in DOMAIN Follows THEN to ELSE "none"
      BY <1>0, <2>2, <3>3 DEF Advance, Insts
    <3>5. to # "none" /\ (IsActive(to) => inst[i].copy # "Stopping")
      BY <3>1, Strings DEF IsActive
    <3> QED BY <3>1, <3>2, <3>4, <3>5 DEF IsActive, Resting
  <2> QED BY <2>1, <2>2
<1>3. Slots'
  <2>1. \A j \in Instances \ {i} : inst[j].sub = inst'[i].sub => ~Occupies(inst[j].status)
    BY <1>0, <1>2 DEF Slots
  <2>2. inst[i].sub # NoSub
    BY <1>0, <1>2 DEF Slots
  <2> QED BY <1>0, <1>1, <1>2, <2>1, <2>2, SlotsKept
<1>4. WithinLimit'
  BY <1>1, <1>2, LimitKept DEF Inv
<1>5. Calm(i)
  BY <1>2 DEF Calm, Settled
<1>6. inst'[i].sub # NoSub /\ sub[inst'[i].sub].status # "active" => Settled(i)'
  BY <1>2, <1>5 DEF Inv, InactiveIsQuiet, Calm, Settled
<1> QED BY <1>0, <1>1, <1>3, <1>4, <1>5, <1>6, InstanceStepInv

LEMMA InvStep ==
  ASSUME Overlap = FALSE
  PROVE  Inv /\ [Next]_vars => Inv'
<1> SUFFICES ASSUME Inv, [Next]_vars PROVE Inv'
  OBVIOUS
<1>1. ASSUME NEW p \in Processes, Step(p) PROVE Inv'
  BY <1>1, StopsInv, StopOneInv, SaveInv, StartInv, CreateInv DEF Step
<1>2. ASSUME UNCHANGED <<sub, inst, op, rest>> PROVE Inv'
  <2>1. Typed'
    BY TypedStep DEF Inv
  <2>2. Exclusive' /\ Current' /\ InactiveIsQuiet'
    BY <1>2 DEF Inv, Ordered, Exclusive, Current, InactiveIsQuiet
  <2>3. ASSUME NEW q \in Processes PROVE Work(q)'
    BY <1>2, WorkKept DEF Inv, Ordered
  <2> QED BY <1>2, <2>1, <2>2, <2>3, InstsKept DEF Inv, Ordered
<1> QED BY <1>1, <1>2, RequestInv, SweepInv, PurchaseInv, OwnerInv, DispatcherInv DEF Next, Tick, vars

\* Suspend, Cancel, ExpireOverdue and CreateInstance, each in several steps
\* that interleave with the dispatcher, the sweep and every operation on other
\* subscriptions: what is not paid for is stopped, and no plan is exceeded.
THEOREM SubscriptionsArePaidFor == Overlap = FALSE => (Spec => []PaidFor)
<1> SUFFICES ASSUME Overlap = FALSE PROVE Spec => []PaidFor
  OBVIOUS
<1>1. Inv => InactiveIsQuiet /\ WithinLimit
  BY DEF Inv
<1>2. Inv /\ [Next]_vars => Inv'
  BY InvStep
<1> QED BY <1>1, <1>2, InitInv, TypeCorrect, PTL DEF Spec, PaidFor

\* With the requests of one subscription in sequence the check before a start
\* keeps its slot single, although it and the save are two steps and the
\* dispatcher moves on in between. The index of migration 000027 has no part in
\* that: it refuses no write of the dispatcher, and a start only beside a failed
\* instance and never beside an active one.
THEOREM SlotIsSingle == Overlap = FALSE => (Spec => []OneSlot)
<1> SUFFICES ASSUME Overlap = FALSE PROVE Spec => []OneSlot
  OBVIOUS
<1>1. Inv => SingleActive /\ NoWriteLost
  BY DEF Inv, Slots, Occupies, IsActive, SingleActive, NoWriteLost
<1>2. Inv => RefusedBesideFailed
  <2> SUFFICES ASSUME Inv, NEW p \in Processes, op[p].pc = "conflict"
               PROVE  /\ \A j \in Owned(inst[op[p].i].sub) \ {op[p].i} : ~IsActive(inst[j].status)
                      /\ \E j \in Owned(inst[op[p].i].sub) \ {op[p].i} : inst[j].status \in {"Failed", "StopFailed"}
    BY DEF RefusedBesideFailed
  <2>1. Work(p) /\ op[p].kind = "Start"
    BY Busy DEF Inv, Ordered, Sound
  <2>2. inst[op[p].i].sub = op[p].s
    BY <2>1 DEF Work
  <2> QED BY <2>1, <2>2 DEF Work, Owned
<1>3. Inv /\ [Next]_vars => Inv'
  BY InvStep
<1> QED BY <1>1, <1>2, <1>3, InitInv, PTL DEF Spec, OneSlot
=============================================================================

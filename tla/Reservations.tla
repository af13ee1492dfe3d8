---------------------------- MODULE Reservations ----------------------------
(***************************************************************************)
(* What the reservations of a node promise, whoever asks for them: an      *)
(* instance holds nothing, or one reservation on one node; it gets one     *)
(* only while the node has room, and what it gives back is what it took,   *)
(* once.  A reservation is never moved, changed or shared.                 *)
(* The ports and the status that the transaction writes as well are left   *)
(* to Placement, where many schedulers work on old rows, and               *)
(* InstanceLifecycle, where a reservation is given back on many ways: both *)
(* are shown to implement this specification.                              *)
(***************************************************************************)
EXTENDS Naturals

CONSTANTS Instances, Agents,
          Dims,      \* what is reserved: cpu, memory, disk, bandwidth
          HardDims,  \* the dimensions that are limited
          Limit,     \* Limit[a][d]: what may be reserved on a's node
          NoAgent    \* the node of an instance that holds nothing

VARIABLES reserved,  \* reserved[a][d]: the counter in the row of a's node
          held       \* held[i]: where and what i holds, [agent, req]

rvars == <<reserved, held>>

Zero == [d \in Dims |-> 0]
Nothing == [agent |-> NoAgent, req |-> Zero]

Init ==
  /\ reserved = [a \in Agents |-> Zero]
  /\ held = [i \in Instances |-> Nothing]

\* The request is any that fits: the next state records what was taken.
TryReserve(i, a) ==
  LET req == held'[i].req
  IN /\ held[i] = Nothing
     /\ \A d \in HardDims : reserved[a][d] + req[d] <= Limit[a][d]
     /\ held' = [held EXCEPT ![i] = [agent |-> a, req |-> req]]
     /\ reserved' = [reserved EXCEPT ![a] = [d \in Dims |-> @[d] + req[d]]]

\* Exactly what was taken: the clamp at zero of the code never bites.
Release(i, a) ==
  /\ held[i].agent = a
  /\ held' = [held EXCEPT ![i] = Nothing]
  /\ reserved' = [reserved EXCEPT ![a] = [d \in Dims |-> @[d] - held[i].req[d]]]

Next == \E i \in Instances, a \in Agents : TryReserve(i, a) \/ Release(i, a)

Spec == Init /\ [][Next]_rvars
=============================================================================

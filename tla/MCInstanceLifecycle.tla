------------------------ MODULE MCInstanceLifecycle ------------------------
(* Instances of InstanceLifecycle for TLC: capacities and symmetry.        *)
EXTENDS InstanceLifecycle, TLC

\* Every instance requests one unit.
UnitReq == [i \in Instances |-> 1]
\* A node with room for one, and with room for two, such instances.
CapOne == [a \in Agents |-> 1]
CapTwo == [a \in Agents |-> 2]

CopySymmetry == Permutations(Objects)
FullSymmetry == Permutations(Objects) \cup Permutations(Instances)
=============================================================================

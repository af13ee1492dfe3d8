----------------------------- MODULE RuntimeStats -----------------------------
(***************************************************************************)
(* RuntimeStatsRegistry: the latest figures of each running instance, kept  *)
(* in memory and replaced node by node with every heartbeat.                *)
(***************************************************************************)
EXTENDS FiniteSets

CONSTANTS Agents, Running   \* node agents, and instances they report

VARIABLES
    stats,  \* stats: for each instance with figures, the agent they came from
    nodes   \* nodes: instances in the latest report of each agent

statsVars == <<stats, nodes>>

StatsInit == stats = <<>> /\ nodes = [a \in Agents |-> {}]

\* Mutant: what an agent no longer reports stays.
UpdateForNodeAdds(a, report) ==
    /\ stats' = [i \in DOMAIN stats \union report |->
                   IF i \in report THEN a ELSE stats[i]]
    /\ nodes' = [nodes EXCEPT ![a] = report]

(* UpdateForNode: the report's instances get the new figures, those of the  *)
(* agent's previous report that are gone are deleted.                       *)
UpdateForNode(a, report) ==
    /\ stats' = [i \in (DOMAIN stats \union report) \ (nodes[a] \ report) |->
                   IF i \in report THEN a ELSE stats[i]]
    /\ nodes' = [nodes EXCEPT ![a] = report]

(* Get: what an observer is told of an instance.                            *)
Known(i) == i \in DOMAIN stats

-----------------------------------------------------------------------------
(* No figure outlives its report: what an observer is told of an instance   *)
(* comes from the latest report of the agent that sent it.                  *)
FiguresAreBacked == \A i \in DOMAIN stats : i \in nodes[stats[i]]
=============================================================================

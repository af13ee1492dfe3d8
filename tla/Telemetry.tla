------------------------------- MODULE Telemetry ------------------------------
(***************************************************************************)
(* The observation path of the controller as one system: a heartbeat feeds  *)
(* the runtime figures and the samples, the pressure monitor judges the     *)
(* samples and publishes its transitions, other components publish too, and *)
(* the event bus carries all of it to the table observers read.             *)
(***************************************************************************)
EXTENDS EventBus, NodePressure, RuntimeStats

CONSTANTS
    Loads,          \* samples the heartbeats may carry
    MaxEvents,      \* bound: events published
    MaxUpsets       \* bound: failing writes, UpdateNode calls, restarts

ASSUME TelemetryAssumption ==
    /\ Watched \subseteq Agents
    /\ Loads \subseteq Samples
    /\ {MaxEvents, MaxUpsets} \subseteq Nat

VARIABLES
    next,       \* the number of the next event
    upsets,     \* upsets that may still happen
    disturbed   \* history: a row was saved over, or the controller restarted

vars == <<busVars, pressureVars, statsVars, next, upsets, disturbed>>

Upset == upsets > 0 /\ upsets' = upsets - 1
Unless(ok) == IF ok THEN UNCHANGED upsets ELSE Upset

(* Publish returns before its caller goes on: the monitor has no event of   *)
(* its own on the way when it looks at the next node.                       *)
MonitorIsFree == \A e \in sending : e.type # "pressure"

(* applyHeartbeat: figures, then sample.                                    *)
Heartbeat(a, report, load) ==
    /\ UpdateForNode(a, report)
    /\ IF a \in Watched THEN AppendSample(a, load) ELSE UNCHANGED pressureVars
    /\ UNCHANGED <<busVars, next, upsets, disturbed>>

Expire(n) ==
    /\ SampleExpires(n)
    /\ UNCHANGED <<busVars, statsVars, next, upsets, disturbed>>

Round ==
    /\ MonitorIsFree /\ RoundStart
    /\ UNCHANGED <<busVars, statsVars, next, upsets, disturbed>>

(* evaluateNode with the transition it makes and the event it publishes.    *)
EvaluateNode(n) ==
    /\ MonitorIsFree
    /\ \/ EvaluateNothing(n) /\ UNCHANGED <<busVars, next, upsets>>
       \/ \E ok \in BOOLEAN :
            /\ Evaluate(n, ok) /\ Unless(ok)
            /\ IF Moves(n, ok)
                 THEN /\ next <= MaxEvents /\ next' = next + 1
                      /\ PublishRing([id |-> next, type |-> "pressure", node |-> n,
                                      status |-> Judged(n).status])
                 ELSE UNCHANGED <<busVars, next>>
    /\ UNCHANGED <<statsVars, disturbed>>

PublishOther ==
    /\ next <= MaxEvents /\ next' = next + 1
    /\ PublishRing([id |-> next, type |-> "other"])
    /\ UNCHANGED <<pressureVars, statsVars, upsets, disturbed>>

Send ==
    /\ \E e \in sending : PublishSend(e)
    /\ UNCHANGED <<pressureVars, statsVars, next, upsets, disturbed>>

(* The consumer's select; Cancel leaves it its last flush.                  *)
Consumer ==
    /\ \E ok \in BOOLEAN :
         (Consume(ok) \/ FlushTick(ok) \/ ConsumerExit(ok)) /\ Unless(ok)
    /\ UNCHANGED <<pressureVars, statsVars, next, disturbed>>

Retention ==
    /\ Prune
    /\ UNCHANGED <<pressureVars, statsVars, next, upsets, disturbed>>

Shutdown ==
    /\ Cancel
    /\ UNCHANGED <<pressureVars, statsVars, next, upsets, disturbed>>

UpdateNode(n) ==
    /\ \/ UpdateNodeRead(n) /\ Upset /\ UNCHANGED disturbed
       \/ UpdateNodeSave(n) /\ disturbed' = TRUE /\ UNCHANGED upsets
    /\ UNCHANGED <<busVars, statsVars, next>>

(* A restart: everything in memory goes, the table and the rows stay.       *)
Restart ==
    /\ Upset
    /\ MonitorRestart
    /\ stats' = <<>> /\ nodes' = [a \in Agents |-> {}]
    /\ ring' = <<>> /\ persistCh' = <<>> /\ pending' = <<>> /\ sending' = {}
    /\ running' = "yes" /\ disturbed' = TRUE
    /\ lost' = lost \union
         {<<e, "restart">> : e \in sending \union ToSet(persistCh) \union ToSet(pending)}
    /\ UNCHANGED <<table, next>>

Init ==
    /\ BusInit /\ PressureInit /\ StatsInit
    /\ next = 1 /\ upsets = MaxUpsets /\ disturbed = FALSE

Next ==
    \/ \E a \in Agents, report \in SUBSET Running, load \in Loads :
         Heartbeat(a, report, load)
    \/ \E n \in Watched : Expire(n) \/ EvaluateNode(n) \/ UpdateNode(n)
    \/ Round \/ PublishOther \/ Send \/ Consumer \/ Retention \/ Shutdown \/ Restart

(* The consumer's loop runs as long as the controller does, and a publisher *)
(* that has filled the ring goes on to its send.                            *)
Spec == Init /\ [][Next]_vars /\ WF_vars(Consumer) /\ WF_vars(Send)

-----------------------------------------------------------------------------
Event ==
    [id: 1 .. MaxEvents, type: {"other"}]
        \union [id: 1 .. MaxEvents, type: {"pressure"}, node: Watched, status: Statuses]

(* The type invariant: the ring and the channel keep to their capacity, the *)
(* batch stays below its size, a window holds no more samples than asked    *)
(* for and the two counters stop at their thresholds.                       *)
TypeOK ==
    /\ {ring, persistCh, pending, table} \subseteq Seq(Event)
    /\ Len(ring) <= RingCapacity /\ Len(persistCh) <= ChanCapacity
    /\ Len(pending) < BatchSize
    /\ sending \subseteq Event /\ running \in {"yes", "cancelled", "no"}
    /\ lost \subseteq Event \X {"full", "batch", "pruned", "restart"}
    /\ samples \in [Watched -> UNION {[1 .. k -> Samples] : k \in 0 .. ObservePeriods}]
    /\ pressure \in [Watched -> Statuses]
    /\ counts \in [Watched -> 0 .. ObservePeriods]
    /\ downs \in [Watched -> 0 .. RecoverPeriods]
    /\ DOMAIN round \subseteq Watched /\ DOMAIN save \subseteq Watched
    /\ DOMAIN stats \subseteq Running /\ nodes \in [Agents -> SUBSET Running]
    /\ next \in 1 .. MaxEvents + 1 /\ upsets \in 0 .. MaxUpsets
    /\ disturbed \in BOOLEAN

(* The status of the latest row of the table about node n.                  *)
LastStatus(n) ==
    LET mine == {i \in DOMAIN table : table[i].type = "pressure" /\ table[i].node = n}
    IN IF mine = {} THEN "normal" ELSE table[Max(mine)].status

(* The table of events and the node rows tell the same story: with nothing  *)
(* on its way and nothing given up, the last transition in the table is the *)
(* status in the row, failed writes in between included; only an UpdateNode *)
(* or a restart can separate the two.                                       *)
TableTellsPressure ==
    (~disturbed /\ lost = {} /\ sending = {} /\ persistCh = <<>> /\ pending = <<>>)
        => \A n \in Watched : LastStatus(n) = pressure[n]

(* Nothing waits for ever between its publisher and the table: under the    *)
(* consumer's fairness the batch is written or given up, or the consumer    *)
(* has been stopped.                                                        *)
EventsSettle ==
    []<>(sending = {} /\ ((persistCh = <<>> /\ pending = <<>>) \/ running = "no"))

(* What an observer reads is backed: the figures by a report, the pressure  *)
(* events by the node rows.                                                 *)
ObserversSeeTruth == TypeOK /\ FiguresAreBacked /\ TableTellsPressure
=============================================================================

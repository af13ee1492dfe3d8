------------------------------- MODULE EventBus -------------------------------
(***************************************************************************)
(* SchedulerEventBus: a ring of the latest events in memory, and a bounded  *)
(* channel whose consumer writes batches to the scheduler_events table.     *)
(* Publishing never blocks: a full channel drops the event, a failed batch  *)
(* is dropped, and old rows are pruned. The actions say nothing of who      *)
(* publishes; Telemetry composes them with the publishers.                  *)
(***************************************************************************)
EXTENDS Integers, Sequences, FiniteSets, SequencesExt

CONSTANTS
    RingCapacity,   \* capacity: events kept in memory
    ChanCapacity,   \* 2048 in the code
    BatchSize       \* 64 in the code

ASSUME BusAssumption == {RingCapacity, ChanCapacity, BatchSize} \subseteq Nat \ {0}

VARIABLES
    ring,       \* events: oldest first
    persistCh,  \* the channel
    pending,    \* the consumer's batch
    table,      \* rows of scheduler_events, in order of their id
    sending,    \* events in memory whose publisher has not tried the channel yet
    running,    \* whether the consumer runs: "yes", "cancelled" or "no"
    lost        \* history: <<event, reason>> of events given up

busVars == <<ring, persistCh, pending, table, sending, running, lost>>

LastN(s, n) == IF Len(s) <= n THEN s ELSE SubSeq(s, Len(s) - n + 1, Len(s))

BusInit ==
    /\ ring = <<>> /\ persistCh = <<>> /\ pending = <<>> /\ table = <<>>
    /\ sending = {} /\ running = "yes" /\ lost = {}

(* Publish, first half: the ring, under its lock.                           *)
Remember(e) ==
    /\ ring' = LastN(Append(ring, e), RingCapacity)
    /\ sending' = sending \union {e}

PublishRing(e) ==
    /\ Remember(e)
    /\ UNCHANGED <<persistCh, pending, table, running, lost>>

(* Publish, second half: send or, if the channel is full, drop.             *)
PublishSend(e) ==
    /\ e \in sending
    /\ sending' = sending \ {e}
    /\ IF Len(persistCh) < ChanCapacity
         THEN persistCh' = Append(persistCh, e) /\ UNCHANGED lost
         ELSE lost' = lost \union {<<e, "full">>} /\ UNCHANGED persistCh
    /\ UNCHANGED <<ring, pending, table, running>>

\* Mutant: the batch is written and kept.
FlushKeeps(batch, ok) ==
    /\ IF ok THEN table' = table \o batch /\ UNCHANGED lost
             ELSE /\ lost' = lost \union {<<e, "batch">> : e \in ToSet(batch)}
                  /\ UNCHANGED table
    /\ pending' = batch

(* flush: the batch is written or, when AppendBatch fails, forgotten.       *)
Flush(batch, ok) ==
    /\ IF ok THEN table' = table \o batch /\ UNCHANGED lost
             ELSE /\ lost' = lost \union {<<e, "batch">> : e \in ToSet(batch)}
                  /\ UNCHANGED table
    /\ pending' = <<>>

Consume(ok) ==
    /\ running # "no" /\ persistCh # <<>>
    /\ persistCh' = Tail(persistCh)
    /\ LET batch == Append(pending, Head(persistCh))
       IN IF Len(batch) >= BatchSize
            THEN Flush(batch, ok)
            ELSE pending' = batch /\ UNCHANGED <<table, lost>>
    /\ UNCHANGED <<ring, sending, running>>

\* Mutant: the tick waits for a full batch.
FlushTickFull(ok) ==
    /\ running # "no" /\ Len(pending) >= BatchSize
    /\ Flush(pending, ok)
    /\ UNCHANGED <<ring, persistCh, sending, running>>

FlushTick(ok) ==
    /\ running # "no" /\ pending # <<>>
    /\ Flush(pending, ok)
    /\ UNCHANGED <<ring, persistCh, sending, running>>

(* PruneBefore, on the same tick: rows past the retention go, oldest first. *)
Prune ==
    /\ running # "no" /\ table # <<>>
    /\ table' = Tail(table)
    /\ lost' = lost \union {<<Head(table), "pruned">>}
    /\ UNCHANGED <<ring, persistCh, pending, sending, running>>

(* The context is cancelled; once the consumer's select takes that branch,  *)
(* it flushes its batch and returns.                                        *)
Cancel ==
    /\ running = "yes" /\ running' = "cancelled"
    /\ UNCHANGED <<ring, persistCh, pending, table, sending, lost>>

ConsumerExit(ok) ==
    /\ running = "cancelled" /\ running' = "no"
    /\ Flush(pending, ok)
    /\ UNCHANGED <<ring, persistCh, sending>>

(* What an observer reads: Recent from memory, History from the table, both *)
(* newest first and of one type unless none is given.                       *)
OfType(s, type) ==
    IF type = "" THEN s ELSE SelectSeq(s, LAMBDA e : e.type = type)
FirstN(s, n) == IF n <= 0 \/ Len(s) <= n THEN s ELSE SubSeq(s, 1, n)
Recent(limit, type) == FirstN(Reverse(OfType(ring, type)), limit)
History(limit, type) == FirstN(Reverse(OfType(table, type)), limit)

-----------------------------------------------------------------------------
Everywhere ==
    [e \in ToSet(persistCh) \union ToSet(pending) \union ToSet(table) \union sending
              \union {l[1] : l \in lost} |->
        Cardinality({i \in DOMAIN persistCh : persistCh[i] = e})
      + Cardinality({i \in DOMAIN pending : pending[i] = e})
      + Cardinality({i \in DOMAIN table : table[i] = e})
      + Cardinality(sending \intersect {e})
      + Cardinality({l \in lost : l[1] = e})]

(* Every published event is in exactly one place: with its publisher, in    *)
(* the channel, in the batch, in the table, or given up for one reason. No  *)
(* event is written twice, none disappears without a reason, and Recent and *)
(* History show only events that are accounted for.                         *)
Conserved ==
    /\ \A e \in DOMAIN Everywhere : Everywhere[e] = 1
    /\ ToSet(Recent(0, "")) \union ToSet(History(0, "")) \subseteq DOMAIN Everywhere
=============================================================================

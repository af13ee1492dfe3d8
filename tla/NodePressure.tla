----------------------------- MODULE NodePressure -----------------------------
(***************************************************************************)
(* The pressure of the nodes: samples appended with every heartbeat, the    *)
(* PressureMonitor that turns the peak of the latest ones into Normal,      *)
(* Warning or Critical, and the administrator's UpdateNode, which saves a   *)
(* whole node row. Utilisation is a level: 0 below the warning threshold,   *)
(* 1 from there, 2 from the critical threshold on.                          *)
(***************************************************************************)
EXTENDS Integers, Sequences, FiniteSets, FiniteSetsExt

CONSTANTS
    Watched,        \* nodes the monitor evaluates
    ObservePeriods, \* rounds above a threshold before the status goes up, and
                    \* the number of samples a round looks at
    RecoverPeriods  \* rounds below before the status is Normal again

ASSUME PressureAssumption ==
    {ObservePeriods, RecoverPeriods} \subseteq Nat \ {0}

VARIABLES
    samples,    \* the latest ObservePeriods samples of each node
    pressure,   \* pressure_status of the node rows
    counts,     \* rounds in a row above a threshold, in memory
    downs,      \* rounds in a row below, in memory
    round,      \* nodes the current round still has to look at, with the
                \* status it read for them
    save,       \* UpdateNode calls at work: the status each one read
    quiet       \* history: latest rounds in a row with a peak below

pressureVars == <<samples, pressure, counts, downs, round, save, quiet>>

Levels == 0 .. 2
Samples == [cpu: Levels, mem: Levels]
Statuses == {"normal", "warning", "critical"}

Least(a, b) == IF a < b THEN a ELSE b

PressureInit ==
    /\ samples = [n \in Watched |-> <<>>]
    /\ pressure = [n \in Watched |-> "normal"]
    /\ counts = [n \in Watched |-> 0] /\ downs = [n \in Watched |-> 0]
    /\ round = <<>> /\ save = <<>>
    /\ quiet = [n \in Watched |-> 0]

PeakOf(s) == IF s.cpu > s.mem THEN s.cpu ELSE s.mem

(* latestUtilization of lastNSamples: the highest figure in the window.     *)
latestUtilization(window) ==
    IF window = <<>> THEN 0 ELSE Max({PeakOf(window[i]) : i \in DOMAIN window})

lastNSamples(s) ==
    IF Len(s) <= ObservePeriods THEN s
    ELSE SubSeq(s, Len(s) - ObservePeriods + 1, Len(s))

(* sampleRepo.Append at the end of applyHeartbeat.                          *)
AppendSample(n, s) ==
    /\ samples' = [samples EXCEPT ![n] = lastNSamples(Append(@, s))]
    /\ UNCHANGED <<pressure, counts, downs, round, save, quiet>>

(* A node that stops reporting: its samples leave the history window.       *)
SampleExpires(n) ==
    /\ samples[n] # <<>>
    /\ samples' = [samples EXCEPT ![n] = Tail(@)]
    /\ UNCHANGED <<pressure, counts, downs, round, save, quiet>>

\* Mutant: one quiet round is enough.
pressureStepEager(util, status, up, down) ==
    IF util = 0
      THEN [status |-> "normal", up |-> 0, down |-> 0]
      ELSE LET u == Least(up + 1, ObservePeriods) IN
           [status |-> IF u < ObservePeriods THEN status
                       ELSE IF util = 2 THEN "critical" ELSE "warning",
            up |-> u, down |-> 0]

(* One step of the state machine; up is only ever compared with             *)
(* ObservePeriods and saturates there.                                      *)
pressureStep(util, status, up, down) ==
    IF util = 0
      THEN LET d == IF status = "normal" THEN down ELSE down + 1 IN
           IF d >= RecoverPeriods /\ status # "normal"
             THEN [status |-> "normal", up |-> 0, down |-> 0]
             ELSE [status |-> status, up |-> 0, down |-> d]
      ELSE LET u == Least(up + 1, ObservePeriods) IN
           [status |-> IF u < ObservePeriods THEN status
                       ELSE IF util = 2 THEN "critical" ELSE "warning",
            up |-> u, down |-> 0]

(* reconcileOnce reads all nodes, then evaluates them one by one.           *)
RoundStart ==
    /\ round = <<>>
    /\ round' = [n \in Watched |-> pressure[n]]
    /\ UNCHANGED <<samples, pressure, counts, downs, save, quiet>>

RoundLeave(n) ==
    round' = [k \in DOMAIN round \ {n} |-> round[k]]

Judged(n) == pressureStep(latestUtilization(lastNSamples(samples[n])),
                          round[n], counts[n], downs[n])

(* evaluateNode without samples keeps everything.                           *)
EvaluateNothing(n) ==
    /\ n \in DOMAIN round /\ samples[n] = <<>>
    /\ RoundLeave(n)
    /\ UNCHANGED <<samples, pressure, counts, downs, save, quiet>>

(* evaluateNode: the counters are kept whether or not the write succeeds.   *)
Evaluate(n, ok) ==
    /\ n \in DOMAIN round /\ samples[n] # <<>>
    /\ LET j == Judged(n) IN
         /\ counts' = [counts EXCEPT ![n] = j.up]
         /\ downs' = [downs EXCEPT ![n] = j.down]
         /\ pressure' = IF ok /\ j.status # round[n]
                          THEN [pressure EXCEPT ![n] = j.status] ELSE pressure
    /\ quiet' = [quiet EXCEPT ![n] =
                   IF latestUtilization(samples[n]) = 0
                     THEN Least(@ + 1, RecoverPeriods) ELSE 0]
    /\ RoundLeave(n)
    /\ UNCHANGED <<samples, save>>

\* Mutant: the event is published although the write failed.
MovesAnyway(n, ok) == samples[n] # <<>> /\ Judged(n).status # round[n]

(* The event of a transition, published only after a successful write.      *)
Moves(n, ok) == ok /\ samples[n] # <<>> /\ Judged(n).status # round[n]

(* UpdateNode: GetByID, then Save with every column.                        *)
UpdateNodeRead(n) ==
    /\ n \notin DOMAIN save
    /\ save' = [k \in DOMAIN save \union {n} |->
                  IF k = n THEN pressure[n] ELSE save[k]]
    /\ UNCHANGED <<samples, pressure, counts, downs, round, quiet>>

UpdateNodeSave(n) ==
    /\ n \in DOMAIN save
    /\ pressure' = [pressure EXCEPT ![n] = save[n]]
    /\ save' = [k \in DOMAIN save \ {n} |-> save[k]]
    /\ UNCHANGED <<samples, counts, downs, round, quiet>>

(* A restart of the controller forgets the counters, not the statuses.      *)
MonitorRestart ==
    /\ counts' = [n \in Watched |-> 0] /\ downs' = [n \in Watched |-> 0]
    /\ round' = <<>> /\ save' = <<>>
    /\ UNCHANGED <<samples, pressure, quiet>>

-----------------------------------------------------------------------------
(* The monitor relaxes a node to Normal only after RecoverPeriods rounds in *)
(* a row whose whole window was below the warning threshold, restarts and   *)
(* failed writes in between included.                                       *)
RecoveryIsEarned ==
    [][\A n \in Watched :
         (pressure[n] # "normal" /\ pressure'[n] = "normal"
            /\ save' = save) => quiet'[n] >= RecoverPeriods]_pressureVars
=============================================================================

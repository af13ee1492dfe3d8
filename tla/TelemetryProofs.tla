---------------------------- MODULE TelemetryProofs ---------------------------
(***************************************************************************)
(* Proofs about the observation path: every event is in exactly one place,  *)
(* what observers read is backed by reports and node rows, and a node is    *)
(* relaxed to Normal only after enough quiet rounds. The invariant has one  *)
(* part for each of the three components and two for the event bus: where   *)
(* the events are (Placed) and what they tell of the node rows (Telling).   *)
(***************************************************************************)
EXTENDS Telemetry, SequenceTheorems, FiniteSetTheorems, TLAPS

Reasons == {"full", "batch", "pruned", "restart"}

BusType ==
    /\ ring \in Seq(Event) /\ persistCh \in Seq(Event)
    /\ pending \in Seq(Event) /\ table \in Seq(Event)
    /\ Len(ring) <= RingCapacity /\ Len(persistCh) <= ChanCapacity
    /\ Len(pending) < BatchSize
    /\ sending \subseteq Event /\ running \in {"yes", "cancelled", "no"}
    /\ lost \subseteq Event \X Reasons
    /\ next \in 1 .. MaxEvents + 1

UpsetsFit == upsets \in 0 .. MaxUpsets /\ disturbed \in BOOLEAN

Window(w) == w \in Seq(Samples) /\ Len(w) <= ObservePeriods

(* The rounds below that the monitor counts have all been quiet.            *)
PressureFits ==
    /\ DOMAIN samples = Watched /\ samples = [n \in Watched |-> samples[n]]
    /\ \A n \in Watched : Window(samples[n])
    /\ pressure \in [Watched -> Statuses]
    /\ counts \in [Watched -> 0 .. ObservePeriods]
    /\ downs \in [Watched -> 0 .. RecoverPeriods]
    /\ quiet \in [Watched -> 0 .. RecoverPeriods]
    /\ DOMAIN round \subseteq Watched /\ \A n \in DOMAIN round : round[n] \in Statuses
    /\ DOMAIN save \subseteq Watched /\ \A n \in DOMAIN save : save[n] \in Statuses
    /\ \A n \in Watched : downs[n] <= quiet[n]

StatsFit ==
    /\ DOMAIN stats \subseteq Running /\ nodes \in [Agents -> SUBSET Running]
    /\ \A i \in DOMAIN stats : stats[i] \in Agents
    /\ FiguresAreBacked

-----------------------------------------------------------------------------
(* A window cut to its latest entries stays a window, of entries it had.    *)
LEMMA Latest ==
    ASSUME NEW T, NEW s \in Seq(T), NEW n \in Nat,
           NEW r, r = IF Len(s) <= n THEN s ELSE SubSeq(s, Len(s) - n + 1, Len(s))
    PROVE  /\ r \in Seq(T) /\ Len(r) <= n
           /\ \A i \in DOMAIN r : \E j \in DOMAIN s : r[i] = s[j]
<1>1. CASE Len(s) <= n
  BY <1>1
<1>2. CASE ~(Len(s) <= n)
  <2>1. r = SubSeq(s, Len(s) - n + 1, Len(s)) /\ Len(s) \in Nat
    BY <1>2
  <2>2. Len(s) - n + 1 \in 1 .. Len(s) + 1
    BY <1>2, <2>1
  <2>3. r \in Seq(T) /\ Len(r) = n
        /\ \A i \in 1 .. n : r[i] = s[Len(s) - n + i]
    BY <2>1, <2>2, <1>2
  <2>4. \A i \in DOMAIN r : \E j \in DOMAIN s : r[i] = s[j]
    <3> TAKE i \in DOMAIN r
    <3>1. i \in 1 .. n BY <2>3
    <3>2. Len(s) - n + i \in DOMAIN s BY <3>1, <2>1, <1>2
    <3> QED BY <3>1, <3>2, <2>3
  <2> QED BY <2>3, <2>4
<1> QED BY <1>1, <1>2

LEMMA WindowKept ==
    ASSUME NEW w, Window(w), NEW x \in Samples
    PROVE  /\ Window(lastNSamples(Append(w, x)))
           /\ lastNSamples(w) = w
           /\ w # <<>> => Window(Tail(w))
<1>1. ObservePeriods \in Nat
  BY PressureAssumption
<1>2. Append(w, x) \in Seq(Samples)
  BY DEF Window
<1>3. Window(lastNSamples(Append(w, x)))
  <2> DEFINE s == Append(w, x)
             r == lastNSamples(s)
  <2>1. r = IF Len(s) <= ObservePeriods THEN s
            ELSE SubSeq(s, Len(s) - ObservePeriods + 1, Len(s))
    BY DEF lastNSamples
  <2>2. s \in Seq(Samples) BY <1>2
  <2> HIDE DEF s, r
  <2>3. r \in Seq(Samples) /\ Len(r) <= ObservePeriods
    BY <2>1, <2>2, <1>1, Latest
  <2> QED BY <2>3 DEF Window, r, s
<1>4. lastNSamples(w) = w
  BY DEF Window, lastNSamples
<1>5. w # <<>> => Window(Tail(w))
  BY <1>1 DEF Window
<1> QED BY <1>3, <1>4, <1>5

(* The peak of a window is a level.                                         *)
LEMMA PeakIsLevel ==
    ASSUME NEW w, Window(w)
    PROVE  latestUtilization(w) \in Levels
<1>1. CASE w = <<>>
  BY <1>1 DEF latestUtilization, Levels
<1>2. CASE w # <<>>
  <2> DEFINE S == {PeakOf(w[i]) : i \in DOMAIN w}
  <2>1. S \subseteq 0 .. 2 /\ S # {}
    <3>1. \A i \in DOMAIN w : w[i] \in Samples BY DEF Window
    <3>2. \A s \in Samples : PeakOf(s) \in 0 .. 2 BY DEF Samples, Levels, PeakOf
    <3>3. 1 \in DOMAIN w BY <1>2 DEF Window
    <3> QED BY <3>1, <3>2, <3>3
  <2>2. latestUtilization(w) = Max(S)
    BY <1>2 DEF latestUtilization
  <2> HIDE DEF S
  <2>3. \E x \in S : \A y \in S : x >= y
    <3>1. CASE 2 \in S BY <3>1, <2>1
    <3>2. CASE 2 \notin S /\ 1 \in S
      <4>1. \A y \in S : 1 >= y BY <3>2, <2>1
      <4> QED BY <4>1, <3>2
    <3>3. CASE 2 \notin S /\ 1 \notin S
      <4>1. \A y \in S : y = 0 BY <3>3, <2>1
      <4>2. PICK x \in S : TRUE BY <2>1
      <4> QED BY <4>1, <4>2
    <3> QED BY <3>1, <3>2, <3>3
  <2>4. Max(S) \in S
    BY <2>3 DEF Max
  <2> QED BY <2>4, <2>2, <2>1 DEF Levels
<1> QED BY <1>1, <1>2

-----------------------------------------------------------------------------
(* What the steps do to the pressure of the nodes.                          *)
PressureSteps ==
    \/ \E n \in Watched, x \in Loads : AppendSample(n, x)
    \/ \E n \in Watched : SampleExpires(n)
    \/ RoundStart
    \/ \E n \in Watched : EvaluateNothing(n)
    \/ \E n \in Watched, ok \in BOOLEAN : Evaluate(n, ok)
    \/ \E n \in Watched : UpdateNodeRead(n)
    \/ \E n \in Watched : UpdateNodeSave(n)
    \/ MonitorRestart
    \/ UNCHANGED pressureVars

LEMMA PressureFrame == [Next]_vars => PressureSteps
<1> SUFFICES ASSUME [Next]_vars PROVE PressureSteps
  OBVIOUS
<1>1. ASSUME NEW a \in Agents, NEW report \in SUBSET Running, NEW load \in Loads,
             Heartbeat(a, report, load)
      PROVE  PressureSteps
  <2>1. CASE a \in Watched
    BY <1>1, <2>1 DEF Heartbeat, PressureSteps
  <2>2. CASE a \notin Watched
    BY <1>1, <2>2 DEF Heartbeat, PressureSteps
  <2> QED BY <2>1, <2>2
<1>2. ASSUME NEW n \in Watched, Expire(n) PROVE PressureSteps
  BY <1>2 DEF Expire, PressureSteps
<1>3. ASSUME NEW n \in Watched, EvaluateNode(n) PROVE PressureSteps
  BY <1>3 DEF EvaluateNode, PressureSteps
<1>4. ASSUME NEW n \in Watched, UpdateNode(n) PROVE PressureSteps
  BY <1>4 DEF UpdateNode, PressureSteps
<1>5. CASE Round
  BY <1>5 DEF Round, PressureSteps
<1>6. CASE PublishOther \/ Send \/ Consumer \/ Retention \/ Shutdown
  BY <1>6 DEF PublishOther, Send, Consumer, Retention, Shutdown, PressureSteps
<1>7. CASE Restart
  BY <1>7 DEF Restart, PressureSteps
<1>8. CASE UNCHANGED vars
  BY <1>8 DEF vars, PressureSteps
<1> QED BY <1>1, <1>2, <1>3, <1>4, <1>5, <1>6, <1>7, <1>8 DEF Next

(* One judgement: counters within their bounds, and a status that becomes   *)
(* Normal only on the last of the quiet rounds asked for.                   *)
LEMMA StepJudges ==
    ASSUME NEW util \in Levels, NEW status \in Statuses,
           NEW up \in 0 .. ObservePeriods, NEW down \in 0 .. RecoverPeriods,
           NEW q \in 0 .. RecoverPeriods, down <= q,
           NEW j, j = pressureStep(util, status, up, down),
           NEW r, r = IF util = 0 THEN Least(q + 1, RecoverPeriods) ELSE 0
    PROVE  /\ j.status \in Statuses
           /\ j.up \in 0 .. ObservePeriods /\ j.down \in 0 .. RecoverPeriods
           /\ r \in 0 .. RecoverPeriods
           /\ j.down <= r
           /\ (j.status = "normal" /\ status # "normal") => r >= RecoverPeriods
<1>1. ObservePeriods \in Nat /\ ObservePeriods > 0 /\ RecoverPeriods \in Nat /\ RecoverPeriods > 0
  BY PressureAssumption
<1>2. CASE util = 0 /\ status = "normal"
  <2>1. j = [status |-> status, up |-> 0, down |-> down]
    BY <1>2 DEF pressureStep
  <2>2. r = Least(q + 1, RecoverPeriods)
    BY <1>2
  <2> QED BY <1>1, <1>2, <2>1, <2>2 DEF Least
<1>3. CASE util = 0 /\ status # "normal" /\ down + 1 >= RecoverPeriods
  <2>1. j = [status |-> "normal", up |-> 0, down |-> 0]
    BY <1>3 DEF pressureStep
  <2>2. r = Least(q + 1, RecoverPeriods)
    BY <1>3
  <2> QED BY <1>1, <1>3, <2>1, <2>2 DEF Least, Statuses
<1>4. CASE util = 0 /\ status # "normal" /\ ~(down + 1 >= RecoverPeriods)
  <2>1. j = [status |-> status, up |-> 0, down |-> down + 1]
    BY <1>4 DEF pressureStep
  <2>2. r = Least(q + 1, RecoverPeriods)
    BY <1>4
  <2> QED BY <1>1, <1>4, <2>1, <2>2 DEF Least
<1>5. CASE util # 0
  <2> DEFINE u == Least(up + 1, ObservePeriods)
             st == IF u < ObservePeriods THEN status
                   ELSE IF util = 2 THEN "critical" ELSE "warning"
  <2>1. j = [status |-> st, up |-> u, down |-> 0]
    BY <1>5 DEF pressureStep
  <2>2. u \in 0 .. ObservePeriods
    BY <1>1 DEF Least
  <2>3. st \in Statuses /\ (st = "normal" => status = "normal")
    BY DEF Statuses
  <2>4. r = 0 BY <1>5
  <2> HIDE DEF u, st
  <2> QED BY <1>1, <2>1, <2>2, <2>3, <2>4
<1> QED BY <1>2, <1>3, <1>4, <1>5

(* evaluateNode on a node of the round.                                     *)
LEMMA EvaluateFits ==
    ASSUME PressureFits, NEW n \in Watched, NEW ok \in BOOLEAN, Evaluate(n, ok)
    PROVE  /\ PressureFits'
           /\ Judged(n).status \in Statuses
           /\ \A m \in Watched :
                (pressure[m] # "normal" /\ pressure'[m] = "normal")
                    => quiet'[m] >= RecoverPeriods
<1> DEFINE util == latestUtilization(samples[n])
           j == Judged(n)
           r == IF util = 0 THEN Least(quiet[n] + 1, RecoverPeriods) ELSE 0
<1>1. Window(samples[n]) /\ util \in Levels /\ lastNSamples(samples[n]) = samples[n]
  <2>1. Window(samples[n]) BY DEF PressureFits
  <2>2. util \in Levels BY <2>1, PeakIsLevel
  <2>3. lastNSamples(samples[n]) = samples[n] BY DEF lastNSamples, Window, PressureFits
  <2> QED BY <2>1, <2>2, <2>3
<1>2. n \in DOMAIN round /\ round[n] \in Statuses
  BY DEF Evaluate, PressureFits
<1>3. /\ counts[n] \in 0 .. ObservePeriods /\ downs[n] \in 0 .. RecoverPeriods
      /\ quiet[n] \in 0 .. RecoverPeriods /\ downs[n] <= quiet[n]
  BY DEF PressureFits
<1>4. j = pressureStep(util, round[n], counts[n], downs[n])
  BY <1>1 DEF Judged
<1>5. /\ counts' = [counts EXCEPT ![n] = j.up]
      /\ downs' = [downs EXCEPT ![n] = j.down]
      /\ pressure' = IF ok /\ j.status # round[n]
                       THEN [pressure EXCEPT ![n] = j.status] ELSE pressure
      /\ quiet' = [quiet EXCEPT ![n] = r]
      /\ round' = [k \in DOMAIN round \ {n} |-> round[k]]
      /\ UNCHANGED <<samples, save>>
  BY DEF Evaluate, RoundLeave, PressureFits
<1> HIDE DEF util, j
<1>6. /\ j.status \in Statuses
      /\ j.up \in 0 .. ObservePeriods /\ j.down \in 0 .. RecoverPeriods
      /\ r \in 0 .. RecoverPeriods /\ j.down <= r
      /\ (j.status = "normal" /\ round[n] # "normal") => r >= RecoverPeriods
  BY <1>1, <1>2, <1>3, <1>4, StepJudges
<1> HIDE DEF r
<1>7. /\ DOMAIN samples' = Watched /\ samples' = [m \in Watched |-> samples'[m]]
      /\ \A m \in Watched : Window(samples'[m])
  BY <1>5 DEF PressureFits
<1>8. /\ counts' \in [Watched -> 0 .. ObservePeriods]
      /\ downs' \in [Watched -> 0 .. RecoverPeriods]
      /\ quiet' \in [Watched -> 0 .. RecoverPeriods]
  BY <1>5, <1>6 DEF PressureFits
<1>9. pressure' \in [Watched -> Statuses]
  BY <1>5, <1>6 DEF PressureFits
<1>10. /\ DOMAIN round' \subseteq Watched /\ \A m \in DOMAIN round' : round'[m] \in Statuses
       /\ DOMAIN save' \subseteq Watched /\ \A m \in DOMAIN save' : save'[m] \in Statuses
  BY <1>5 DEF PressureFits
<1>11. \A m \in Watched : downs'[m] <= quiet'[m]
  BY <1>5, <1>6 DEF PressureFits
<1>12. PressureFits'
  BY <1>7, <1>8, <1>9, <1>10, <1>11 DEF PressureFits, Window
<1>13. ASSUME NEW m \in Watched, pressure[m] # "normal", pressure'[m] = "normal"
       PROVE  quiet'[m] >= RecoverPeriods
  <2>1. pressure \in [Watched -> Statuses] /\ quiet \in [Watched -> 0 .. RecoverPeriods]
    BY DEF PressureFits
  <2>2. m = n /\ j.status = "normal" /\ round[n] # "normal"
    BY <1>13, <1>5, <2>1
  <2> QED BY <2>1, <2>2, <1>5, <1>6
<1> QED BY <1>12, <1>13, <1>6 DEF j

LEMMA PressureKept ==
    ASSUME PressureFits, [Next]_vars
    PROVE  PressureFits'
<1>1. PressureSteps
  BY PressureFrame
<1>2. ASSUME NEW n \in Watched, NEW x \in Loads, AppendSample(n, x)
      PROVE  PressureFits'
  <2>1. x \in Samples BY TelemetryAssumption
  <2>2. Window(lastNSamples(Append(samples[n], x)))
    BY <2>1, WindowKept DEF PressureFits
  <2>3. /\ DOMAIN samples' = Watched /\ samples' = [m \in Watched |-> samples'[m]]
        /\ \A m \in Watched : Window(samples'[m])
    BY <1>2, <2>2 DEF AppendSample, PressureFits
  <2> QED BY <1>2, <2>3 DEF AppendSample, PressureFits, Window
<1>3. ASSUME NEW n \in Watched, SampleExpires(n)
      PROVE  PressureFits'
  <2>1. Window(Tail(samples[n]))
    <3>1. Window(samples[n]) /\ samples[n] # <<>> BY <1>3 DEF SampleExpires, PressureFits
    <3> QED BY <3>1, PressureAssumption DEF Window
  <2>2. /\ DOMAIN samples' = Watched /\ samples' = [m \in Watched |-> samples'[m]]
        /\ \A m \in Watched : Window(samples'[m])
    BY <1>3, <2>1 DEF SampleExpires, PressureFits
  <2> QED BY <1>3, <2>2 DEF SampleExpires, PressureFits, Window
<1>4. CASE RoundStart
  BY <1>4 DEF RoundStart, PressureFits, Window
<1>5. ASSUME NEW n \in Watched, EvaluateNothing(n)
      PROVE  PressureFits'
  BY <1>5 DEF EvaluateNothing, RoundLeave, PressureFits, Window
<1>6. ASSUME NEW n \in Watched, NEW ok \in BOOLEAN, Evaluate(n, ok)
      PROVE  PressureFits'
  BY <1>6, EvaluateFits
<1>7. ASSUME NEW n \in Watched, UpdateNodeRead(n)
      PROVE  PressureFits'
  <2>1. pressure[n] \in Statuses BY DEF PressureFits
  <2>2. DOMAIN save' \subseteq Watched /\ \A m \in DOMAIN save' : save'[m] \in Statuses
    BY <1>7, <2>1 DEF UpdateNodeRead, PressureFits
  <2> QED BY <1>7, <2>2 DEF UpdateNodeRead, PressureFits, Window
<1>8. ASSUME NEW n \in Watched, UpdateNodeSave(n)
      PROVE  PressureFits'
  <2>1. save[n] \in Statuses BY <1>8 DEF UpdateNodeSave, PressureFits
  <2> QED BY <1>8, <2>1 DEF UpdateNodeSave, PressureFits, Window
<1>9. CASE MonitorRestart
  <2>1. counts' \in [Watched -> 0 .. ObservePeriods] /\ downs' \in [Watched -> 0 .. RecoverPeriods]
    BY <1>9, PressureAssumption DEF MonitorRestart
  <2>2. \A m \in Watched : downs'[m] <= quiet'[m]
    BY <1>9 DEF MonitorRestart, PressureFits
  <2>3. DOMAIN round' = {} /\ DOMAIN save' = {}
    BY <1>9 DEF MonitorRestart
  <2>4. UNCHANGED <<samples, pressure, quiet>>
    BY <1>9 DEF MonitorRestart
  <2> QED BY <2>1, <2>2, <2>3, <2>4 DEF PressureFits, Window
<1>10. CASE UNCHANGED pressureVars
  BY <1>10 DEF pressureVars, PressureFits, Window
<1> QED BY <1>1, <1>2, <1>3, <1>4, <1>5, <1>6, <1>7, <1>8, <1>9, <1>10 DEF PressureSteps

LEMMA PressureStarts == Init => PressureFits
<1> SUFFICES ASSUME Init PROVE PressureFits
  OBVIOUS
<1>1. PressureInit
  BY DEF Init
<1>2. DOMAIN round = {} /\ DOMAIN save = {}
  BY <1>1 DEF PressureInit
<1>3. /\ DOMAIN samples = Watched /\ samples = [n \in Watched |-> samples[n]]
      /\ \A n \in Watched : Window(samples[n])
  BY <1>1, PressureAssumption DEF PressureInit, Window
<1>4. /\ counts \in [Watched -> 0 .. ObservePeriods]
      /\ downs \in [Watched -> 0 .. RecoverPeriods]
      /\ quiet \in [Watched -> 0 .. RecoverPeriods]
      /\ \A n \in Watched : downs[n] <= quiet[n]
  BY <1>1, PressureAssumption DEF PressureInit
<1>5. pressure \in [Watched -> Statuses]
  BY <1>1 DEF PressureInit, Statuses
<1> QED BY <1>2, <1>3, <1>4, <1>5 DEF PressureFits

(* The monitor of biz/pressure_monitor.go relaxes a node to Normal only     *)
(* after RecoverPeriods rounds in a row with a peak below the warning       *)
(* threshold: the counter it keeps in memory never runs ahead of the quiet  *)
(* rounds there really were, across restarts, failed writes and nodes       *)
(* without samples.                                                         *)
THEOREM RecoveryIsAlwaysEarned == Spec => RecoveryIsEarned
<1> DEFINE Earned == \A n \in Watched :
         (pressure[n] # "normal" /\ pressure'[n] = "normal"
            /\ save' = save) => quiet'[n] >= RecoverPeriods
<1>1. Init => PressureFits
  BY PressureStarts
<1>2. PressureFits /\ [Next]_vars => PressureFits'
  BY PressureKept
<1>3. PressureFits /\ [Next]_vars => [Earned]_pressureVars
  <2> SUFFICES ASSUME PressureFits, [Next]_vars PROVE [Earned]_pressureVars
    OBVIOUS
  <2>1. PressureSteps
    BY PressureFrame
  <2>2. ASSUME NEW n \in Watched, NEW ok \in BOOLEAN, Evaluate(n, ok)
        PROVE  Earned
    BY <2>2, EvaluateFits
  <2>3. ASSUME NEW n \in Watched, UpdateNodeSave(n)
        PROVE  Earned
    <3>1. n \in DOMAIN save /\ n \notin DOMAIN save'
      BY <2>3 DEF UpdateNodeSave
    <3> QED BY <3>1
  <2>4. ASSUME UNCHANGED pressure
        PROVE  Earned
    BY <2>4
  <2>5. \/ \E n \in Watched, ok \in BOOLEAN : Evaluate(n, ok)
        \/ \E n \in Watched : UpdateNodeSave(n)
        \/ UNCHANGED pressure
    BY <2>1 DEF PressureSteps, AppendSample, SampleExpires, RoundStart,
                EvaluateNothing, UpdateNodeRead, MonitorRestart, pressureVars
  <2> HIDE DEF Earned
  <2>6. Earned
    BY <2>2, <2>3, <2>4, <2>5
  <2> QED BY <2>6
<1> QED BY <1>1, <1>2, <1>3, PTL DEF Spec, RecoveryIsEarned

-----------------------------------------------------------------------------
(* The runtime figures.                                                     *)
LEMMA StatsKept ==
    ASSUME StatsFit, [Next]_vars
    PROVE  StatsFit'
<1>1. \/ \E a \in Agents, report \in SUBSET Running : UpdateForNode(a, report)
      \/ stats' = <<>> /\ nodes' = [a \in Agents |-> {}]
      \/ UNCHANGED statsVars
  BY DEF Next, vars, Heartbeat, Expire, EvaluateNode, UpdateNode, Round, PublishOther,
         Send, Consumer, Retention, Shutdown, Restart
<1>2. ASSUME NEW a \in Agents, NEW report \in SUBSET Running, UpdateForNode(a, report)
      PROVE  StatsFit'
  <2>1. /\ DOMAIN stats' = (DOMAIN stats \union report) \ (nodes[a] \ report)
        /\ \A i \in DOMAIN stats' : stats'[i] = IF i \in report THEN a ELSE stats[i]
    BY <1>2 DEF UpdateForNode
  <2>2. nodes' = [nodes EXCEPT ![a] = report] /\ nodes \in [Agents -> SUBSET Running]
    BY <1>2 DEF UpdateForNode, StatsFit
  <2>3. nodes' \in [Agents -> SUBSET Running]
    BY <2>2
  <2>4. ASSUME NEW i \in DOMAIN stats'
        PROVE  i \in Running /\ stats'[i] \in Agents /\ i \in nodes'[stats'[i]]
    <3>1. CASE i \in report
      BY <3>1, <2>1, <2>2
    <3>2. CASE i \notin report
      <4>1. i \in DOMAIN stats /\ stats'[i] = stats[i] /\ i \notin nodes[a]
        BY <3>2, <2>1
      <4>2. stats[i] \in Agents /\ i \in nodes[stats[i]] /\ i \in Running
        BY <4>1 DEF StatsFit, FiguresAreBacked
      <4>3. stats[i] # a BY <4>1, <4>2
      <4> QED BY <4>1, <4>2, <4>3, <2>2
    <3> QED BY <3>1, <3>2
  <2> QED BY <2>3, <2>4 DEF StatsFit, FiguresAreBacked
<1>3. CASE stats' = <<>> /\ nodes' = [a \in Agents |-> {}]
  <2>1. DOMAIN stats' = {} BY <1>3
  <2> QED BY <1>3, <2>1 DEF StatsFit, FiguresAreBacked
<1>4. CASE UNCHANGED statsVars
  BY <1>4 DEF statsVars, StatsFit, FiguresAreBacked
<1> QED BY <1>1, <1>2, <1>3, <1>4

LEMMA StatsStart == Init => StatsFit
<1> SUFFICES ASSUME Init PROVE StatsFit
  OBVIOUS
<1>1. DOMAIN stats = {} /\ nodes = [a \in Agents |-> {}]
  BY DEF Init, StatsInit
<1> QED BY <1>1 DEF StatsFit, FiguresAreBacked

-----------------------------------------------------------------------------
(* Where the events are.                                                    *)
Once(s) == \A i, j \in DOMAIN s : s[i] = s[j] => i = j
OneReason == \A l, m \in lost : l[1] = m[1] => l = m
Gone == {l[1] : l \in lost}
Accounted == sending \union ToSet(persistCh) \union ToSet(pending) \union ToSet(table) \union Gone

Disjoint(A, B) == \A x \in A : x \notin B

Apart ==
    /\ Disjoint(sending, ToSet(persistCh)) /\ Disjoint(sending, ToSet(pending))
    /\ Disjoint(sending, ToSet(table)) /\ Disjoint(sending, Gone)
    /\ Disjoint(ToSet(persistCh), ToSet(pending)) /\ Disjoint(ToSet(persistCh), ToSet(table))
    /\ Disjoint(ToSet(persistCh), Gone)
    /\ Disjoint(ToSet(pending), ToSet(table)) /\ Disjoint(ToSet(pending), Gone)
    /\ Disjoint(ToSet(table), Gone)

Placed ==
    /\ Once(persistCh) /\ Once(pending) /\ Once(table) /\ OneReason
    /\ Apart
    /\ \A e \in Accounted : e.id < next
    /\ ToSet(ring) \subseteq Accounted

LEMMA AppendPlaces ==
    ASSUME NEW T, NEW s \in Seq(T), NEW e \in T
    PROVE  /\ ToSet(Append(s, e)) = ToSet(s) \union {e}
           /\ (Once(s) /\ e \notin ToSet(s)) => Once(Append(s, e))
<1> DEFINE r == Append(s, e)
<1>1. /\ r \in Seq(T) /\ Len(r) = Len(s) + 1 /\ r[Len(s) + 1] = e
      /\ \A i \in 1 .. Len(s) : r[i] = s[i]
      /\ DOMAIN s = 1 .. Len(s) /\ DOMAIN r = 1 .. Len(r) /\ Len(s) \in Nat
  OBVIOUS
<1> HIDE DEF r
<1>2. DOMAIN r = DOMAIN s \union {Len(s) + 1}
  BY <1>1
<1>3. ToSet(r) = ToSet(s) \union {e}
  BY <1>1, <1>2 DEF ToSet
<1>4. (Once(s) /\ e \notin ToSet(s)) => Once(r)
  BY <1>1, <1>2 DEF ToSet, Once
<1> QED BY <1>3, <1>4 DEF r

LEMMA TailPlaces ==
    ASSUME NEW T, NEW s \in Seq(T), s # <<>>, Once(s)
    PROVE  /\ Head(s) \in ToSet(s) /\ Head(s) \in T
           /\ ToSet(Tail(s)) = ToSet(s) \ {Head(s)}
           /\ Once(Tail(s))
<1> DEFINE r == Tail(s)
<1>1. /\ r \in Seq(T) /\ Len(r) = Len(s) - 1 /\ Head(s) = s[1]
      /\ \A i \in 1 .. Len(s) - 1 : r[i] = s[i + 1]
      /\ DOMAIN s = 1 .. Len(s) /\ DOMAIN r = 1 .. Len(s) - 1 /\ Len(s) \in Nat /\ Len(s) > 0
  OBVIOUS
<1> HIDE DEF r
<1>2. \A i \in DOMAIN r : i + 1 \in DOMAIN s /\ r[i] = s[i + 1]
  BY <1>1
<1>3. \A i \in DOMAIN s : i = 1 \/ (i - 1 \in DOMAIN r /\ s[i] = r[i - 1])
  BY <1>1
<1>4. ToSet(r) = ToSet(s) \ {s[1]}
  <2>1. ASSUME NEW x \in ToSet(r) PROVE x \in ToSet(s) \ {s[1]}
    <3>1. PICK i \in DOMAIN r : x = r[i] BY DEF ToSet
    <3>2. i + 1 \in DOMAIN s /\ x = s[i + 1] /\ 1 \in DOMAIN s /\ i + 1 # 1
      BY <3>1, <1>1
    <3> QED BY <3>2 DEF ToSet, Once
  <2>2. ASSUME NEW x \in ToSet(s) \ {s[1]} PROVE x \in ToSet(r)
    <3>1. PICK i \in DOMAIN s : x = s[i] BY DEF ToSet
    <3> QED BY <3>1, <1>3 DEF ToSet
  <2> QED BY <2>1, <2>2
<1>5. Once(r)
  BY <1>1, <1>2 DEF Once
<1>6. s[1] \in ToSet(s) /\ s[1] \in T
  BY <1>1 DEF ToSet
<1> QED BY <1>1, <1>4, <1>5, <1>6 DEF r

LEMMA ConcatPlaces ==
    ASSUME NEW T, NEW s \in Seq(T), NEW t \in Seq(T)
    PROVE  /\ ToSet(s \o t) = ToSet(s) \union ToSet(t)
           /\ (Once(s) /\ Once(t) /\ Disjoint(ToSet(s), ToSet(t))) => Once(s \o t)
<1> DEFINE r == s \o t
<1>1. /\ r \in Seq(T) /\ Len(r) = Len(s) + Len(t)
      /\ \A i \in 1 .. Len(s) : r[i] = s[i]
      /\ \A i \in 1 .. Len(t) : r[Len(s) + i] = t[i]
      /\ DOMAIN s = 1 .. Len(s) /\ DOMAIN t = 1 .. Len(t) /\ DOMAIN r = 1 .. Len(s) + Len(t)
      /\ Len(s) \in Nat /\ Len(t) \in Nat
  OBVIOUS
<1> HIDE DEF r
<1>2. \A i \in DOMAIN r : \/ i \in DOMAIN s /\ r[i] = s[i]
                          \/ i - Len(s) \in DOMAIN t /\ r[i] = t[i - Len(s)]
  BY <1>1
<1>3. /\ \A i \in DOMAIN s : i \in DOMAIN r /\ r[i] = s[i]
      /\ \A i \in DOMAIN t : Len(s) + i \in DOMAIN r /\ r[Len(s) + i] = t[i]
  BY <1>1
<1>4. ToSet(r) = ToSet(s) \union ToSet(t)
  BY <1>2, <1>3 DEF ToSet
<1>5. ASSUME Once(s), Once(t), Disjoint(ToSet(s), ToSet(t)) PROVE Once(r)
  <2>1. ASSUME NEW i \in DOMAIN r, NEW j \in DOMAIN r, r[i] = r[j] PROVE i = j
    <3>1. CASE i \in DOMAIN s /\ r[i] = s[i] /\ j \in DOMAIN s /\ r[j] = s[j]
      BY <3>1, <2>1, <1>5 DEF Once
    <3>2. CASE /\ i - Len(s) \in DOMAIN t /\ r[i] = t[i - Len(s)]
               /\ j - Len(s) \in DOMAIN t /\ r[j] = t[j - Len(s)]
      <4>1. i - Len(s) = j - Len(s) BY <3>2, <2>1, <1>5 DEF Once
      <4> QED BY <4>1, <1>1
    <3>3. CASE /\ i \in DOMAIN s /\ r[i] = s[i]
               /\ j - Len(s) \in DOMAIN t /\ r[j] = t[j - Len(s)]
      BY <3>3, <2>1, <1>5 DEF Disjoint, ToSet
    <3>4. CASE /\ j \in DOMAIN s /\ r[j] = s[j]
               /\ i - Len(s) \in DOMAIN t /\ r[i] = t[i - Len(s)]
      BY <3>4, <2>1, <1>5 DEF Disjoint, ToSet
    <3> QED BY <3>1, <3>2, <3>3, <3>4, <1>2
  <2> QED BY <2>1 DEF Once
<1> QED BY <1>4, <1>5 DEF r

(* What the steps do to the event bus: a new event gets the next number.    *)
RestartBus ==
    /\ ring' = <<>> /\ persistCh' = <<>> /\ pending' = <<>> /\ sending' = {}
    /\ running' = "yes" /\ UNCHANGED table
    /\ lost' = lost \union
         {<<e, "restart">> : e \in sending \union ToSet(persistCh) \union ToSet(pending)}

BusSteps ==
    \/ \E e \in Event : PublishRing(e) /\ e.id = next /\ next' = next + 1 /\ next <= MaxEvents
    \/ /\ UNCHANGED next
       /\ \/ \E e \in sending : PublishSend(e)
          \/ \E ok \in BOOLEAN : Consume(ok) \/ FlushTick(ok) \/ ConsumerExit(ok)
          \/ Prune \/ Cancel \/ RestartBus
          \/ UNCHANGED busVars

LEMMA EventsAreNew ==
    ASSUME BusType, next <= MaxEvents
    PROVE  /\ [id |-> next, type |-> "other"] \in Event
           /\ \A n \in Watched, st \in Statuses :
                [id |-> next, type |-> "pressure", node |-> n, status |-> st] \in Event
<1>1. next \in 1 .. MaxEvents
  BY TelemetryAssumption DEF BusType
<1> QED BY <1>1 DEF Event

LEMMA BusFrame ==
    ASSUME BusType, PressureFits, [Next]_vars
    PROVE  BusSteps
<1>1. ASSUME NEW n \in Watched, EvaluateNode(n) PROVE BusSteps
  <2>1. CASE EvaluateNothing(n) /\ UNCHANGED <<busVars, next, upsets>>
    BY <2>1 DEF BusSteps
  <2>2. ASSUME NEW ok \in BOOLEAN, Evaluate(n, ok),
               IF Moves(n, ok)
                 THEN /\ next <= MaxEvents /\ next' = next + 1
                      /\ PublishRing([id |-> next, type |-> "pressure", node |-> n,
                                      status |-> Judged(n).status])
                 ELSE UNCHANGED <<busVars, next>>
        PROVE  BusSteps
    <3>1. Judged(n).status \in Statuses
      BY <2>2, EvaluateFits
    <3>2. CASE Moves(n, ok)
      <4> DEFINE e == [id |-> next, type |-> "pressure", node |-> n, status |-> Judged(n).status]
      <4>1. e \in Event /\ e.id = next
        BY <2>2, <3>1, <3>2, EventsAreNew
      <4>2. PublishRing(e) /\ next <= MaxEvents /\ next' = next + 1
        BY <2>2, <3>2
      <4> QED BY <4>1, <4>2 DEF BusSteps
    <3>3. CASE ~Moves(n, ok)
      BY <2>2, <3>3 DEF BusSteps
    <3> QED BY <3>2, <3>3
  <2> QED BY <1>1, <2>1, <2>2 DEF EvaluateNode
<1>2. CASE PublishOther
  <2> DEFINE e == [id |-> next, type |-> "other"]
  <2>1. e \in Event /\ e.id = next
    BY <1>2, EventsAreNew DEF PublishOther
  <2> QED BY <1>2, <2>1 DEF PublishOther, BusSteps
<1>3. CASE Send \/ Consumer \/ Retention \/ Shutdown
  BY <1>3 DEF Send, Consumer, Retention, Shutdown, BusSteps
<1>4. CASE Restart
  BY <1>4 DEF Restart, BusSteps, RestartBus
<1>5. CASE \/ \E a \in Agents, report \in SUBSET Running, load \in Loads :
                Heartbeat(a, report, load)
           \/ \E n \in Watched : Expire(n) \/ UpdateNode(n)
           \/ Round \/ UNCHANGED vars
  BY <1>5 DEF Heartbeat, Expire, UpdateNode, Round, vars, BusSteps
<1> QED BY <1>1, <1>2, <1>3, <1>4, <1>5 DEF Next

LEMMA UpsetsKept ==
    ASSUME UpsetsFit, [Next]_vars
    PROVE  UpsetsFit'
<1>1. /\ Upset \/ UNCHANGED upsets
      /\ disturbed' = TRUE \/ UNCHANGED disturbed
  BY DEF Next, vars, Heartbeat, Expire, EvaluateNode, UpdateNode, Round, PublishOther,
         Send, Consumer, Retention, Shutdown, Restart, Unless
<1>2. upsets' \in 0 .. MaxUpsets
  BY <1>1, TelemetryAssumption DEF UpsetsFit, Upset
<1>3. disturbed' \in BOOLEAN
  BY <1>1 DEF UpsetsFit
<1> QED BY <1>2, <1>3 DEF UpsetsFit

(* Events given up for a reason join those given up before.                 *)
LEMMA GoneGrows ==
    ASSUME BusType, OneReason, NEW X, X \subseteq Event, Disjoint(X, Gone),
           NEW r \in Reasons, lost' = lost \union {<<e, r>> : e \in X}
    PROVE  /\ Gone' = Gone \union X
           /\ OneReason'
           /\ lost' \subseteq Event \X Reasons
<1>1. Gone' = Gone \union X
  <2>1. ASSUME NEW x \in Gone' PROVE x \in Gone \union X
    <3>1. PICK l \in lost' : x = l[1] BY DEF Gone
    <3> QED BY <3>1 DEF Gone
  <2>2. ASSUME NEW x \in Gone PROVE x \in Gone'
    BY DEF Gone
  <2>3. ASSUME NEW x \in X PROVE x \in Gone'
    <3>1. <<x, r>> \in lost' /\ <<x, r>>[1] = x OBVIOUS
    <3> QED BY <3>1 DEF Gone
  <2> QED BY <2>1, <2>2, <2>3
<1>2. lost' \subseteq Event \X Reasons
  BY DEF BusType
<1>3. ASSUME NEW l \in lost', NEW m \in lost', l[1] = m[1] PROVE l = m
  <2>1. CASE l \in lost /\ m \in lost
    BY <1>3, <2>1 DEF OneReason
  <2>2. CASE l \notin lost /\ m \notin lost
    BY <1>3, <2>2
  <2>3. CASE l \in lost /\ m \notin lost
    <3>1. m[1] \in X /\ l[1] \in Gone BY <2>3 DEF Gone
    <3> QED BY <3>1, <1>3 DEF Disjoint
  <2>4. CASE l \notin lost /\ m \in lost
    <3>1. l[1] \in X /\ m[1] \in Gone BY <2>4 DEF Gone
    <3> QED BY <3>1, <1>3 DEF Disjoint
  <2> QED BY <2>1, <2>2, <2>3, <2>4
<1> QED BY <1>1, <1>2, <1>3 DEF OneReason

(* flush: the batch leaves for the table or is given up.                    *)
LEMMA FlushPlaces ==
    ASSUME BusType, NEW batch \in Seq(Event), NEW ok \in BOOLEAN, Flush(batch, ok),
           Once(batch), Once(table), OneReason,
           Disjoint(ToSet(batch), ToSet(table)), Disjoint(ToSet(batch), Gone),
           Disjoint(ToSet(table), Gone)
    PROVE  /\ table' \in Seq(Event) /\ lost' \subseteq Event \X Reasons /\ pending' = <<>>
           /\ Once(table') /\ OneReason'
           /\ ToSet(table') \union Gone' = ToSet(table) \union Gone \union ToSet(batch)
           /\ Disjoint(ToSet(table'), Gone')
<1>1. ToSet(batch) \subseteq Event
  BY DEF ToSet
<1>2. table \in Seq(Event) /\ lost \subseteq Event \X Reasons
  BY DEF BusType
<1>3. CASE ok
  <2>1. table' = table \o batch /\ lost' = lost /\ pending' = <<>>
    BY <1>3 DEF Flush
  <2>2. /\ ToSet(table \o batch) = ToSet(table) \union ToSet(batch) /\ Once(table \o batch)
        /\ table \o batch \in Seq(Event)
    <3>1. Disjoint(ToSet(table), ToSet(batch)) BY DEF Disjoint
    <3> QED BY <3>1, <1>2, ConcatPlaces
  <2>3. Gone' = Gone /\ OneReason'
    BY <2>1 DEF Gone, OneReason
  <2>4. Disjoint(ToSet(table'), Gone')
    BY <2>1, <2>2, <2>3 DEF Disjoint
  <2> QED BY <1>2, <2>1, <2>2, <2>3, <2>4
<1>4. CASE ~ok
  <2>1. /\ table' = table /\ pending' = <<>>
        /\ lost' = lost \union {<<e, "batch">> : e \in ToSet(batch)}
    BY <1>4 DEF Flush
  <2>2. Gone' = Gone \union ToSet(batch) /\ OneReason' /\ lost' \subseteq Event \X Reasons
    <3>1. "batch" \in Reasons BY DEF Reasons
    <3> QED BY <3>1, <2>1, <1>1, GoneGrows
  <2>3. Disjoint(ToSet(table'), Gone')
    BY <2>1, <2>2 DEF Disjoint
  <2> QED BY <1>2, <2>1, <2>2, <2>3
<1> QED BY <1>3, <1>4

Bus == BusType /\ Placed

LEMMA EventsTyped ==
    ASSUME BusType
    PROVE  /\ ToSet(persistCh) \subseteq Event /\ ToSet(pending) \subseteq Event
           /\ ToSet(table) \subseteq Event /\ Accounted \subseteq Event
           /\ \A e \in Event : e.id \in 1 .. MaxEvents
<1>1. /\ ToSet(persistCh) \subseteq Event /\ ToSet(pending) \subseteq Event
      /\ ToSet(table) \subseteq Event
  BY DEF BusType, ToSet
<1>2. Gone \subseteq Event
  BY DEF BusType, Gone
<1>3. \A e \in Event : e.id \in 1 .. MaxEvents
  BY DEF Event
<1> QED BY <1>1, <1>2, <1>3 DEF BusType, Accounted

LEMMA PublishPlaces ==
    ASSUME Bus, NEW e \in Event, PublishRing(e), e.id = next, next' = next + 1,
           next <= MaxEvents
    PROVE  Bus'
<1>1. /\ ring' = LastN(Append(ring, e), RingCapacity) /\ sending' = sending \union {e}
      /\ UNCHANGED <<persistCh, pending, table, running, lost>>
  BY DEF PublishRing, Remember
<1>2. e \notin Accounted
  BY DEF Bus, Placed, BusType
<1>3. RingCapacity \in Nat
  BY BusAssumption
<1>4. /\ ring' \in Seq(Event) /\ Len(ring') <= RingCapacity
      /\ ToSet(ring') \subseteq ToSet(ring) \union {e}
  <2> DEFINE s == Append(ring, e)
  <2>1. s \in Seq(Event) /\ ToSet(s) = ToSet(ring) \union {e}
    BY AppendPlaces DEF Bus, BusType
  <2>2. ring' = IF Len(s) <= RingCapacity THEN s
                ELSE SubSeq(s, Len(s) - RingCapacity + 1, Len(s))
    BY <1>1 DEF LastN
  <2> HIDE DEF s
  <2>3. /\ ring' \in Seq(Event) /\ Len(ring') <= RingCapacity
        /\ \A i \in DOMAIN ring' : \E j \in DOMAIN s : ring'[i] = s[j]
    BY <2>1, <2>2, <1>3, Latest
  <2>4. ToSet(ring') \subseteq ToSet(s)
    BY <2>3 DEF ToSet
  <2> QED BY <2>1, <2>3, <2>4
<1>5. BusType'
  BY <1>1, <1>4, TelemetryAssumption DEF Bus, BusType
<1>6. Gone' = Gone /\ OneReason'
  BY <1>1 DEF Gone, OneReason, Bus, Placed
<1>7. Accounted' = Accounted \union {e}
  BY <1>1, <1>6 DEF Accounted
<1>8. Apart'
  BY <1>1, <1>2, <1>6 DEF Apart, Accounted, Disjoint, Bus, Placed
<1>9. \A x \in Accounted' : x.id < next'
  <2>1. Accounted \subseteq Event /\ \A x \in Event : x.id \in 1 .. MaxEvents
    BY EventsTyped DEF Bus
  <2> QED BY <2>1, <1>7, TelemetryAssumption DEF Bus, Placed, BusType
<1>10. ToSet(ring') \subseteq Accounted'
  BY <1>4, <1>7 DEF Bus, Placed
<1>11. Once(persistCh') /\ Once(pending') /\ Once(table')
  BY <1>1 DEF Bus, Placed
<1> QED BY <1>5, <1>6, <1>8, <1>9, <1>10, <1>11 DEF Bus, Placed

LEMMA SendPlaces ==
    ASSUME Bus, NEW e \in sending, PublishSend(e), UNCHANGED next
    PROVE  Bus'
<1>1. /\ sending' = sending \ {e} /\ UNCHANGED <<ring, pending, table, running>>
      /\ e \in Event
  BY DEF PublishSend, Bus, BusType
<1>2. CASE Len(persistCh) < ChanCapacity
  <2>1. persistCh' = Append(persistCh, e) /\ lost' = lost
    BY <1>2 DEF PublishSend
  <2>2. /\ persistCh' \in Seq(Event) /\ Len(persistCh') <= ChanCapacity
        /\ ToSet(persistCh') = ToSet(persistCh) \union {e} /\ Once(persistCh')
    <3>1. persistCh \in Seq(Event) /\ Once(persistCh) /\ e \notin ToSet(persistCh)
      BY DEF Bus, BusType, Placed, Apart, Disjoint
    <3>2. ToSet(persistCh') = ToSet(persistCh) \union {e} /\ Once(persistCh')
      BY <3>1, <2>1, <1>1, AppendPlaces
    <3> QED BY <3>1, <3>2, <2>1, <1>1, <1>2, BusAssumption
  <2>3. Gone' = Gone /\ OneReason'
    BY <2>1 DEF Gone, OneReason, Bus, Placed
  <2>4. BusType'
    BY <1>1, <2>1, <2>2 DEF Bus, BusType
  <2>5. Accounted' = Accounted
    BY <1>1, <2>2, <2>3 DEF Accounted
  <2>6. Apart'
    BY <1>1, <2>2, <2>3 DEF Apart, Disjoint, Bus, Placed
  <2>7. Once(pending') /\ Once(table') /\ ToSet(ring') \subseteq Accounted'
    BY <1>1, <2>5 DEF Bus, Placed
  <2> QED BY <2>2, <2>3, <2>4, <2>5, <2>6, <2>7 DEF Bus, Placed
<1>3. CASE ~(Len(persistCh) < ChanCapacity)
  <2>1. persistCh' = persistCh /\ lost' = lost \union {<<e, "full">>}
    BY <1>3 DEF PublishSend
  <2>2. /\ Gone' = Gone \union {e} /\ OneReason' /\ lost' \subseteq Event \X Reasons
    <3> DEFINE X == {e}
    <3>1. lost' = lost \union {<<x, "full">> : x \in X} /\ "full" \in Reasons
      BY <2>1 DEF Reasons
    <3>2. Disjoint(X, Gone) /\ X \subseteq Event
      BY <1>1 DEF Bus, Placed, Apart, Disjoint
    <3> HIDE DEF X
    <3>3. Gone' = Gone \union X /\ OneReason' /\ lost' \subseteq Event \X Reasons
      BY <3>1, <3>2, GoneGrows DEF Bus, Placed
    <3> QED BY <3>3 DEF X
  <2>3. BusType'
    BY <1>1, <2>1, <2>2 DEF Bus, BusType
  <2>4. Accounted' = Accounted
    BY <1>1, <2>1, <2>2 DEF Accounted
  <2>5. Apart'
    BY <1>1, <2>1, <2>2 DEF Apart, Disjoint, Bus, Placed
  <2>6. /\ Once(persistCh') /\ Once(pending') /\ Once(table')
        /\ ToSet(ring') \subseteq Accounted'
    BY <1>1, <2>1, <2>4 DEF Bus, Placed
  <2> QED BY <2>2, <2>3, <2>4, <2>5, <2>6 DEF Bus, Placed
<1> QED BY <1>2, <1>3

(* The consumer's branches that flush what is in the batch.                 *)
LEMMA FlushKept ==
    ASSUME Bus, NEW ok \in BOOLEAN, Flush(pending, ok),
           UNCHANGED <<ring, persistCh, sending, next>>, running' \in {"yes", "cancelled", "no"}
    PROVE  Bus'
<1>1. /\ table' \in Seq(Event) /\ lost' \subseteq Event \X Reasons /\ pending' = <<>>
      /\ Once(table') /\ OneReason'
      /\ ToSet(table') \union Gone' = ToSet(table) \union Gone \union ToSet(pending)
      /\ Disjoint(ToSet(table'), Gone')
  BY FlushPlaces DEF Bus, BusType, Placed, Apart
<1>2. ToSet(pending') = {} /\ Once(pending') /\ Len(pending') < BatchSize /\ pending' \in Seq(Event)
  BY <1>1, BusAssumption DEF ToSet, Once
<1>3. BusType'
  BY <1>1, <1>2 DEF Bus, BusType
<1>4. Accounted' = Accounted
  BY <1>1, <1>2 DEF Accounted
<1>5. Apart'
  BY <1>1, <1>2 DEF Apart, Disjoint, Bus, Placed
<1> QED BY <1>1, <1>2, <1>3, <1>4, <1>5 DEF Bus, Placed

LEMMA ConsumePlaces ==
    ASSUME Bus, NEW ok \in BOOLEAN, Consume(ok), UNCHANGED next
    PROVE  Bus'
<1> DEFINE h == Head(persistCh)
           batch == Append(pending, h)
<1>1. /\ persistCh # <<>> /\ persistCh' = Tail(persistCh)
      /\ UNCHANGED <<ring, sending, running>>
  BY DEF Consume
<1>2. persistCh \in Seq(Event) /\ pending \in Seq(Event) /\ Once(persistCh) /\ Once(pending)
  BY DEF Bus, BusType, Placed
<1>3. /\ h \in ToSet(persistCh) /\ h \in Event
      /\ ToSet(persistCh') = ToSet(persistCh) \ {h} /\ Once(persistCh')
  BY <1>1, <1>2, TailPlaces
<1>4. persistCh' \in Seq(Event) /\ Len(persistCh') <= ChanCapacity
  BY <1>1, <1>2, BusAssumption DEF Bus, BusType
<1> HIDE DEF h
<1>5. h \notin ToSet(pending) /\ h \notin ToSet(table) /\ h \notin Gone /\ h \notin sending
  BY <1>3 DEF Bus, Placed, Apart, Disjoint
<1>6. ToSet(batch) = ToSet(pending) \union {h} /\ Once(batch) /\ batch \in Seq(Event)
  BY <1>2, <1>3, <1>5, AppendPlaces
<1>7. \/ Len(batch) >= BatchSize /\ Flush(batch, ok)
      \/ ~(Len(batch) >= BatchSize) /\ pending' = batch /\ UNCHANGED <<table, lost>>
  BY DEF Consume, h
<1> HIDE DEF batch
<1>8. CASE Flush(batch, ok)
  <2>1. /\ table' \in Seq(Event) /\ lost' \subseteq Event \X Reasons /\ pending' = <<>>
        /\ Once(table') /\ OneReason'
        /\ ToSet(table') \union Gone' = ToSet(table) \union Gone \union ToSet(batch)
        /\ Disjoint(ToSet(table'), Gone')
    <3>1. /\ Disjoint(ToSet(batch), ToSet(table)) /\ Disjoint(ToSet(batch), Gone)
          /\ Disjoint(ToSet(table), Gone) /\ Once(table) /\ OneReason
      BY <1>5, <1>6 DEF Bus, Placed, Apart, Disjoint
    <3> QED BY <3>1, <1>6, <1>8, FlushPlaces DEF Bus
  <2>2. ToSet(pending') = {} /\ Once(pending') /\ Len(pending') < BatchSize /\ pending' \in Seq(Event)
    BY <2>1, BusAssumption DEF ToSet, Once
  <2>3. BusType'
    BY <1>1, <1>4, <2>1, <2>2 DEF Bus, BusType
  <2>4. Accounted' = Accounted
    BY <1>1, <1>3, <1>6, <2>1, <2>2 DEF Accounted
  <2>5. Apart'
    <3>1. ToSet(table') \union Gone' = ToSet(table) \union Gone \union ToSet(pending) \union {h}
      BY <2>1, <1>6
    <3>2. Disjoint(sending', ToSet(table')) /\ Disjoint(sending', Gone')
      BY <3>1, <1>1, <1>5 DEF Bus, Placed, Apart, Disjoint
    <3>3. Disjoint(ToSet(persistCh'), ToSet(table')) /\ Disjoint(ToSet(persistCh'), Gone')
      BY <3>1, <1>3 DEF Bus, Placed, Apart, Disjoint
    <3> QED BY <3>2, <3>3, <1>1, <1>3, <2>1, <2>2 DEF Apart, Disjoint, Bus, Placed
  <2> QED BY <1>1, <1>3, <2>1, <2>2, <2>3, <2>4, <2>5 DEF Bus, Placed
<1>9. CASE ~(Len(batch) >= BatchSize) /\ pending' = batch /\ UNCHANGED <<table, lost>>
  <2>1. Gone' = Gone /\ OneReason'
    BY <1>9 DEF Gone, OneReason, Bus, Placed
  <2>2. Len(pending') < BatchSize
    BY <1>6, <1>9, BusAssumption
  <2>3. BusType'
    BY <1>1, <1>4, <1>6, <1>9, <2>2 DEF Bus, BusType
  <2>4. Accounted' = Accounted
    BY <1>1, <1>3, <1>6, <1>9, <2>1 DEF Accounted
  <2>5. Apart'
    BY <1>1, <1>3, <1>5, <1>6, <1>9, <2>1 DEF Apart, Disjoint, Bus, Placed
  <2> QED BY <1>1, <1>3, <1>6, <1>9, <2>1, <2>3, <2>4, <2>5 DEF Bus, Placed
<1> QED BY <1>7, <1>8, <1>9

LEMMA PrunePlaces ==
    ASSUME Bus, Prune, UNCHANGED next
    PROVE  Bus'
<1> DEFINE h == Head(table)
<1>1. /\ table # <<>> /\ table' = Tail(table) /\ lost' = lost \union {<<h, "pruned">>}
      /\ UNCHANGED <<ring, persistCh, pending, sending, running>>
  BY DEF Prune
<1>2. table \in Seq(Event) /\ Once(table)
  BY DEF Bus, BusType, Placed
<1>3. /\ h \in ToSet(table) /\ h \in Event /\ ToSet(table') = ToSet(table) \ {h}
      /\ Once(table') /\ table' \in Seq(Event)
  BY <1>1, <1>2, TailPlaces
<1> HIDE DEF h
<1>4. Gone' = Gone \union {h} /\ OneReason' /\ lost' \subseteq Event \X Reasons
  <2> DEFINE X == {h}
  <2>1. lost' = lost \union {<<x, "pruned">> : x \in X} /\ "pruned" \in Reasons
    BY <1>1 DEF Reasons
  <2>2. Disjoint(X, Gone) /\ X \subseteq Event
    BY <1>3 DEF Bus, Placed, Apart, Disjoint
  <2> HIDE DEF X
  <2>3. Gone' = Gone \union X /\ OneReason' /\ lost' \subseteq Event \X Reasons
    BY <2>1, <2>2, GoneGrows DEF Bus, Placed
  <2> QED BY <2>3 DEF X
<1>5. BusType'
  BY <1>1, <1>3, <1>4 DEF Bus, BusType
<1>6. Accounted' = Accounted
  BY <1>1, <1>3, <1>4 DEF Accounted
<1>7. Apart'
  BY <1>1, <1>3, <1>4 DEF Apart, Disjoint, Bus, Placed
<1> QED BY <1>1, <1>3, <1>4, <1>5, <1>6, <1>7 DEF Bus, Placed

LEMMA RestartPlaces ==
    ASSUME Bus, RestartBus, UNCHANGED next
    PROVE  Bus'
<1> DEFINE X == sending \union ToSet(persistCh) \union ToSet(pending)
<1>1. /\ ring' = <<>> /\ persistCh' = <<>> /\ pending' = <<>> /\ sending' = {}
      /\ running' = "yes" /\ table' = table
      /\ lost' = lost \union {<<e, "restart">> : e \in X}
  BY DEF RestartBus
<1>2. Disjoint(X, Gone) /\ Disjoint(X, ToSet(table)) /\ X \subseteq Event /\ "restart" \in Reasons
  <2>1. X \subseteq Event
    BY EventsTyped DEF Bus, BusType
  <2> QED BY <2>1 DEF Bus, Placed, Apart, Disjoint, Reasons
<1>3. Accounted = X \union ToSet(table) \union Gone
  BY DEF Accounted
<1> HIDE DEF X
<1>4. Gone' = Gone \union X /\ OneReason' /\ lost' \subseteq Event \X Reasons
  BY <1>1, <1>2, GoneGrows DEF Bus, Placed
<1>5. /\ ToSet(ring') = {} /\ ToSet(persistCh') = {} /\ ToSet(pending') = {}
      /\ Once(persistCh') /\ Once(pending')
      /\ Len(ring') <= RingCapacity /\ Len(persistCh') <= ChanCapacity /\ Len(pending') < BatchSize
      /\ ring' \in Seq(Event) /\ persistCh' \in Seq(Event) /\ pending' \in Seq(Event)
  BY <1>1, BusAssumption DEF ToSet, Once
<1>6. BusType'
  BY <1>1, <1>4, <1>5 DEF Bus, BusType
<1>7. Accounted' = Accounted
  BY <1>1, <1>3, <1>4, <1>5 DEF Accounted
<1>8. Apart'
  BY <1>1, <1>2, <1>4, <1>5 DEF Apart, Disjoint, Bus, Placed
<1>9. Once(table')
  BY <1>1 DEF Bus, Placed
<1> QED BY <1>4, <1>5, <1>6, <1>7, <1>8, <1>9 DEF Bus, Placed

LEMMA BusKept ==
    ASSUME Bus, PressureFits, [Next]_vars
    PROVE  Bus'
<1>1. BusSteps
  BY BusFrame DEF Bus
<1>2. CASE \E e \in Event : PublishRing(e) /\ e.id = next /\ next' = next + 1 /\ next <= MaxEvents
  BY <1>2, PublishPlaces
<1>3. CASE UNCHANGED next /\ \E e \in sending : PublishSend(e)
  BY <1>3, SendPlaces
<1>4. ASSUME UNCHANGED next, NEW ok \in BOOLEAN, Consume(ok) PROVE Bus'
  BY <1>4, ConsumePlaces
<1>5. ASSUME UNCHANGED next, NEW ok \in BOOLEAN, FlushTick(ok) PROVE Bus'
  <2>1. /\ Flush(pending, ok) /\ UNCHANGED <<ring, persistCh, sending, next>>
        /\ running' \in {"yes", "cancelled", "no"}
    BY <1>5 DEF FlushTick, Bus, BusType
  <2> QED BY <2>1, FlushKept
<1>6. ASSUME UNCHANGED next, NEW ok \in BOOLEAN, ConsumerExit(ok) PROVE Bus'
  <2>1. /\ Flush(pending, ok) /\ UNCHANGED <<ring, persistCh, sending, next>>
        /\ running' \in {"yes", "cancelled", "no"}
    BY <1>6 DEF ConsumerExit
  <2> QED BY <2>1, FlushKept
<1>7. CASE UNCHANGED next /\ Prune
  BY <1>7, PrunePlaces
<1>8. CASE UNCHANGED next /\ Cancel
  BY <1>8 DEF Cancel, Bus, BusType, Placed, Apart, Accounted, Gone, OneReason
<1>9. CASE UNCHANGED next /\ RestartBus
  BY <1>9, RestartPlaces
<1>10. CASE UNCHANGED next /\ UNCHANGED busVars
  BY <1>10 DEF busVars, Bus, BusType, Placed, Apart, Accounted, Gone, OneReason
<1> QED BY <1>1, <1>2, <1>3, <1>4, <1>5, <1>6, <1>7, <1>8, <1>9, <1>10 DEF BusSteps

LEMMA BusStarts == Init => Bus
<1> SUFFICES ASSUME Init PROVE Bus
  OBVIOUS
<1>1. /\ ring = <<>> /\ persistCh = <<>> /\ pending = <<>> /\ table = <<>>
      /\ sending = {} /\ running = "yes" /\ lost = {} /\ next = 1
  BY DEF Init, BusInit
<1>2. BusType
  BY <1>1, BusAssumption, TelemetryAssumption DEF BusType
<1>3. Accounted = {} /\ ToSet(ring) = {}
  BY <1>1 DEF Accounted, ToSet, Gone
<1>4. Apart
  BY <1>3 DEF Apart, Disjoint, Accounted
<1>5. Once(persistCh) /\ Once(pending) /\ Once(table) /\ OneReason
  BY <1>1 DEF Once, OneReason
<1> QED BY <1>2, <1>3, <1>4, <1>5 DEF Bus, Placed

LEMMA CountOnce ==
    ASSUME NEW T, NEW s \in Seq(T), Once(s), NEW e
    PROVE  Cardinality({i \in DOMAIN s : s[i] = e}) = IF e \in ToSet(s) THEN 1 ELSE 0
<1> DEFINE S == {i \in DOMAIN s : s[i] = e}
<1>1. CASE e \in ToSet(s)
  <2>1. PICK i \in DOMAIN s : e = s[i] BY <1>1 DEF ToSet
  <2>2. S = {i} BY <2>1 DEF Once
  <2> QED BY <1>1, <2>2, FS_Singleton
<1>2. CASE e \notin ToSet(s)
  <2>1. S = {} BY <1>2 DEF ToSet
  <2> QED BY <1>2, <2>1, FS_EmptySet
<1> QED BY <1>1, <1>2

LEMMA CountGone ==
    ASSUME OneReason, NEW e
    PROVE  Cardinality({l \in lost : l[1] = e}) = IF e \in Gone THEN 1 ELSE 0
<1> DEFINE S == {l \in lost : l[1] = e}
<1>1. CASE e \in Gone
  <2>1. PICK l \in lost : e = l[1] BY <1>1 DEF Gone
  <2>2. S = {l} BY <2>1 DEF OneReason
  <2> QED BY <1>1, <2>2, FS_Singleton
<1>2. CASE e \notin Gone
  <2>1. S = {} BY <1>2 DEF Gone
  <2> QED BY <1>2, <2>1, FS_EmptySet
<1> QED BY <1>1, <1>2

LEMMA CountSending ==
    ASSUME NEW e
    PROVE  Cardinality(sending \intersect {e}) = IF e \in sending THEN 1 ELSE 0
<1>1. CASE e \in sending
  <2>1. sending \intersect {e} = {e} BY <1>1
  <2> QED BY <1>1, <2>1, FS_Singleton
<1>2. CASE e \notin sending
  <2>1. sending \intersect {e} = {} BY <1>2
  <2> QED BY <1>2, <2>1, FS_EmptySet
<1> QED BY <1>1, <1>2

LEMMA ListsShowWhatIsThere ==
    ASSUME NEW T, NEW s \in Seq(T)
    PROVE  ToSet(FirstN(Reverse(OfType(s, "")), 0)) \subseteq ToSet(s)
<1>1. FirstN(Reverse(OfType(s, "")), 0) = Reverse(s)
  BY DEF FirstN, OfType
<1>2. DOMAIN s = 1 .. Len(s) /\ Len(s) \in Nat
  OBVIOUS
<1>3. \A i \in 1 .. Len(s) : (Len(s) - i) + 1 \in DOMAIN s
  BY <1>2
<1>4. ToSet(Reverse(s)) \subseteq ToSet(s)
  BY <1>2, <1>3 DEF Reverse, ToSet
<1> QED BY <1>1, <1>4

LEMMA BusConserves == Bus => Conserved
<1> SUFFICES ASSUME Bus PROVE Conserved
  OBVIOUS
<1>1. DOMAIN Everywhere = Accounted
  BY DEF Everywhere, Accounted, Gone
<1>2. ASSUME NEW e \in Accounted PROVE Everywhere[e] = 1
  <2>1. Everywhere[e] = Cardinality({i \in DOMAIN persistCh : persistCh[i] = e})
                      + Cardinality({i \in DOMAIN pending : pending[i] = e})
                      + Cardinality({i \in DOMAIN table : table[i] = e})
                      + Cardinality(sending \intersect {e})
                      + Cardinality({l \in lost : l[1] = e})
    BY <1>1 DEF Everywhere
  <2>2. /\ Cardinality({i \in DOMAIN persistCh : persistCh[i] = e})
             = IF e \in ToSet(persistCh) THEN 1 ELSE 0
        /\ Cardinality({i \in DOMAIN pending : pending[i] = e})
             = IF e \in ToSet(pending) THEN 1 ELSE 0
        /\ Cardinality({i \in DOMAIN table : table[i] = e})
             = IF e \in ToSet(table) THEN 1 ELSE 0
    BY CountOnce DEF Bus, BusType, Placed
  <2>3. Cardinality(sending \intersect {e}) = IF e \in sending THEN 1 ELSE 0
    BY CountSending
  <2>4. Cardinality({l \in lost : l[1] = e}) = IF e \in Gone THEN 1 ELSE 0
    BY CountGone DEF Bus, Placed
  <2>5. Everywhere[e] = (IF e \in ToSet(persistCh) THEN 1 ELSE 0)
                      + (IF e \in ToSet(pending) THEN 1 ELSE 0)
                      + (IF e \in ToSet(table) THEN 1 ELSE 0)
                      + (IF e \in sending THEN 1 ELSE 0)
                      + (IF e \in Gone THEN 1 ELSE 0)
    BY <2>1, <2>2, <2>3, <2>4
  <2>6. Apart BY DEF Bus, Placed
  <2>7. CASE e \in sending
    BY <2>5, <2>6, <2>7 DEF Apart, Disjoint
  <2>8. CASE e \in ToSet(persistCh)
    BY <2>5, <2>6, <2>8 DEF Apart, Disjoint
  <2>9. CASE e \in ToSet(pending)
    BY <2>5, <2>6, <2>9 DEF Apart, Disjoint
  <2>10. CASE e \in ToSet(table)
    BY <2>5, <2>6, <2>10 DEF Apart, Disjoint
  <2>11. CASE e \in Gone
    BY <2>5, <2>6, <2>11 DEF Apart, Disjoint
  <2> QED BY <2>7, <2>8, <2>9, <2>10, <2>11 DEF Accounted
<1>3. ToSet(Recent(0, "")) \union ToSet(History(0, "")) \subseteq Accounted
  <2>1. ToSet(Recent(0, "")) \subseteq ToSet(ring) /\ ToSet(History(0, "")) \subseteq ToSet(table)
    BY ListsShowWhatIsThere DEF Recent, History, Bus, BusType
  <2> QED BY <2>1 DEF Bus, Placed, Accounted
<1> QED BY <1>1, <1>2, <1>3 DEF Conserved

(* Every published event is in exactly one place (its publisher, the        *)
(* channel, the consumer's batch, the table) or was given up for exactly    *)
(* one reason, whatever the capacities: the handovers of SchedulerEventBus  *)
(* neither duplicate an event nor drop one silently.                        *)
THEOREM EventsAreConserved == Spec => []Conserved
<1>1. Init => Bus /\ PressureFits
  BY BusStarts, PressureStarts
<1>2. (Bus /\ PressureFits) /\ [Next]_vars => (Bus /\ PressureFits)'
  <2> SUFFICES ASSUME Bus, PressureFits, [Next]_vars PROVE Bus' /\ PressureFits'
    OBVIOUS
  <2> QED BY BusKept, PressureKept
<1>3. Bus /\ PressureFits => Conserved
  BY BusConserves
<1> QED BY <1>1, <1>2, <1>3, PTL DEF Spec

-----------------------------------------------------------------------------
(* What the events tell of the node rows: with nothing given up, the last   *)
(* transition between the publisher and the table is the status of the row. *)
Line == (table \o pending) \o persistCh

About(e, n) == e.type = "pressure" /\ e.node = n

Told(s, n, st) ==
    \/ st = "normal" /\ \A i \in DOMAIN s : ~About(s[i], n)
    \/ \E i \in DOMAIN s :
         /\ About(s[i], n) /\ s[i].status = st
         /\ \A j \in DOMAIN s : j > i => ~About(s[j], n)

OnItsWay(n) == \E e \in sending : About(e, n)

Tells(n) ==
    /\ OnItsWay(n) => \A e \in sending : About(e, n) => e.status = pressure[n]
    /\ ~OnItsWay(n) => Told(Line, n, pressure[n])

OnePressure ==
    \A e, f \in sending : (e.type = "pressure" /\ f.type = "pressure") => e = f

Telling ==
    /\ OnePressure
    /\ (~disturbed /\ lost = {}) => \A n \in Watched : Tells(n)

LEMMA ToldLater ==
    ASSUME NEW T, NEW s \in Seq(T), NEW e \in T, NEW n, NEW st
    PROVE  /\ (About(e, n) /\ e.status = st) => Told(Append(s, e), n, st)
           /\ (~About(e, n) /\ Told(s, n, st)) => Told(Append(s, e), n, st)
<1> DEFINE r == Append(s, e)
<1>1. /\ r[Len(s) + 1] = e /\ \A i \in 1 .. Len(s) : r[i] = s[i]
      /\ DOMAIN s = 1 .. Len(s) /\ DOMAIN r = 1 .. Len(s) + 1 /\ Len(s) \in Nat
  OBVIOUS
<1> HIDE DEF r
<1>2. ASSUME About(e, n), e.status = st PROVE Told(r, n, st)
  <2>1. Len(s) + 1 \in DOMAIN r /\ \A j \in DOMAIN r : ~(j > Len(s) + 1)
    BY <1>1
  <2> QED BY <1>1, <1>2, <2>1 DEF Told
<1>3. ASSUME ~About(e, n), Told(s, n, st) PROVE Told(r, n, st)
  <2>1. CASE st = "normal" /\ \A i \in DOMAIN s : ~About(s[i], n)
    <3>1. \A i \in DOMAIN r : ~About(r[i], n)
      BY <1>1, <1>3, <2>1
    <3> QED BY <3>1, <2>1 DEF Told
  <2>2. ASSUME NEW i \in DOMAIN s, About(s[i], n), s[i].status = st,
               \A j \in DOMAIN s : j > i => ~About(s[j], n)
        PROVE  Told(r, n, st)
    <3>1. i \in DOMAIN r /\ r[i] = s[i] BY <1>1
    <3>2. \A j \in DOMAIN r : j > i => ~About(r[j], n)
      BY <1>1, <1>3, <2>2
    <3> QED BY <2>2, <3>1, <3>2 DEF Told
  <2> QED BY <1>3, <2>1, <2>2 DEF Told
<1> QED BY <1>2, <1>3 DEF r

LEMMA Shift ==
    ASSUME NEW s \in Seq(Event), NEW t \in Seq(Event), NEW c \in Seq(Event), c # <<>>
    PROVE  (s \o Append(t, Head(c))) \o Tail(c) = (s \o t) \o c
<1>1. Head(c) \in Event /\ Tail(c) \in Seq(Event) /\ c = <<Head(c)>> \o Tail(c)
  BY HeadTailProperties
<1>2. Append(t, Head(c)) = t \o <<Head(c)>>
  BY <1>1, AppendIsConcat
<1>3. s \o (t \o <<Head(c)>>) = (s \o t) \o <<Head(c)>>
  BY <1>1, ConcatAssociative
<1>4. ((s \o t) \o <<Head(c)>>) \o Tail(c) = (s \o t) \o (<<Head(c)>> \o Tail(c))
  <2>1. s \o t \in Seq(Event) /\ <<Head(c)>> \in Seq(Event)
    BY <1>1
  <2> QED BY <1>1, <2>1, ConcatAssociative
<1> QED BY <1>1, <1>2, <1>3, <1>4

(* A flush that gives nothing up has written the batch.                     *)
LEMMA FlushWrites ==
    ASSUME BusType, NEW batch \in Seq(Event), NEW ok \in BOOLEAN, Flush(batch, ok), lost' = {}
    PROVE  table' = table \o batch /\ pending' = <<>>
<1>1. CASE ok
  BY <1>1 DEF Flush
<1>2. CASE ~ok
  <2>1. /\ table' = table /\ pending' = <<>>
        /\ lost' = lost \union {<<e, "batch">> : e \in ToSet(batch)}
    BY <1>2 DEF Flush
  <2>2. ASSUME NEW x \in ToSet(batch) PROVE FALSE
    <3>1. <<x, "batch">> \in lost' BY <2>1
    <3> QED BY <3>1
  <2>3. batch = <<>>
    <3>1. ASSUME batch # <<>> PROVE FALSE
      <4>1. 1 \in DOMAIN batch BY <3>1
      <4> QED BY <4>1, <2>2 DEF ToSet
    <3> QED BY <3>1
  <2>4. table \o <<>> = table
    BY ConcatEmptySeq DEF BusType
  <2> QED BY <2>1, <2>3, <2>4
<1> QED BY <1>1, <1>2

TellSteps ==
    \/ \E n \in Watched, st \in Statuses :
         /\ MonitorIsFree /\ pressure' = [pressure EXCEPT ![n] = st]
         /\ \E e \in Event : About(e, n) /\ e.status = st /\ PublishRing(e)
    \/ UNCHANGED pressure /\ \E e \in Event : e.type # "pressure" /\ PublishRing(e)
    \/ UNCHANGED pressure /\ \E e \in sending : PublishSend(e)
    \/ UNCHANGED pressure
         /\ \E ok \in BOOLEAN : Consume(ok) \/ FlushTick(ok) \/ ConsumerExit(ok)
    \/ UNCHANGED pressure /\ (Prune \/ Cancel \/ UNCHANGED busVars)
    \/ disturbed' = TRUE /\ (sending' = {} \/ UNCHANGED sending)

LEMMA TellFrame ==
    ASSUME BusType, PressureFits, [Next]_vars
    PROVE  TellSteps
<1>1. ASSUME NEW n \in Watched, EvaluateNode(n) PROVE TellSteps
  <2>1. CASE EvaluateNothing(n) /\ UNCHANGED <<busVars, next, upsets>>
    BY <2>1 DEF EvaluateNothing, TellSteps
  <2>2. ASSUME NEW ok \in BOOLEAN, Evaluate(n, ok),
               IF Moves(n, ok)
                 THEN /\ next <= MaxEvents /\ next' = next + 1
                      /\ PublishRing([id |-> next, type |-> "pressure", node |-> n,
                                      status |-> Judged(n).status])
                 ELSE UNCHANGED <<busVars, next>>
        PROVE  TellSteps
    <3> DEFINE st == Judged(n).status
    <3>1. st \in Statuses
      BY <2>2, EvaluateFits
    <3>2. pressure' = IF ok /\ st # round[n] THEN [pressure EXCEPT ![n] = st] ELSE pressure
      BY <2>2 DEF Evaluate
    <3>3. Moves(n, ok) <=> (ok /\ st # round[n])
      BY <2>2 DEF Moves, Evaluate
    <3>4. MonitorIsFree BY <1>1 DEF EvaluateNode
    <3> HIDE DEF st
    <3>5. CASE Moves(n, ok)
      <4> DEFINE e == [id |-> next, type |-> "pressure", node |-> n, status |-> st]
      <4>1. e \in Event /\ About(e, n) /\ e.status = st
        BY <2>2, <3>1, <3>5, EventsAreNew DEF About
      <4>2. PublishRing(e)
        BY <2>2, <3>5 DEF st
      <4>3. pressure' = [pressure EXCEPT ![n] = st]
        BY <3>2, <3>3, <3>5
      <4> HIDE DEF e
      <4> QED BY <3>1, <3>4, <4>1, <4>2, <4>3 DEF TellSteps
    <3>6. CASE ~Moves(n, ok)
      <4>1. pressure' = pressure BY <3>2, <3>3, <3>6
      <4> QED BY <2>2, <3>6, <4>1 DEF TellSteps
    <3> QED BY <3>5, <3>6
  <2> QED BY <1>1, <2>1, <2>2 DEF EvaluateNode
<1>2. CASE PublishOther
  <2> DEFINE e == [id |-> next, type |-> "other"]
  <2>1. e \in Event /\ e.type # "pressure"
    BY <1>2, EventsAreNew DEF PublishOther
  <2>2. PublishRing(e) /\ UNCHANGED pressure
    BY <1>2 DEF PublishOther, pressureVars
  <2> QED BY <2>1, <2>2 DEF TellSteps
<1>3. CASE Send \/ Consumer \/ Retention \/ Shutdown
  BY <1>3 DEF Send, Consumer, Retention, Shutdown, pressureVars, TellSteps
<1>4. CASE Restart
  BY <1>4 DEF Restart, TellSteps
<1>5. ASSUME NEW n \in Watched, UpdateNode(n) PROVE TellSteps
  BY <1>5 DEF UpdateNode, UpdateNodeRead, UpdateNodeSave, busVars, TellSteps
<1>6. ASSUME NEW a \in Agents, NEW report \in SUBSET Running, NEW load \in Loads,
             Heartbeat(a, report, load)
      PROVE  TellSteps
  BY <1>6 DEF Heartbeat, AppendSample, pressureVars, TellSteps
<1>7. CASE Round \/ UNCHANGED vars \/ \E n \in Watched : Expire(n)
  BY <1>7 DEF Expire, SampleExpires, Round, RoundStart, vars, pressureVars, TellSteps
<1> QED BY <1>1, <1>2, <1>3, <1>4, <1>5, <1>6, <1>7 DEF Next

(* Neither a disturbance nor an event given up is ever undone.              *)
LEMMA NothingUndone ==
    ASSUME BusType, PressureFits, UpsetsFit, [Next]_vars
    PROVE  /\ disturbed => disturbed'
           /\ lost \subseteq lost'
<1>1. disturbed' = TRUE \/ UNCHANGED disturbed
  BY DEF Next, vars, Heartbeat, Expire, EvaluateNode, UpdateNode, Round, PublishOther,
         Send, Consumer, Retention, Shutdown, Restart
<1>2. lost \subseteq lost'
  BY BusFrame DEF BusSteps, PublishRing, PublishSend, Consume, FlushTick, ConsumerExit,
         Flush, Prune, Cancel, RestartBus, busVars
<1> QED BY <1>1, <1>2

LEMMA LineTyped ==
    ASSUME BusType
    PROVE  /\ Line \in Seq(Event)
           /\ pending = <<>> => (table \o pending = table)
BY ConcatEmptySeq DEF BusType, Line

LEMMA ConsumeLine ==
    ASSUME BusType, NEW ok \in BOOLEAN, Consume(ok) \/ FlushTick(ok) \/ ConsumerExit(ok),
           lost' = {}
    PROVE  Line' = Line /\ UNCHANGED sending
<1>1. /\ table \in Seq(Event) /\ pending \in Seq(Event) /\ persistCh \in Seq(Event)
  BY DEF BusType
<1>2. CASE Consume(ok)
  <2> DEFINE batch == Append(pending, Head(persistCh))
  <2>1. /\ persistCh # <<>> /\ persistCh' = Tail(persistCh) /\ UNCHANGED sending
    BY <1>2 DEF Consume
  <2>2. batch \in Seq(Event) /\ table \o batch \in Seq(Event) /\ Head(persistCh) \in Event
    BY <1>1, <2>1
  <2>3. (table \o batch) \o Tail(persistCh) = Line
    BY <1>1, <2>1, Shift DEF Line
  <2>4. \/ Flush(batch, ok)
        \/ pending' = batch /\ UNCHANGED <<table, lost>>
    BY <1>2 DEF Consume
  <2> HIDE DEF batch
  <2>5. CASE Flush(batch, ok)
    <3>1. table' = table \o batch /\ pending' = <<>>
      BY <2>2, <2>5, FlushWrites
    <3>2. (table \o batch) \o <<>> = table \o batch
      BY <2>2, ConcatEmptySeq
    <3> QED BY <2>1, <2>3, <3>1, <3>2 DEF Line
  <2>6. CASE pending' = batch /\ UNCHANGED <<table, lost>>
    BY <2>1, <2>3, <2>6 DEF Line
  <2> QED BY <2>4, <2>5, <2>6
<1>3. CASE FlushTick(ok) \/ ConsumerExit(ok)
  <2>1. Flush(pending, ok) /\ persistCh' = persistCh /\ UNCHANGED sending
    BY <1>3 DEF FlushTick, ConsumerExit
  <2>2. table' = table \o pending /\ pending' = <<>>
    BY <1>1, <2>1, FlushWrites
  <2>3. (table \o pending) \o <<>> = table \o pending
    <3>1. table \o pending \in Seq(Event) BY <1>1
    <3> QED BY <3>1, ConcatEmptySeq
  <2> QED BY <2>1, <2>2, <2>3 DEF Line
<1> QED BY <1>2, <1>3

LEMMA SendTells ==
    ASSUME BusType, PressureFits, Telling, ~disturbed, lost = {}, lost' = {},
           UNCHANGED pressure, NEW e \in sending, PublishSend(e), NEW n \in Watched
    PROVE  Tells(n)'
<1>1. Tells(n) /\ OnePressure
  BY DEF Telling
<1>2. /\ sending' = sending \ {e} /\ UNCHANGED <<pending, table>> /\ e \in Event
  BY DEF PublishSend, BusType
<1>3. persistCh' = Append(persistCh, e)
  BY DEF PublishSend
<1>4. Line' = Append(Line, e) /\ Line \in Seq(Event)
  <2>1. table \o pending \in Seq(Event) /\ persistCh \in Seq(Event) BY DEF BusType
  <2>2. Append(persistCh, e) = persistCh \o <<e>> /\ <<e>> \in Seq(Event)
    BY <1>2, <2>1, AppendIsConcat
  <2>3. Line \in Seq(Event) /\ Append(Line, e) = Line \o <<e>>
    BY <1>2, <2>1, AppendIsConcat DEF Line
  <2>4. (table \o pending) \o (persistCh \o <<e>>) = Line \o <<e>>
    <3> DEFINE a == table \o pending
               c == <<e>>
    <3>1. a \in Seq(Event) /\ c \in Seq(Event) BY <2>1, <2>2
    <3> HIDE DEF a, c
    <3>2. (a \o persistCh) \o c = a \o (persistCh \o c)
      BY <3>1, <2>1, ConcatAssociative, SMTT(20)
    <3> QED BY <3>2 DEF a, c, Line
  <2> QED BY <1>2, <1>3, <2>2, <2>3, <2>4 DEF Line
<1>5. CASE About(e, n)
  <2>1. e.status = pressure[n]
    BY <1>1, <1>5 DEF Tells, OnItsWay
  <2>2. Told(Append(Line, e), n, pressure[n])
    BY <1>2, <1>4, <1>5, <2>1, ToldLater
  <2>3. ~OnItsWay(n)'
    BY <1>1, <1>2, <1>5 DEF OnItsWay, OnePressure, About
  <2> QED BY <1>4, <2>2, <2>3 DEF Tells
<1>6. CASE ~About(e, n)
  <2>1. OnItsWay(n)' <=> OnItsWay(n)
    BY <1>2, <1>6 DEF OnItsWay
  <2>2. OnItsWay(n)' => \A f \in sending' : About(f, n) => f.status = pressure'[n]
    BY <1>1, <1>2, <2>1 DEF Tells
  <2>3. ~OnItsWay(n)' => Told(Line', n, pressure'[n])
    BY <1>1, <1>2, <1>4, <1>6, <2>1, ToldLater DEF Tells
  <2> QED BY <2>2, <2>3 DEF Tells
<1> QED BY <1>5, <1>6

LEMMA TellingKept ==
    ASSUME BusType, PressureFits, UpsetsFit, Telling, [Next]_vars
    PROVE  Telling'
<1>1. TellSteps
  BY TellFrame
<1>2. (~disturbed' /\ lost' = {}) => (~disturbed /\ lost = {})
  BY NothingUndone
<1>3. OnePressure
  BY DEF Telling
<1>4. ASSUME NEW n \in Watched, NEW st \in Statuses, MonitorIsFree,
             pressure' = [pressure EXCEPT ![n] = st],
             NEW e \in Event, About(e, n), e.status = st, PublishRing(e)
      PROVE  Telling'
  <2>1. sending' = sending \union {e} /\ UNCHANGED <<persistCh, pending, table>>
    BY <1>4 DEF PublishRing, Remember
  <2>2. \A f \in sending : f.type # "pressure"
    BY <1>4 DEF MonitorIsFree
  <2>3. OnePressure'
    BY <2>1, <2>2 DEF OnePressure
  <2>4. ASSUME ~disturbed', lost' = {}, NEW m \in Watched PROVE Tells(m)'
    <3>1. Tells(m) /\ ~OnItsWay(m)
      BY <1>2, <2>2, <2>4 DEF Telling, OnItsWay, About
    <3>2. Line' = Line
      BY <2>1 DEF Line
    <3>3. CASE m = n
      <4>1. pressure'[m] = st
        BY <1>4, <3>3 DEF PressureFits
      <4>2. OnItsWay(m)'
        BY <1>4, <2>1, <3>3 DEF OnItsWay
      <4>3. \A f \in sending' : About(f, m) => f.status = pressure'[m]
        BY <1>4, <2>1, <2>2, <4>1 DEF About
      <4> QED BY <4>2, <4>3 DEF Tells
    <3>4. CASE m # n
      <4>1. pressure'[m] = pressure[m]
        BY <1>4, <3>4 DEF PressureFits
      <4>2. ~OnItsWay(m)'
        BY <1>4, <2>1, <2>2, <3>4 DEF OnItsWay, About
      <4> QED BY <3>1, <3>2, <4>1, <4>2 DEF Tells
    <3> QED BY <3>3, <3>4
  <2> QED BY <2>3, <2>4 DEF Telling
<1>5. ASSUME UNCHANGED pressure, NEW e \in Event, e.type # "pressure", PublishRing(e)
      PROVE  Telling'
  <2>1. sending' = sending \union {e} /\ UNCHANGED <<persistCh, pending, table>>
    BY <1>5 DEF PublishRing, Remember
  <2>2. OnePressure'
    BY <1>3, <1>5, <2>1 DEF OnePressure
  <2>3. ASSUME ~disturbed', lost' = {}, NEW m \in Watched PROVE Tells(m)'
    <3>1. Tells(m)
      BY <1>2, <2>3 DEF Telling
    <3>2. Line' = Line
      BY <2>1 DEF Line
    <3>3. OnItsWay(m)' <=> OnItsWay(m)
      BY <1>5, <2>1 DEF OnItsWay, About
    <3>4. \A f \in sending' : About(f, m) => f \in sending
      BY <1>5, <2>1 DEF About
    <3> QED BY <1>5, <3>1, <3>2, <3>3, <3>4 DEF Tells
  <2> QED BY <2>2, <2>3 DEF Telling
<1>6. ASSUME UNCHANGED pressure, NEW e \in sending, PublishSend(e)
      PROVE  Telling'
  <2>1. OnePressure'
    BY <1>3, <1>6 DEF OnePressure, PublishSend
  <2>2. ASSUME ~disturbed', lost' = {}, NEW m \in Watched PROVE Tells(m)'
    BY <1>2, <1>6, <2>2, SendTells
  <2> QED BY <2>1, <2>2 DEF Telling
<1>7. ASSUME UNCHANGED pressure, NEW ok \in BOOLEAN,
             Consume(ok) \/ FlushTick(ok) \/ ConsumerExit(ok)
      PROVE  Telling'
  <2>1. UNCHANGED sending
    BY <1>7 DEF Consume, FlushTick, ConsumerExit
  <2>2. OnePressure'
    BY <1>3, <2>1 DEF OnePressure
  <2>3. ASSUME ~disturbed', lost' = {}, NEW m \in Watched PROVE Tells(m)'
    <3>1. Tells(m)
      BY <1>2, <2>3 DEF Telling
    <3>2. Line' = Line
      BY <1>7, <2>3, ConsumeLine
    <3>3. OnItsWay(m)' <=> OnItsWay(m)
      BY <2>1 DEF OnItsWay
    <3> QED BY <1>7, <2>1, <3>1, <3>2, <3>3 DEF Tells
  <2> QED BY <2>2, <2>3 DEF Telling
<1>8. CASE Prune
  <2>1. lost' # {} /\ UNCHANGED sending
    BY <1>8 DEF Prune
  <2> QED BY <1>3, <2>1 DEF Telling, OnePressure
<1>9. CASE UNCHANGED pressure /\ (Cancel \/ UNCHANGED busVars)
  <2>1. UNCHANGED <<sending, table, pending, persistCh, lost>>
    BY <1>9 DEF Cancel, busVars
  <2>2. OnePressure'
    BY <1>3, <2>1 DEF OnePressure
  <2>3. ASSUME ~disturbed', lost' = {}, NEW m \in Watched PROVE Tells(m)'
    <3>1. Tells(m)
      BY <1>2, <2>3 DEF Telling
    <3>2. Line' = Line /\ (OnItsWay(m)' <=> OnItsWay(m))
      BY <2>1 DEF Line, OnItsWay
    <3> QED BY <1>9, <2>1, <3>1, <3>2 DEF Tells
  <2> QED BY <2>2, <2>3 DEF Telling
<1>10. CASE disturbed' = TRUE /\ (sending' = {} \/ UNCHANGED sending)
  BY <1>3, <1>10 DEF Telling, OnePressure
<1> QED BY <1>1, <1>4, <1>5, <1>6, <1>7, <1>8, <1>9, <1>10 DEF TellSteps

LEMMA TellingStarts == Init => Telling
<1> SUFFICES ASSUME Init PROVE Telling
  OBVIOUS
<1>1. /\ persistCh = <<>> /\ pending = <<>> /\ table = <<>> /\ sending = {}
      /\ pressure = [n \in Watched |-> "normal"]
  BY DEF Init, BusInit, PressureInit
<1>2. DOMAIN Line = {}
  BY <1>1 DEF Line
<1>3. \A n \in Watched : Tells(n)
  BY <1>1, <1>2 DEF Tells, OnItsWay, Told
<1> QED BY <1>1, <1>3 DEF Telling, OnePressure

LEMMA ToldIsLast ==
    ASSUME BusType, NEW n \in Watched, NEW st, Told(table, n, st)
    PROVE  LastStatus(n) = st
<1> DEFINE mine == {i \in DOMAIN table : table[i].type = "pressure" /\ table[i].node = n}
<1>1. LastStatus(n) = IF mine = {} THEN "normal" ELSE table[Max(mine)].status
  BY DEF LastStatus
<1>2. \A i \in DOMAIN table : i \in Int
  BY DEF BusType
<1>3. \A i \in DOMAIN table : i \in mine <=> About(table[i], n)
  BY DEF About
<1>4. mine \subseteq DOMAIN table
  OBVIOUS
<1> HIDE DEF mine
<1>5. CASE st = "normal" /\ \A i \in DOMAIN table : ~About(table[i], n)
  BY <1>1, <1>3, <1>4, <1>5
<1>6. ASSUME NEW i \in DOMAIN table, About(table[i], n), table[i].status = st,
             \A j \in DOMAIN table : j > i => ~About(table[j], n)
      PROVE  LastStatus(n) = st
  <2>1. i \in mine /\ \A y \in mine : i >= y
    BY <1>2, <1>3, <1>4, <1>6
  <2>2. Max(mine) \in mine /\ \A y \in mine : Max(mine) >= y
    BY <2>1 DEF Max
  <2>3. Max(mine) = i
    BY <1>2, <1>4, <2>1, <2>2
  <2> QED BY <1>1, <1>6, <2>1, <2>3
<1> QED BY <1>5, <1>6 DEF Told

LEMMA TellingTells == BusType /\ Telling => TableTellsPressure
<1> SUFFICES ASSUME BusType, Telling,
                    ~disturbed, lost = {}, sending = {}, persistCh = <<>>, pending = <<>>,
                    NEW n \in Watched
             PROVE  LastStatus(n) = pressure[n]
  BY DEF TableTellsPressure
<1>1. Line = table
  <2>1. table \o <<>> = table
    BY ConcatEmptySeq DEF BusType
  <2> QED BY <2>1 DEF Line
<1>2. Tells(n) /\ ~OnItsWay(n)
  BY DEF Telling, OnItsWay
<1>3. Told(table, n, pressure[n])
  BY <1>1, <1>2 DEF Tells
<1> QED BY <1>3, ToldIsLast

Inv == Bus /\ PressureFits /\ StatsFit /\ UpsetsFit /\ Telling

LEMMA InvStarts == Init => Inv
<1> SUFFICES ASSUME Init PROVE Inv
  OBVIOUS
<1>1. UpsetsFit
  <2>1. upsets = MaxUpsets /\ MaxUpsets \in Nat
    BY TelemetryAssumption DEF Init
  <2>2. disturbed \in BOOLEAN
    BY DEF Init
  <2> QED BY <2>1, <2>2 DEF UpsetsFit
<1> QED BY <1>1, BusStarts, PressureStarts, StatsStart, TellingStarts DEF Inv

LEMMA InvKept == Inv /\ [Next]_vars => Inv'
<1> SUFFICES ASSUME Bus, PressureFits, StatsFit, UpsetsFit, Telling, [Next]_vars PROVE Inv'
  BY DEF Inv
<1>1. BusType BY DEF Bus
<1>2. Telling' BY <1>1, TellingKept
<1> QED BY <1>2, BusKept, PressureKept, StatsKept, UpsetsKept DEF Inv

LEMMA WindowsTyped ==
    ASSUME NEW w, Window(w)
    PROVE  w \in UNION {[1 .. k -> Samples] : k \in 0 .. ObservePeriods}
<1>1. w \in [1 .. Len(w) -> Samples] /\ Len(w) \in 0 .. ObservePeriods
  BY PressureAssumption DEF Window
<1> QED BY <1>1

LEMMA InvTyped == Inv => TypeOK
<1> SUFFICES ASSUME Inv PROVE TypeOK
  OBVIOUS
<1>1. BusType /\ PressureFits /\ StatsFit /\ UpsetsFit
  BY DEF Inv, Bus
<1>2. samples \in [Watched -> UNION {[1 .. k -> Samples] : k \in 0 .. ObservePeriods}]
  <2> DEFINE W == UNION {[1 .. k -> Samples] : k \in 0 .. ObservePeriods}
  <2>1. \A n \in Watched : samples[n] \in W
    BY <1>1, WindowsTyped DEF PressureFits
  <2> HIDE DEF W
  <2>2. samples \in [Watched -> W]
    BY <1>1, <2>1 DEF PressureFits
  <2> QED BY <2>2 DEF W
<1>3. /\ {ring, persistCh, pending, table} \subseteq Seq(Event)
      /\ Len(ring) <= RingCapacity /\ Len(persistCh) <= ChanCapacity
      /\ Len(pending) < BatchSize
      /\ sending \subseteq Event /\ running \in {"yes", "cancelled", "no"}
      /\ lost \subseteq Event \X {"full", "batch", "pruned", "restart"}
      /\ next \in 1 .. MaxEvents + 1
  BY <1>1 DEF BusType, Reasons
<1>4. /\ pressure \in [Watched -> Statuses]
      /\ counts \in [Watched -> 0 .. ObservePeriods]
      /\ downs \in [Watched -> 0 .. RecoverPeriods]
      /\ DOMAIN round \subseteq Watched /\ DOMAIN save \subseteq Watched
      /\ DOMAIN stats \subseteq Running /\ nodes \in [Agents -> SUBSET Running]
      /\ upsets \in 0 .. MaxUpsets /\ disturbed \in BOOLEAN
  BY <1>1 DEF PressureFits, StatsFit, UpsetsFit
<1> QED BY <1>2, <1>3, <1>4 DEF TypeOK

(* What observers read is backed, for every number of nodes, capacity and   *)
(* threshold: the queues and counters keep to their bounds, every runtime   *)
(* figure comes from the latest report of its agent, and once the bus has   *)
(* drained with nothing given up, the last transition in the table of       *)
(* events is the pressure status in the node row.                           *)
THEOREM ObserversAreToldTheTruth == Spec => []ObserversSeeTruth
<1>1. Inv => ObserversSeeTruth
  <2>1. Inv => FiguresAreBacked
    BY DEF Inv, StatsFit
  <2>2. Inv => TableTellsPressure
    BY TellingTells DEF Inv, Bus
  <2> QED BY <2>1, <2>2, InvTyped DEF ObserversSeeTruth
<1> QED BY <1>1, InvStarts, InvKept, PTL DEF Spec
=============================================================================

----------------------------- MODULE MCTelemetry ------------------------------
(* Telemetry for TLC: a quiet sample and one of each resource above its     *)
(* threshold.                                                               *)
EXTENDS Telemetry

QuietAndSpike == {[cpu |-> 0, mem |-> 0], [cpu |-> 2, mem |-> 1]}
=============================================================================

----------------------------- MODULE MCTelemetry -----------------------------
(* Two calls of the client and two dashboards. *)
EXTENDS Telemetry, TLC

TelemetrySymmetry == Permutations(Calls) \cup Permutations(Dashboards)
=============================================================================

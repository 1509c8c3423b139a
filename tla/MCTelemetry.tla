---------------------------- MODULE MCTelemetry -----------------------------
(***************************************************************************)
(* Two runs that share a log file.                                         *)
(***************************************************************************)
EXTENDS Telemetry

CONSTANTS r1, r2

TwoRuns == {r1, r2}
=============================================================================

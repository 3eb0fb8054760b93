------------------------------ MODULE MCTelemetry ------------------------------
(***************************************************************************)
(* The daemon's reports alone, and requests of others alone: together they *)
(* are too many for TLC, and the server does not tell them apart.          *)
(***************************************************************************)
EXTENDS Telemetry

SomeScenes == {{}, Requests}
=============================================================================

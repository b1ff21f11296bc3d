------------------------- MODULE MCOrchestrationLoop -------------------------
(* Bounds for TLC.  EventLimit bounds the durable ledger; a stop and a       *)
(* continuation before any iteration add two events each, so the history of  *)
(* a task is finite.                                                         *)
EXTENDS OrchestrationLoop
=============================================================================

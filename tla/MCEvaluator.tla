----------------------------- MODULE MCEvaluator -----------------------------
(* Bounds for TLC.  One delay ends before the deadline, one reaches it       *)
(* exactly when the first request failed at once, one is beyond it.          *)
EXTENDS Evaluator

MCDelays == {1, 3, 5}
=============================================================================

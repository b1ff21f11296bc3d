-------------------------- MODULE MCSavedRunRecord --------------------------
(* Bounds for TLC: every history of at most EventLimit - 1 accepted events. *)
EXTENDS SavedRunRecord

MCAttempts == 1..2
=============================================================================

--------------------------- MODULE MCSavedRunStore ---------------------------
(* Bounds for TLC.  The events let a run stop, continue, stop again and use  *)
(* an iteration, so that snapshots replace each other and two writers can    *)
(* race for the same place in the ledger.                                    *)
EXTENDS SavedRunStore, TLC

MCInputs ==
  {IterationReserved(1), RunStopped("user", TRUE), RunResumed(2, FALSE), RunStopped("signal", TRUE)}

\* The writers differ in nothing, the refinement does not name them, and the
\* properties are safety only.
WriterSymmetry == Permutations(Writers)
=============================================================================

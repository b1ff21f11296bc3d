------------------------------ MODULE RunHistory ------------------------------
(***************************************************************************)
(* What a reader makes of a saved record without the store's own summary:  *)
(* resumePosition (src/src/saved-runs/resume.ts), on which a continuation  *)
(* is built, and summarizeRecord (src/src/saved-runs/history.ts), which    *)
(* --list-runs and --show-run print.  Both search the events again, each   *)
(* in its own way.  The operators take the events after run_created and    *)
(* the status of the checkpoint; the module has no state.                  *)
(***************************************************************************)
EXTENDS SavedRunLedger, Sequences

Of(events, types) == {k \in DOMAIN events : events[k].type \in types}

\* The newest event of these types, or 0 (find on the reversed events).
Newest(events, types) ==
  LET found == Of(events, types)
  IN  IF found = {} THEN 0 ELSE CHOOSE k \in found : \A j \in found : j <= k

iterationsUsed(events) == Cardinality(Of(events, {"iteration_reserved"}))

\* Only a failure in the newest iteration is looked for.
recoveryRequired_Bug(events) ==
  LET failure == Newest(events, {"evaluation_failed"})
  IN  failure # 0 /\ failure > Newest(events, {"iteration_reserved"})

\* The newest failed evaluation has no completed one after it.  A failure that
\* was recovered in the loop, or before an earlier stop, is still found until
\* an evaluation completes.
recoveryRequired(events) ==
  LET failure == Newest(events, {"evaluation_failed"})
  IN  failure # 0 /\ \A k \in Of(events, {"evaluation_completed"}) : k < failure

\* resumePosition throws.  (Every resumable stop of the CLI has its snapshot.)
NoPosition == [nextIteration |-> 0, segment |-> 0, recoveryRequired |-> FALSE]

resumePosition(status, events) ==
  LET last == Len(events)
      clean == /\ status = "stopped" /\ last # 0
               /\ events[last].type = "run_stopped" /\ events[last].resumable
  IN  IF clean /\ iterationsUsed(events) < IterationLimit
      THEN [nextIteration    |-> iterationsUsed(events) + 1,
            segment          |-> 2 + Cardinality(Of(events, {"run_resumed"})),
            recoveryRequired |-> recoveryRequired(events)]
      ELSE NoPosition

-----------------------------------------------------------------------------
(* summarizeRecord.                                                        *)

Outcome(events, attempt) ==
  {k \in Of(events, {"execution_outcome"}) : events[k].attempt = attempt}

unresolved(events) ==
  {k \in Of(events, {"execution_reserved"}) : Outcome(events, events[k].attempt) = {}}

uncertain(events) == {k \in Of(events, {"execution_outcome"}) : events[k].outcome = "uncertain"}

\* What lies outside the events: locks, directories, the state's evidence.
Surroundings == {"run lock", "worktree lock", "repository unavailable", "snapshot unavailable",
                 "refresh required", "requirements omitted"}

blockers(status, events, surroundings) ==
  LET stop == Newest(events, {"run_stopped"})
      last == Len(events)
      when(condition, name) == IF condition THEN {name} ELSE {}
  IN  UNION {
        surroundings,
        when(status = "finished", "finished"),
        when(status = "iteration_limit" \/ iterationsUsed(events) = IterationLimit, "exhausted"),
        when(status \in {"active", "evaluation_failed"}, "no clean stop"),
        when(last # 0 /\ events[last].type = "run_blocked", "blocked"),
        when(stop # 0 /\ ~events[stop].resumable /\ status = "blocked", "stop not resumable"),
        when(unresolved(events) # {}, "unresolved attempts"),
        when(uncertain(events) # {}, "uncertain outcome")}

\* savedWorkerUsage: every reserved worker call is counted once, in whichever
\* segment; one without an outcome counts as unavailable.
savedWorkerUsage(events) ==
  [w \in Workers |-> Cardinality({k \in Of(events, {"execution_reserved"}) : events[k].action = w})]

=============================================================================

--------------------------- MODULE SavedRunRecord ---------------------------
(***************************************************************************)
(* One saved run as its callers see it: SavedRunStore.create followed by   *)
(* any sequence of SavedRunStore.append calls, each applied whole or       *)
(* refused.  The caller is unconstrained: it may offer any event with any  *)
(* counters and any validation verdict.  What the store promises of every  *)
(* record it accepts is stated over the history of accepted events and     *)
(* not over the summary the validator computes from it.                    *)
(***************************************************************************)
EXTENDS RunHistory

CONSTANT Attempts   \* attempt ids a caller may use (randomUUID in the CLI)

ASSUME AttemptsAssumption == Attempts \subseteq Nat

VARIABLES
  ledger,    \* the summary of the accepted events
  history,   \* the accepted events after run_created, in order
  verdict    \* hasPassedValidation of the state saved with the last event

vars == <<ledger, history, verdict>>

Iterations == 1..IterationLimit

\* Events that isSavedRunEventData admits.  A caller that resumes offers the
\* next segment or the current one, to show the second is refused.
Events(segments) ==
       {IterationReserved(i) : i \in Iterations}
  \cup {EvaluationCompleted(i) : i \in Iterations}
  \cup {EvaluationFailed(i) : i \in Iterations}
  \cup {ActionApproved(i, a) : i \in Iterations, a \in Actions}
  \cup {ExecutionReserved(i, x, a) : i \in Iterations, x \in Attempts, a \in Workers \cup Tools}
  \cup {ExecutionOutcome(x, o) : x \in Attempts, o \in Outcomes}
  \cup {Clarification(i) : i \in Iterations}
  \cup {RunResumed(s, r) : s \in segments, r \in BOOLEAN}
  \cup {RunStopped(why, r) : why \in StopReasons, r \in BOOLEAN}
  \cup {RunFinished, IterationLimitReached, RunBlocked}

Init ==
  /\ ledger = Created
  /\ history = <<>>
  /\ verdict = FALSE

\* SavedRunStore.append: the caller passes the counters with the event.  The
\* ones the closing checks compare are the only ones that can be accepted.
AppendEvent(e, passed) ==
  /\ history' = Append(history, e)
  /\ LET next == Apply(ledger, e)
     IN  /\ Accepts(ledger, e, IF next.lastIteration = 0 THEN 1 ELSE next.lastIteration,
                    next.calls, passed)
         /\ ledger' = next
  /\ verdict' = passed

Next ==
  \E e \in Events({ledger.segment, ledger.segment + 1}), passed \in BOOLEAN :
    AppendEvent(e, passed)

Spec == Init /\ [][Next]_vars

-----------------------------------------------------------------------------
TypeOK ==
  /\ ledger.status \in Statuses
  /\ ledger.length = Len(history) + 1
  /\ ledger.calls \in [Workers -> 0..CallLimit]
  /\ ledger.open \subseteq ledger.reserved
  /\ verdict \in BOOLEAN

Before(k) == 1..(k - 1)
Type(k)   == history[k].type

\* No dispatch without its own approval (store.ts execution_reserved rule;
\* docs/saved-runs-v1.md "approval before dispatch", "Stops and continuations
\* discard any outstanding action approval"): each reservation follows an
\* approval of the same action and iteration, and nothing but the outcomes of
\* other attempts lies between the two, so an approval is used once and never
\* across an iteration, a stop, a continuation or another dispatch.
EveryDispatchApproved ==
  \A k \in DOMAIN history :
    Type(k) = "execution_reserved" =>
      \E j \in Before(k) :
        /\ Type(j) = "action_approved"
        /\ history[j].action = history[k].action
        /\ history[j].iteration = history[k].iteration
        /\ \A m \in (j + 1)..(k - 1) : Type(m) = "execution_outcome"

\* A finished record was finished with a fresh acceptance: the state saved
\* with run_finished passes validation and the last approval in the record is
\* of FINISH, in the last reserved iteration and not undone by a stop, a
\* continuation or another evaluation (store.ts run_finished rule).
FinishNeedsFreshApproval ==
  ledger.status = "finished" =>
    /\ verdict
    /\ \E j \in DOMAIN history :
         /\ history[j] = ActionApproved(ledger.lastIteration, "FINISH")
         /\ \A m \in (j + 1)..(Len(history) - 1) : Type(m) = "execution_outcome"

\* The budgets of a task span its segments: iterations are reserved in order,
\* each once, within the ceiling, whatever was stopped, failed or resumed
\* between, and each one settles at most one evaluation.
BudgetsSpanSegments ==
  LET Reservations == Of(history, {"iteration_reserved"})
  IN  /\ \A k \in Reservations :
           history[k].iteration = Cardinality({j \in Reservations : j <= k})
      /\ Cardinality(Reservations) <= IterationLimit
      /\ \A j, k \in Of(history, {"evaluation_completed", "evaluation_failed"}) :
           history[j].iteration = history[k].iteration => j = k
      /\ \A w \in Workers :
           Cardinality({k \in Of(history, {"execution_reserved"}) : history[k].action = w}) <= CallLimit

\* What a reader concludes from the events is what the store enforces with its
\* own summary: history shows a record without blockers exactly when
\* resumePosition accepts it; the continuation that resumePosition prepares,
\* with its segment, its recovery decision and its next iteration, is then
\* accepted by the store, also when a failure was recovered or a stop lay
\* between; and the calls history counts are the calls the budget was charged
\* (resume.ts 9-28, history.ts 79-141, store.ts 152-157 and 811-817).
ReviewMatchesRecord ==
  LET position == resumePosition(ledger.status, history)
      resumed  == RunResumed(position.segment, position.recoveryRequired)
  IN  /\ blockers(ledger.status, history, {}) = {} <=> position # NoPosition
      /\ position # NoPosition =>
           /\ recoveryRequired(history) = ledger.pendingFailure
           /\ HasRoom(ledger) =>
                /\ AppendGuard(ledger, resumed, FALSE) /\ ValidNext(ledger, resumed, FALSE)
                /\ LET L == Apply(ledger, resumed)
                   IN  ValidNext(L, IterationReserved(position.nextIteration), FALSE)
      /\ savedWorkerUsage(history) = ledger.calls

=============================================================================

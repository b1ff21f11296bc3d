--------------------------- MODULE SavedRunLedger ---------------------------
(***************************************************************************)
(* The event vocabulary of a saved run and the rules by which the store    *)
(* accepts the next event (src/src/saved-runs/store.ts and contract.ts).   *)
(*                                                                         *)
(* validateEventSequence folds the whole ledger on every read and append.  *)
(* Its loop variables are kept here as a record, the "ledger summary":     *)
(* ValidNext is the body of the loop for one more event and Apply the new  *)
(* values of the variables.  The module has no state of its own.           *)
(*                                                                         *)
(* Hashes, timestamps, byte limits and the immutable identity are left     *)
(* out: a record that fails them is unreadable, which the modules that     *)
(* write records represent by a torn record.                               *)
(***************************************************************************)
EXTENDS Integers, FiniteSets

CONSTANTS
  IterationLimit,  \* checkpoint.iterationLimit: 1..8, the CLI always saves 8
  CallLimit,       \* calls allowed per coding worker over the run: 2
  EventLimit,      \* SAVED_RUN_EVENT_LIMIT: 128
  AllowedWorkers   \* the workers configuration.workerSelection permits

Workers == {"CALL_CODEX", "CALL_CLAUDE"}

\* SEARCH_REPO and RUN_COMMAND take the paths of READ_FILE everywhere here.
Tools   == {"READ_FILE", "READ_ISSUE", "RUN_TESTS"}
Actions == Workers \cup Tools \cup {"ASK_USER", "FINISH"}

ASSUME LimitsAssumption ==
  /\ IterationLimit \in Nat \ {0}
  /\ CallLimit \in Nat
  /\ EventLimit \in Nat \ {0}
  /\ AllowedWorkers \subseteq Workers

Terminal == {"finished", "iteration_limit", "blocked"}
Statuses == {"active", "stopped", "evaluation_failed"} \cup Terminal

-----------------------------------------------------------------------------
(* Event data, one constructor per member of SavedRunEventData.            *)

IterationReserved(i)    == [type |-> "iteration_reserved", iteration |-> i]
EvaluationCompleted(i)  == [type |-> "evaluation_completed", iteration |-> i]
EvaluationFailed(i)     == [type |-> "evaluation_failed", iteration |-> i]
ActionApproved(i, a)    == [type |-> "action_approved", iteration |-> i, action |-> a]
ExecutionReserved(i, x, a) ==
  [type |-> "execution_reserved", iteration |-> i, attempt |-> x, action |-> a]
ExecutionOutcome(x, o)  == [type |-> "execution_outcome", attempt |-> x, outcome |-> o]
Clarification(i)        == [type |-> "clarification_recorded", iteration |-> i]
RunResumed(s, recovery) == [type |-> "run_resumed", segment |-> s, recovery |-> recovery]
RunStopped(why, again)  == [type |-> "run_stopped", reason |-> why, resumable |-> again]
RunFinished             == [type |-> "run_finished"]
IterationLimitReached   == [type |-> "iteration_limit"]
RunBlocked              == [type |-> "run_blocked"]

StopReasons == {"signal", "user", "evaluation_failure", "storage_error"}
Outcomes    == {"succeeded", "failed", "cancelled", "uncertain"}

\* The status an event leaves behind.
EventStatus(e) ==
  CASE e.type = "evaluation_failed" -> "evaluation_failed"
    [] e.type = "execution_outcome" -> IF e.outcome = "uncertain" THEN "blocked" ELSE "active"
    [] e.type = "run_stopped"       -> IF e.resumable THEN "stopped" ELSE "blocked"
    [] e.type = "run_finished"      -> "finished"
    [] e.type = "iteration_limit"   -> "iteration_limit"
    [] e.type = "run_blocked"       -> "blocked"
    [] OTHER                        -> "active"

-----------------------------------------------------------------------------
(* The ledger summary.  open is the set of attempts with a reservation and *)
(* no outcome; approved is the action of lastApproved ("none" when         *)
(* undefined: its iteration is always lastIteration); pendingFailure is    *)
(* hasPendingEvaluationFailure of the whole ledger.                        *)

Created ==
  [length |-> 1, status |-> "active", segment |-> 1, lastIteration |-> 0,
   settled |-> FALSE, approved |-> "none", reserved |-> {}, open |-> {},
   calls |-> [w \in Workers |-> 0], pendingFailure |-> FALSE]

Charges(e, w) == e.type = "execution_reserved" /\ e.action = w

\* Definitions named X_Bug are X with one mistake.  No specification uses them:
\* each shows that a property fails when the code makes that mistake.

\* Only worker calls count as unresolved.
OpenAfter_Bug(L, e) ==
  CASE e.type = "execution_reserved" /\ e.action \in Workers -> L.open \cup {e.attempt}
    [] e.type = "execution_outcome" -> L.open \ {e.attempt}
    [] OTHER -> L.open

\* reservedAttempts without finishedAttempts.
OpenAfter(L, e) ==
  CASE e.type = "execution_reserved" -> L.open \cup {e.attempt}
    [] e.type = "execution_outcome"  -> L.open \ {e.attempt}
    [] OTHER -> L.open

\* A stop and a continuation keep the approval.
ApprovedAfter_Bug(L, e) ==
  CASE e.type = "action_approved" -> e.action
    [] e.type \in {"execution_outcome", "run_stopped", "run_resumed", "run_finished",
                   "iteration_limit", "run_blocked"} -> L.approved
    [] OTHER -> "none"

\* An approval lasts until it is used: everything but the outcome of an earlier
\* attempt and the terminal events clears it.
ApprovedAfter(L, e) ==
  CASE e.type = "action_approved" -> e.action
    [] e.type \in {"execution_outcome", "run_finished", "iteration_limit", "run_blocked"} ->
         L.approved
    [] OTHER -> "none"

\* A continuation starts counting again.
LastIterationAfter_Bug(L, e) ==
  CASE e.type = "iteration_reserved" -> e.iteration
    [] e.type = "run_resumed" -> 0
    [] OTHER -> L.lastIteration

LastIterationAfter(L, e) ==
  IF e.type = "iteration_reserved" THEN e.iteration ELSE L.lastIteration

\* A failed evaluation stays pending until an evaluation completes; a recovery
\* or a stop does not settle it.
PendingFailureAfter(L, e) ==
  \/ e.type = "evaluation_failed"
  \/ L.pendingFailure /\ e.type # "evaluation_completed"

Apply(L, e) ==
  [length         |-> L.length + 1,
   status         |-> EventStatus(e),
   segment        |-> IF e.type = "run_resumed" THEN e.segment ELSE L.segment,
   lastIteration  |-> LastIterationAfter(L, e),
   settled        |-> /\ e.type # "iteration_reserved"
                      /\ L.settled \/ e.type \in {"evaluation_completed", "evaluation_failed"},
   approved       |-> ApprovedAfter(L, e),
   reserved       |-> IF e.type = "execution_reserved"
                      THEN L.reserved \cup {e.attempt} ELSE L.reserved,
   open           |-> OpenAfter(L, e),
   calls          |-> [w \in Workers |-> L.calls[w] + (IF Charges(e, w) THEN 1 ELSE 0)],
   pendingFailure |-> PendingFailureAfter(L, e)]

-----------------------------------------------------------------------------
(* The rules of validateEventSequence, one per type of event.  passed is   *)
(* hasPassedValidation of the state saved with the event.                  *)

ResumeRule(L, e) ==
  /\ e.type = "run_resumed"
  /\ L.status \in {"stopped", "evaluation_failed"}
  /\ e.segment = L.segment + 1
  /\ L.open = {}
  /\ e.recovery = L.pendingFailure

IterationRule(L, e) ==
  /\ e.type = "iteration_reserved"
  /\ L.status = "active"
  /\ e.iteration = L.lastIteration + 1
  /\ e.iteration <= IterationLimit

EvaluationRule(L, e) ==
  /\ e.type \in {"evaluation_completed", "evaluation_failed"}
  /\ L.status = "active"
  /\ e.iteration = L.lastIteration
  /\ ~L.settled

ApprovalRule(L, e) ==
  /\ e.type = "action_approved"
  /\ L.status = "active"
  /\ e.iteration = L.lastIteration
  /\ L.settled
  /\ L.approved = "none"
  /\ e.action \in Workers => e.action \in AllowedWorkers

ReservationRule(L, e) ==
  /\ e.type = "execution_reserved"
  /\ L.status = "active"
  /\ e.iteration = L.lastIteration
  /\ L.approved = e.action
  /\ e.attempt \notin L.reserved
  /\ e.action \in Workers => L.calls[e.action] < CallLimit

OutcomeRule(L, e) ==
  /\ e.type = "execution_outcome"
  /\ L.status = "active"
  /\ e.attempt \in L.open

ClarificationRule(L, e) ==
  /\ e.type = "clarification_recorded"
  /\ L.status = "active"
  /\ e.iteration = L.lastIteration
  /\ L.approved = "ASK_USER"

StopRule(L, e) ==
  /\ e.type = "run_stopped"
  /\ L.status \in {"active", "evaluation_failed"}
  /\ e.resumable => L.open = {}
  /\ e.reason = "evaluation_failure" => L.status = "evaluation_failed"

\* Any outstanding approval is taken for the approval to finish.
FinishRule_Bug(L, e, passed) ==
  /\ e.type = "run_finished"
  /\ L.status = "active"
  /\ L.approved # "none"
  /\ passed
  /\ L.open = {}

FinishRule(L, e, passed) ==
  /\ e.type = "run_finished"
  /\ L.status = "active"
  /\ L.approved = "FINISH"
  /\ passed
  /\ L.open = {}

LimitRule(L, e) ==
  /\ e.type = "iteration_limit"
  /\ L.status \in {"active", "evaluation_failed"}
  /\ L.lastIteration = IterationLimit
  /\ L.open = {}

\* One round of the validation loop: may event e follow ledger L?
ValidNext(L, e, passed) ==
  /\ L.status \notin Terminal
  /\ \/ ResumeRule(L, e) \/ IterationRule(L, e) \/ EvaluationRule(L, e)
     \/ ApprovalRule(L, e) \/ ReservationRule(L, e) \/ OutcomeRule(L, e)
     \/ ClarificationRule(L, e) \/ StopRule(L, e) \/ FinishRule(L, e, passed)
     \/ LimitRule(L, e) \/ e.type = "run_blocked"

HasRoom(L) == L.length < EventLimit

\* The checks SavedRunStore.append makes before it validates the sequence.
\* They repeat part of ValidNext, in the order the code tests them.
AppendGuard(L, e, passed) ==
  /\ L.status \notin Terminal
  /\ \/ L.status = "active"
     \/ e.type \in {"run_resumed", "run_blocked", "run_stopped"}
     \/ L.status = "evaluation_failed" /\ e.type = "iteration_limit"
  /\ e.type = "run_resumed" =>
       /\ L.status \in {"stopped", "evaluation_failed"}
       /\ e.segment = L.segment + 1
       /\ e.recovery = L.pendingFailure
  /\ e.type = "run_finished" => passed
  /\ e.type = "iteration_reserved" =>
       /\ e.iteration <= IterationLimit
       /\ e.iteration = L.lastIteration + 1
  /\ HasRoom(L)

\* The state saved with the last event agrees with the ledger: the closing
\* checks of validateEventSequence.  (A run that reserved nothing saves 1.)
StateAgrees(L, iteration, calls) ==
  /\ iteration = IF L.lastIteration = 0 THEN 1 ELSE L.lastIteration
  /\ calls = L.calls

\* append accepts event e with a state of that iteration, call counters and
\* validation verdict.
Accepts(L, e, iteration, calls, passed) ==
  /\ AppendGuard(L, e, passed)
  /\ ValidNext(L, e, passed)
  /\ StateAgrees(Apply(L, e), iteration, calls)

\* A run that was interrupted while active can be continued as well.
Resumable_Bug(L) ==
  L.status \in {"stopped", "active"} /\ L.lastIteration < IterationLimit

\* resumePosition: a run continues only from a resumable stop that leaves an
\* iteration.  (The CLI always stores the snapshot hash with such a stop.)
Resumable(L) == L.status = "stopped" /\ L.lastIteration < IterationLimit

=============================================================================

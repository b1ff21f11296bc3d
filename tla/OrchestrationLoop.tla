-------------------------- MODULE OrchestrationLoop --------------------------
(***************************************************************************)
(* runOrchestration (src/src/orchestration/loop.ts) together with the part *)
(* of the CLI that creates or resumes its saved run (src/src/cli.ts) and   *)
(* the durable record it writes through SavedRunStore.append.              *)
(*                                                                         *)
(* A process is single threaded: between two awaits nothing else runs, so  *)
(* a step of the model starts where an await returns and ends where the    *)
(* next one begins.  pc names the pending await.  What may happen while it *)
(* is pending are the signal, a crash of the process, a storage or trace   *)
(* failure, and the answer of the evaluator, of the user or of a tool.     *)
(* One process at a time works on the run: SavedRunStore's ownership locks *)
(* are held from start to exit, and stay behind after a crash.             *)
(***************************************************************************)
EXTENDS SavedRunLedger

CONSTANTS
  Saved,     \* --save-run: options.persistence is defined
  Scripts    \* validation scripts the repository may require

ASSUME SavedAssumption == Saved \in BOOLEAN

VARIABLES
  \* durable
  ledger,    \* summary of events.jsonl
  saved,     \* checkpoint.state: the agent state saved with the last event
  torn,      \* ledger and checkpoint disagree: every read refuses the record
  stale,     \* an ownership or update lock outlived its process
  \* the process
  pc,        \* the pending await; "idle" when no process works on the run
  aborted,   \* options.signal.aborted
  iteration, \* interruptedIteration
  segment,   \* segment
  pending,   \* evaluationFailurePending
  agent,     \* state
  running,   \* proposal.action while it executes ("none" otherwise)
  attempt,   \* attemptId while it executes (0 otherwise)
  ev,        \* the event being recorded, or the one that follows the trace
  result,    \* what the last process reported
  \* history, read by properties only
  launched,  \* worker processes started for the task, all segments
  evals,     \* evaluations started for the task, all segments
  fresh,     \* scripts that passed since the last worker or continuation
  lastWrite  \* the last acknowledged durable write: "event" or "trace"

durable == <<ledger, saved, torn, stale>>
history == <<launched, evals, fresh, lastWrite>>
vars == <<durable, pc, aborted, iteration, segment, pending, agent, running,
          attempt, ev, result, history>>

NoEvent == [type |-> "none"]

\* A text longer than the saved contract allows matters to saved runs only.
Overlong == IF Saved THEN BOOLEAN ELSE {FALSE}

\* The agent state, abstracted to what control depends on: the iteration and
\* call counters, repoRefreshRequired, tests.passed = true, the checks named by
\* the linked issue or by answers, all required checks, those passed in the
\* current validation generation, and whether the state breaks the bounds
\* isSavedAgentState puts on its texts.
InitialState(required) ==
  [iteration |-> 1, calls |-> [w \in Workers |-> 0], refresh |-> FALSE,
   tests |-> FALSE, named |-> {}, required |-> required, passed |-> {}, overlong |-> FALSE]

AgentStates ==
  [iteration : 1..IterationLimit, calls : [Workers -> 0..CallLimit], refresh : BOOLEAN,
   tests : BOOLEAN, named : SUBSET Scripts, required : SUBSET Scripts,
   passed : SUBSET Scripts, overlong : BOOLEAN]

\* Some required check passed, not every one.
hasPassedValidation_Bug(s) ==
  /\ ~s.refresh
  /\ s.tests \/ s.passed # {}
  /\ s.required # {}
  /\ s.required \cap s.passed # {}

hasPassedValidation(s) ==
  /\ ~s.refresh
  /\ s.tests
  /\ s.required # {}
  /\ s.required \subseteq s.passed

\* The passes of the earlier segment are kept.
refreshResumeState_Bug(s, required) ==
  [s EXCEPT !.refresh = FALSE, !.required = s.required \cup required, !.overlong = FALSE]

\* refreshResumeState: earlier passes and the refresh request are dropped,
\* counters and original requirements kept, observations replaced.
refreshResumeState(s, required) ==
  [s EXCEPT !.refresh = FALSE, !.tests = FALSE, !.passed = {},
            !.required = s.required \cup required, !.overlong = FALSE]

-----------------------------------------------------------------------------
(* How a step ends.                                                        *)

\* A worker is launched before its reservation is durable.
UnreservedLaunch_Bug(e) ==
  /\ ev' = e
  /\ pc' = IF Saved /\ e.type # "execution_reserved" THEN "recording" ELSE "recorded"

\* persistence.record(e, state): without persistence it returns at once.
Record(e) == ev' = e /\ pc' = IF Saved THEN "recording" ELSE "recorded"

\* Append the trace entry, then record e (NoEvent: continue the loop).
TraceThen(point, e) == ev' = e /\ pc' = point

\* Every stop is marked resumable.
Stop_Bug(reason, failurePending) ==
  TraceThen("traceStop",
            RunStopped(IF failurePending THEN "evaluation_failure" ELSE reason, TRUE))

\* stop(reason): a final trace entry, then run_stopped.
Stop(reason, failurePending) ==
  TraceThen("traceStop",
            RunStopped(IF failurePending THEN "evaluation_failure" ELSE reason,
                       iteration < IterationLimit))

\* The process returns or throws; its memory and its locks go.
Exit(r) ==
  /\ pc' = "idle" /\ result' = r
  /\ aborted' = FALSE /\ pending' = FALSE /\ ev' = NoEvent
  /\ running' = "none" /\ attempt' = 0 /\ iteration' = 0 /\ segment' = 1
  /\ agent' = IF Saved THEN saved ELSE agent

\* The iteration of the state is reserved again.
StartIteration_Bug ==
  /\ iteration' = iteration
  /\ agent' = [agent EXCEPT !.iteration = iteration]
  /\ Record(IterationReserved(iteration))

\* iteration_reserved for the next iteration.
StartIteration ==
  /\ iteration' = iteration + 1
  /\ agent' = [agent EXCEPT !.iteration = iteration + 1]
  /\ Record(IterationReserved(iteration + 1))

\* The terminal event goes first and the trace entry after the run.
TerminalFirst_Bug(terminal) ==
  IF aborted THEN Stop("signal", FALSE)
  ELSE CASE terminal = "finished" -> Record(RunFinished)
         [] terminal = "stopped"  -> Record(RunStopped("user", iteration < IterationLimit))
         [] OTHER -> TraceThen("traceIteration",
              IF iteration = IterationLimit THEN IterationLimitReached ELSE NoEvent)

\* The end of an iteration: an abort stops the run, otherwise the final trace
\* entry is written, followed by the terminal event if there is one.
FinishIteration(terminal) ==
  IF aborted THEN Stop("signal", FALSE)
  ELSE TraceThen("traceIteration",
         CASE terminal = "finished" -> RunFinished
           [] terminal = "stopped"  -> RunStopped("user", iteration < IterationLimit)
           [] OTHER -> IF iteration = IterationLimit THEN IterationLimitReached ELSE NoEvent)

\* The approved action starts: the tool runs or the worker is launched.
Launch(action, id) ==
  /\ pc' = "executing" /\ running' = action /\ attempt' = id /\ ev' = NoEvent
  /\ launched' = [w \in Workers |-> launched[w] + (IF action = w THEN 1 ELSE 0)]
  /\ fresh' = IF action \in Workers THEN {} ELSE fresh

Durable == UNCHANGED durable
Only(process) == Durable /\ UNCHANGED process /\ UNCHANGED <<result, history>>

-----------------------------------------------------------------------------
(* Start and resume.                                                       *)

\* The CLI inspected the repository and, when saving, created the record; the
\* process is about to enter runOrchestration.
Init ==
  \E required \in SUBSET Scripts :
    /\ agent = InitialState(required) /\ saved = agent
    /\ ledger = Created /\ torn = FALSE /\ stale = FALSE
    /\ pc = "starting" /\ aborted = FALSE /\ iteration = 0 /\ segment = 1
    /\ pending = FALSE /\ running = "none" /\ attempt = 0
    /\ ev = NoEvent /\ result = "none"
    /\ launched = [w \in Workers |-> 0] /\ evals = 0 /\ fresh = {}
    /\ lastWrite = "event"

\* dev-agent --resume: locks, record and snapshot are checked, then the review
\* waits for the operator.
ResumeReview ==
  /\ pc = "idle" /\ Saved
  /\ ~stale /\ ~torn /\ Resumable(ledger)
  /\ pc' = "review" /\ result' = "none"
  /\ iteration' = ledger.lastIteration
  /\ \E required \in SUBSET Scripts : agent' = refreshResumeState(saved, required)
  /\ Durable
  /\ UNCHANGED <<aborted, segment, pending, running, attempt, ev, history>>

\* continue: the snapshot still matches and run_resumed is appended.
ReviewContinues ==
  /\ pc = "review" /\ ~aborted
  /\ Record(RunResumed(ledger.segment + 1, ledger.pendingFailure))
  /\ segment' = ledger.segment + 1
  /\ Only(<<aborted, iteration, pending, agent, running, attempt>>)

\* stop, end of input, a signal or repository drift: nothing is recorded.
ReviewEnds ==
  /\ pc = "review"
  /\ Exit("declined") /\ Durable /\ UNCHANGED history

ResumeRecorded ==
  /\ pc = "recorded" /\ ev.type = "run_resumed" /\ ~pending
  /\ pc' = "starting" /\ ev' = NoEvent
  /\ fresh' = {}
  /\ Durable
  /\ UNCHANGED <<aborted, iteration, segment, pending, agent, running, attempt,
                 result, launched, evals, lastWrite>>

\* The trace file exists and the loop is entered.
Start ==
  /\ pc = "starting"
  /\ IF aborted THEN Stop("signal", FALSE) /\ UNCHANGED <<iteration, agent>>
     ELSE StartIteration
  /\ Only(<<aborted, segment, pending, running, attempt>>)

\* createOrchestrationTrace throws before the loop's try block.
StartFails ==
  /\ pc = "starting"
  /\ Exit("error") /\ Durable /\ UNCHANGED history

-----------------------------------------------------------------------------
(* SavedRunStore.append: one event and the state saved with it, applied    *)
(* whole, refused, or torn between the ledger and the checkpoint.          *)

CanAppend ==
  /\ ~torn /\ ~agent.overlong
  /\ Accepts(ledger, ev, agent.iteration, agent.calls, hasPassedValidation(agent))

AppendCommits ==
  /\ pc = "recording" /\ CanAppend
  /\ ledger' = Apply(ledger, ev) /\ saved' = agent
  /\ pc' = "recorded" /\ lastWrite' = "event"
  /\ UNCHANGED <<torn, stale, aborted, iteration, segment, pending, agent, running,
                 attempt, ev, result, launched, evals, fresh>>

\* The failure is swallowed.
Abandon_Bug ==
  /\ pc' = "recorded"
  /\ UNCHANGED <<aborted, iteration, segment, pending, agent, running, attempt, ev, result>>

\* OrchestrationPersistenceFailure: a last trace entry, then exit.  An append
\* the CLI makes before the loop starts (the continuation) just throws.
Abandon ==
  IF ev.type = "run_resumed" /\ ~pending THEN Exit("error")
  ELSE /\ pc' = "tracePersistence"
       /\ UNCHANGED <<aborted, iteration, segment, pending, agent, running,
                      attempt, ev, result>>

\* The store refuses the event before it writes anything.
AppendRefused ==
  /\ pc = "recording" /\ ~CanAppend
  /\ Abandon
  /\ Durable /\ UNCHANGED history

\* A lock, the snapshot or a write fails, before the ledger changes or between
\* the ledger and the checkpoint.
AppendFails ==
  /\ pc = "recording" /\ CanAppend
  /\ torn' \in BOOLEAN
  /\ Abandon
  /\ UNCHANGED <<ledger, saved, stale, history>>

\* The event is durable, but flushing the directory or releasing the update
\* lock fails: the caller sees a failure, and the lock may stay.
ReleaseFails ==
  /\ pc = "recorded" /\ Saved
  /\ stale' \in BOOLEAN
  /\ Abandon
  /\ UNCHANGED <<ledger, saved, torn, history>>

-----------------------------------------------------------------------------
(* Evaluation and its recovery.                                            *)

Recorded(type) == pc = "recorded" /\ ev.type = type

IterationStarts ==
  /\ Recorded("iteration_reserved")
  /\ IF aborted THEN Stop("signal", pending) /\ UNCHANGED evals
     ELSE pc' = "evaluating" /\ ev' = NoEvent /\ evals' = evals + 1
  /\ Durable
  /\ UNCHANGED <<aborted, iteration, segment, pending, agent, running, attempt,
                 result, launched, fresh, lastWrite>>

EvaluationReturns ==
  /\ pc = "evaluating" /\ ~aborted
  /\ pending' = FALSE
  /\ Record(EvaluationCompleted(iteration))
  /\ Only(<<aborted, iteration, segment, agent, running, attempt>>)

EvaluationFails ==
  /\ pc = "evaluating" /\ ~aborted
  /\ pending' = TRUE
  /\ Record(EvaluationFailed(iteration))
  /\ Durable
  /\ UNCHANGED <<aborted, iteration, segment, agent, running, attempt, result,
                 launched, evals, fresh, lastWrite>>

\* The failure is traced before anything is asked.
FailureRecorded ==
  /\ Recorded("evaluation_failed")
  /\ TraceThen("traceFailure", NoEvent)
  /\ Only(<<aborted, iteration, segment, pending, agent, running, attempt>>)

\* Without iterations left there is nothing to ask: the limit is recorded.
FailureTraced ==
  /\ pc = "traceFailure"
  /\ lastWrite' = "trace"
  /\ IF aborted THEN Stop("signal", pending)
     ELSE IF iteration < IterationLimit THEN TraceThen("recovery", NoEvent)
     ELSE TraceThen("traceRecovery", IterationLimitReached)
  /\ Durable
  /\ UNCHANGED <<aborted, iteration, segment, pending, agent, running, attempt,
                 result, launched, evals, fresh>>

\* The operator answers the recovery prompt: continue or stop.
RecoveryAnswered ==
  /\ pc = "recovery" /\ ~aborted
  /\ \E e \in {RunResumed(segment + 1, TRUE), RunStopped("evaluation_failure", TRUE)} :
       TraceThen("traceRecovery", e)
  /\ Only(<<aborted, iteration, segment, pending, agent, running, attempt>>)

RecoveryTraced ==
  /\ pc = "traceRecovery"
  /\ lastWrite' = "trace"
  /\ IF aborted THEN Stop("signal", pending) ELSE Record(ev)
  /\ Durable
  /\ UNCHANGED <<aborted, iteration, segment, pending, agent, running, attempt,
                 result, launched, evals, fresh>>

RecoveryRecorded ==
  /\ Recorded("run_resumed") /\ pending
  /\ segment' = segment + 1
  /\ pending' = FALSE
  /\ IF aborted THEN Stop("signal", FALSE) /\ UNCHANGED <<iteration, agent>>
     ELSE StartIteration
  /\ Durable
  /\ UNCHANGED <<aborted, running, attempt, result, launched, evals, fresh, lastWrite>>

-----------------------------------------------------------------------------
(* Approval and information.                                               *)

EvaluationRecorded ==
  /\ Recorded("evaluation_completed")
  /\ IF aborted THEN Stop("signal", pending) ELSE TraceThen("selecting", NoEvent)
  /\ Only(<<aborted, iteration, segment, pending, agent, running, attempt>>)

\* The checks of the loop on an approved proposal.  Which candidate the policy
\* selected, repeats of failed approaches and task preparation are left to
\* choice: they can only reject more.
Permitted(action) ==
  /\ agent.refresh => action = "ASK_USER"
  /\ action \in Workers => action \in AllowedWorkers /\ agent.calls[action] < CallLimit
  /\ action = "FINISH" => hasPassedValidation(agent)
  /\ action = "RUN_TESTS" => ~(agent.required \subseteq agent.passed)

\* The operator approves the proposal, or an alternative, and it is permitted.
Approve ==
  /\ pc = "selecting" /\ ~aborted
  /\ \E action \in Actions :
       Permitted(action) /\ Record(ActionApproved(iteration, action))
  /\ Only(<<aborted, iteration, segment, pending, agent, running, attempt>>)

\* The operator, or a check after the approval, rejects: an iteration is used.
Reject ==
  /\ pc = "selecting" /\ ~aborted
  /\ FinishIteration("none")
  /\ Only(<<aborted, iteration, segment, pending, agent, running, attempt>>)

UserStops ==
  /\ pc = "selecting" /\ ~aborted
  /\ FinishIteration("stopped")
  /\ Only(<<aborted, iteration, segment, pending, agent, running, attempt>>)

\* The approval prompt has no time limit.
PromptStops_Bug ==
  /\ pc \in {"recovery", "information"} /\ ~aborted
  /\ Stop("user", pending)
  /\ Only(<<aborted, iteration, segment, pending, agent, running, attempt>>)

\* Input closed, timed out or cancelled at a prompt: PromptStoppedError.
PromptStops ==
  /\ pc \in {"recovery", "selecting", "information"} /\ ~aborted
  /\ Stop("user", pending)
  /\ Only(<<aborted, iteration, segment, pending, agent, running, attempt>>)

\* Any other error at a prompt or in the selection of a candidate is rethrown:
\* the process ends without recording anything.
PromptFails ==
  /\ pc \in {"recovery", "selecting", "information"} /\ ~aborted
  /\ Exit("error") /\ Durable /\ UNCHANGED history

\* interruptible: the wait ends at once and its late answer is ignored.
WaitInterrupted ==
  /\ pc \in {"evaluating", "recovery", "selecting", "information"} /\ aborted
  /\ Stop("signal", pending)
  /\ Only(<<aborted, iteration, segment, pending, agent, running, attempt>>)

\* action_approved is durable.
ApprovalRecorded ==
  /\ Recorded("action_approved")
  /\ Durable
  /\ UNCHANGED <<aborted, iteration, segment, pending, result, evals, lastWrite>>
  /\ \/ /\ aborted /\ Stop("signal", pending)
        /\ UNCHANGED <<agent, running, attempt, launched, fresh>>
     \/ /\ ~aborted /\ ev.action = "ASK_USER" /\ TraceThen("information", NoEvent)
        /\ UNCHANGED <<agent, running, attempt, launched, fresh>>
     \/ /\ ~aborted /\ ev.action = "FINISH" /\ FinishIteration("finished")
        /\ UNCHANGED <<agent, running, attempt, launched, fresh>>
     \/ /\ ~aborted /\ ev.action \in Workers \cup Tools /\ Saved
        /\ agent' = [agent EXCEPT !.calls =
             [w \in Workers |-> @[w] + (IF w = ev.action THEN 1 ELSE 0)]]
        /\ Record(ExecutionReserved(iteration, Cardinality(ledger.reserved) + 1, ev.action))
        /\ UNCHANGED <<running, attempt, launched, fresh>>
     \/ /\ ~aborted /\ ev.action \in Workers \cup Tools /\ ~Saved
        /\ Launch(ev.action, 0)
        /\ UNCHANGED agent

\* The signal is not looked at between the reservation and the launch.
ReservationRecorded_Bug ==
  /\ Recorded("execution_reserved")
  /\ Launch(ev.action, ev.attempt)
  /\ Durable
  /\ UNCHANGED <<aborted, iteration, segment, pending, agent, result, evals,
                 lastWrite>>

\* execution_reserved is durable: a signal that came with it cancels the
\* attempt before anything ran.
ReservationRecorded ==
  /\ Recorded("execution_reserved")
  /\ IF aborted
     THEN Record(ExecutionOutcome(ev.attempt, "cancelled"))
          /\ UNCHANGED <<running, attempt, launched, fresh>>
     ELSE Launch(ev.action, ev.attempt)
  /\ Durable
  /\ UNCHANGED <<aborted, iteration, segment, pending, agent, result, evals,
                 lastWrite>>

\* The operator answers.  The answer may name further required scripts.
InformationGiven ==
  /\ pc = "information" /\ ~aborted
  /\ \E named \in SUBSET Scripts, long \in Overlong :
       agent' = [agent EXCEPT !.named = @ \cup named, !.required = @ \cup named,
                              !.overlong = @ \/ long]
  /\ IF agent.refresh THEN TraceThen("refreshing", NoEvent)
     ELSE Record(Clarification(iteration))
  /\ Only(<<aborted, iteration, segment, pending, running, attempt>>)

\* The inspection that may lift repoRefreshRequired after an answer.
RefreshReturns ==
  /\ pc = "refreshing"
  /\ \E ok \in BOOLEAN, required \in SUBSET Scripts :
       agent' = IF ok THEN [agent EXCEPT !.refresh = FALSE,
                                         !.required = agent.named \cup required]
                ELSE agent
  /\ IF aborted THEN Stop("signal", FALSE) ELSE Record(Clarification(iteration))
  /\ Only(<<aborted, iteration, segment, pending, running, attempt>>)

-----------------------------------------------------------------------------
(* Execution.  A tool or worker is never abandoned: the loop waits for it  *)
(* and for the inspection of the repository after a worker.                *)

\* The result is applied to the state; it is recorded, or the iteration ends.
Settle(ok) ==
  /\ running' = "none" /\ attempt' = 0
  /\ IF Saved
     THEN Record(ExecutionOutcome(attempt,
            IF aborted THEN "cancelled" ELSE IF ok THEN "succeeded" ELSE "failed"))
     ELSE FinishIteration("none")

\* A pass counts for every check the script covers, a failure for itself.
Passes(before, ok, script, covered) ==
  IF ok THEN before \cup covered ELSE before \ {script}

\* RUN_TESTS: the script selectPendingValidation picked covers a pending one.
TestsReturn ==
  /\ pc = "executing" /\ running = "RUN_TESTS"
  /\ \E ok \in BOOLEAN, script \in Scripts, covered \in SUBSET Scripts, long \in Overlong :
       /\ script \in covered
       /\ ~(covered \cap agent.required \subseteq agent.passed)
       /\ aborted => ~ok
       /\ agent' = [agent EXCEPT
            !.passed = Passes(@, ok, script, covered), !.overlong = @ \/ long,
            !.tests = agent.required \subseteq Passes(agent.passed, ok, script, covered)]
       /\ fresh' = Passes(fresh, ok, script, covered)
       /\ Settle(ok)
  /\ Durable
  /\ UNCHANGED <<aborted, iteration, segment, pending, result, launched, evals,
                 lastWrite>>

\* Reads, searches, diagnostics and the linked issue, which may name further
\* required scripts.
ReadReturns ==
  /\ pc = "executing" /\ running \in Tools \ {"RUN_TESTS"}
  /\ \E ok \in BOOLEAN, named \in SUBSET Scripts, long \in Overlong :
       /\ aborted => ~ok
       /\ named # {} => ok /\ running = "READ_ISSUE"
       /\ agent' = [agent EXCEPT !.named = @ \cup named, !.required = @ \cup named,
                              !.overlong = @ \/ long]
       /\ Settle(ok)
  /\ Only(<<aborted, iteration, segment, pending>>)

\* The worker process closed, whatever it did; the repository is inspected.
WorkerReturns ==
  /\ pc = "executing" /\ running \in Workers
  /\ pc' = "inspecting"
  /\ Only(<<aborted, iteration, segment, pending, agent, running, attempt, ev>>)

\* A new validation generation starts, and a failed inspection asks for a
\* refresh.  Without persistence the call is charged only now.
InspectionReturns ==
  /\ pc = "inspecting"
  /\ \E ok \in BOOLEAN, inspected \in BOOLEAN, required \in SUBSET Scripts, long \in Overlong :
       /\ ok => inspected
       /\ agent' = [agent EXCEPT !.tests = FALSE, !.passed = {}, !.refresh = ~inspected,
            !.required = IF inspected THEN agent.named \cup required ELSE @,
            !.overlong = @ \/ long,
            !.calls = [w \in Workers |-> @[w] + (IF w = running /\ ~Saved THEN 1 ELSE 0)]]
       /\ Settle(ok)
  /\ Only(<<aborted, iteration, segment, pending>>)

OutcomeRecorded ==
  /\ Recorded("execution_outcome")
  /\ FinishIteration("none")
  /\ Only(<<aborted, iteration, segment, pending, agent, running, attempt>>)

-----------------------------------------------------------------------------
(* The end of an iteration and of the run.                                 *)

ClarificationRecorded ==
  /\ Recorded("clarification_recorded")
  /\ TraceThen("traceIteration",
       IF iteration = IterationLimit THEN IterationLimitReached ELSE NoEvent)
  /\ Only(<<aborted, iteration, segment, pending, agent, running, attempt>>)

IterationTraced ==
  /\ pc = "traceIteration"
  /\ lastWrite' = "trace"
  /\ IF ev # NoEvent THEN Record(ev) /\ UNCHANGED <<iteration, agent>>
     ELSE IF aborted THEN Stop("signal", FALSE) /\ UNCHANGED <<iteration, agent>>
     ELSE StartIteration
  /\ Durable
  /\ UNCHANGED <<aborted, segment, pending, running, attempt, result, launched,
                 evals, fresh>>

StopTraced ==
  /\ pc = "traceStop"
  /\ lastWrite' = "trace"
  /\ IF Saved
     THEN Record(ev) /\ UNCHANGED <<aborted, iteration, segment, pending, agent,
                                    running, attempt, result>>
     ELSE Exit("stopped")
  /\ Durable
  /\ UNCHANGED <<launched, evals, fresh>>

\* run_finished, run_stopped or iteration_limit is durable (or there is no
\* record).  The checks for a late signal differ: an unsaved run always has
\* one, a saved one only on the way out of the loop, after iteration_limit.
RunEnds ==
  /\ pc = "recorded" /\ ev.type \in {"run_finished", "run_stopped", "iteration_limit"}
  /\ LET checked == ~pending /\ (~Saved \/ ev.type = "iteration_limit")
     IN  IF aborted /\ checked
         THEN /\ Stop("signal", FALSE)
              /\ UNCHANGED <<aborted, iteration, segment, pending, agent, running, attempt, result>>
         ELSE Exit(CASE ev.type = "run_finished" -> "finished"
                     [] ev.type = "run_stopped"  -> "stopped"
                     [] OTHER                    -> "iteration_limit")
  /\ Durable /\ UNCHANGED history

\* appendOrchestrationTrace throws: rethrown, unless the run was interrupted.
TraceFails ==
  /\ pc \in {"traceFailure", "traceRecovery", "traceIteration", "traceStop"}
  /\ IF aborted /\ pc # "traceStop"
     THEN /\ Stop("signal", pending)
          /\ UNCHANGED <<aborted, iteration, segment, pending, agent, running, attempt, result>>
     ELSE Exit("error")
  /\ Durable /\ UNCHANGED history

\* persistenceFailureResult: the entry is written, or its failure ignored.
PersistenceTraced ==
  /\ pc = "tracePersistence"
  /\ Exit("persistence_failure") /\ Durable /\ UNCHANGED history

-----------------------------------------------------------------------------
(* The environment.                                                        *)

\* SIGINT or SIGTERM.  Without persistence nothing is awaited at "recorded".
Signal ==
  /\ pc # "idle" /\ ~aborted /\ (Saved \/ pc # "recorded")
  /\ aborted' = TRUE
  /\ Durable
  /\ UNCHANGED <<pc, iteration, segment, pending, agent, running, attempt, ev, result, history>>

\* The process is killed or the machine stops; the locks stay.  The append it
\* was making may be torn.
Crash ==
  /\ pc # "idle"
  /\ Exit("crashed")
  /\ stale' = TRUE
  /\ torn' \in IF pc = "recording" /\ CanAppend THEN BOOLEAN ELSE {torn}
  /\ UNCHANGED <<ledger, saved, history>>

\* Nothing removes a stale lock but the operator, by hand.
OperatorClearsLocks ==
  /\ pc = "idle" /\ stale
  /\ stale' = FALSE
  /\ UNCHANGED <<ledger, saved, torn, pc, aborted, iteration, segment, pending, agent,
                 running, attempt, ev, result, history>>

\* What the process does by itself.  A prompt without an answer times out.
Progress ==
  \/ ReviewEnds \/ ResumeRecorded \/ Start \/ AppendCommits \/ AppendRefused
  \/ IterationStarts \/ EvaluationReturns \/ EvaluationFails \/ EvaluationRecorded
  \/ FailureRecorded \/ FailureTraced \/ RecoveryTraced \/ RecoveryRecorded
  \/ PromptStops \/ WaitInterrupted \/ ApprovalRecorded \/ ReservationRecorded
  \/ RefreshReturns \/ TestsReturn \/ ReadReturns \/ WorkerReturns \/ InspectionReturns
  \/ OutcomeRecorded \/ ClarificationRecorded \/ IterationTraced \/ StopTraced
  \/ RunEnds \/ PersistenceTraced

Operator ==
  \/ ResumeReview \/ ReviewContinues \/ RecoveryAnswered \/ Approve \/ Reject
  \/ UserStops \/ InformationGiven \/ OperatorClearsLocks \/ Signal

Fault ==
  \/ StartFails \/ AppendFails \/ ReleaseFails \/ PromptFails \/ TraceFails \/ Crash

Next == Progress \/ Operator \/ Fault

Spec == Init /\ [][Next]_vars

\* Every await of the process ends: storage, traces and inspections return, a
\* tool or worker closes (runProcess kills it on a timeout or a signal), the
\* evaluator has a deadline, a prompt times out, and interruptible ends the
\* other waits after a signal.  Nothing is assumed of the operator or faults.
FairSpec == Spec /\ WF_vars(Progress)

-----------------------------------------------------------------------------
(* Safety.                                                                 *)

PCs == {"idle", "review", "starting", "recording", "recorded", "evaluating",
        "traceFailure", "recovery", "traceRecovery", "selecting", "information",
        "refreshing", "executing", "inspecting", "traceIteration", "traceStop",
        "tracePersistence"}

Results == {"none", "declined", "error", "finished", "stopped", "iteration_limit",
            "persistence_failure", "crashed"}

TypeOK ==
  /\ ledger.calls \in [Workers -> Nat] /\ ledger.lastIteration \in Nat
  /\ ledger.segment \in Nat /\ ledger.pendingFailure \in BOOLEAN
  /\ ledger.status \in Statuses
  /\ agent \in AgentStates /\ saved \in AgentStates
  /\ torn \in BOOLEAN /\ stale \in BOOLEAN
  /\ aborted \in BOOLEAN /\ pending \in BOOLEAN
  /\ pc \in PCs /\ result \in Results
  /\ iteration \in 0..IterationLimit /\ segment \in Nat
  /\ running \in Workers \cup Tools \cup {"none"}
  /\ launched \in [Workers -> Nat] /\ evals \in Nat
  /\ fresh \in SUBSET Scripts
  /\ lastWrite \in {"event", "trace"}

\* A worker is never started more often than its allowance over all segments,
\* crashes and restarts of a task, and with --save-run never more often than
\* the durable record says, so no crash returns a call that was used (loop.ts
\* execution_reserved before safelyExecute; store.ts workerCalls).
WorkerBudget ==
  \A w \in Workers :
    /\ launched[w] <= CallLimit
    /\ Saved => launched[w] <= ledger.calls[w]

\* While a tool, a worker or the inspection after it runs, the record holds
\* its reservation as unresolved: a crash at any point of it leaves a record
\* that says so, with the call already charged (loop.ts 960-1010).
ExecutionIsOnRecord ==
  Saved /\ pc \in {"executing", "inspecting"} =>
    /\ attempt \in ledger.open
    /\ ledger.status = "active"
    /\ ~torn

\* An interrupted action is never replayed: once a process is gone and left an
\* execution without an outcome, or an append that may be half written, no
\* later process continues the record, with stale locks cleared or not
\* (resumePosition, noUnresolvedExecution, readUnlocked).
UncertainIsFinal ==
  [][pc = "idle" /\ (ledger.open # {} \/ torn) => pc' = "idle"]_vars

\* A finished run passed every check it requires after the last worker started
\* and after the last continuation: passes of an earlier worker, segment or
\* failed inspection never count (hasPassedValidation, refreshResumeState).
FreshFinish ==
  ledger.status = "finished" \/ result = "finished" =>
    LET final == IF Saved THEN saved ELSE agent
    IN  final.required # {} /\ final.required \subseteq fresh

\* The final trace entry is acknowledged before the terminal event: no record
\* becomes stopped, finished or exhausted with an untraced last step (loop.ts
\* appendOrchestrationTrace before run_stopped, run_finished, iteration_limit;
\* docs/saved-runs-v1.md).
TraceBeforeTerminalEvent ==
  [][ledger'.status # ledger.status
       /\ ledger'.status \in {"stopped", "finished", "iteration_limit", "blocked"}
     => lastWrite = "trace"]_vars

\* After a signal no evaluation and no tool or worker starts, whichever await
\* the signal arrives in (throwIfInterrupted after every record and wait).
NoWorkAfterSignal ==
  [][aborted => evals' = evals /\ (pc' = "executing" => pc = "executing")]_vars

\* The loop offers the store only events its rules accept: a refusal can come
\* from the bounds on texts or the length of the ledger, or from a stop after
\* the acknowledged iteration limit, and never from a wrong order of events, a
\* wrong counter, a reused attempt or an unresolved execution (loop.ts against
\* validateEventSequence).
LoopFollowsLedgerRules ==
  pc = "recording" =>
    \/ CanAppend
    \/ agent.overlong
    \/ ledger.length >= EventLimit
    \/ ledger.status = "iteration_limit" /\ ev.type = "run_stopped" /\ aborted

\* What the process reports agrees with the record it leaves, and the other
\* way around a terminal record is only reported as something else when the
\* confirmation of its last write was lost (cli.ts reads the status back).
ResultMatchesRecord ==
  pc = "idle" /\ Saved =>
    /\ result = "finished"        => ledger.status = "finished"
    /\ result = "iteration_limit" => ledger.status = "iteration_limit"
    /\ result = "stopped"         => ledger.status \in {"stopped", "blocked"}
    /\ ledger.status = "finished" => result \in {"finished", "persistence_failure", "crashed"}
    /\ ledger.status = "iteration_limit" =>
         result \in {"iteration_limit", "persistence_failure", "crashed", "error"}

\* A record marked stopped can be continued: it has an iteration left and no
\* unresolved execution, and its saved state has the counters of the ledger
\* (resume.ts resumePosition refuses nothing else of it).
StopIsContinuable ==
  ledger.status = "stopped" =>
    /\ Resumable(ledger)
    /\ ledger.open = {}
    /\ saved.calls = ledger.calls
    /\ saved.iteration = IF ledger.lastIteration = 0 THEN 1 ELSE ledger.lastIteration

-----------------------------------------------------------------------------
(* Statements of the repository's documents that the code does not keep.   *)

\* docs/saved-runs-v1.md: "state is a bounded, validated AgentState".  Every
\* state the loop hands to the store is within the bounds of the contract.
StateFitsContract == pc = "recording" => ~agent.overlong

-----------------------------------------------------------------------------
(* Liveness.                                                               *)

\* Without a signal a process ends too: each pass of the loop uses an
\* iteration, and no prompt, refusal, failed evaluation or recovery keeps it
\* waiting for ever (loop.ts for loop, terminal.ts PROMPT_TIMEOUT_MS).
ProcessEnds == []<>(pc = "idle")

=============================================================================

----------------------- MODULE OrchestrationLoopProofs -----------------------
(***************************************************************************)
(* Proofs about OrchestrationLoop for every iteration limit, call limit,   *)
(* event limit, worker selection and set of scripts, saved or not.         *)
(*                                                                         *)
(* The worker budget is not inductive by itself.  A launch happens one     *)
(* await after the call was charged, and in an unsaved run the call is     *)
(* charged two awaits after the launch; Inv says how the two relate at     *)
(* every await in between.                                                 *)
(*                                                                         *)
(* Nor is any statement about the record: the loop decides from its own    *)
(* memory, which is ahead of the record while an event is on its way and   *)
(* gone after a crash.  Agreement says, for every await, what the event on *)
(* its way may be, what the record, the saved state and the memory then    *)
(* have in common, and which checks passed on the present worktree.        *)
(***************************************************************************)
EXTENDS OrchestrationLoop, FiniteSetTheorems, TLAPS

\* What the pending event says of the counters: an approval, a reservation or
\* a continuation that is about to take effect passed its limit check, and
\* nothing disturbs the counter while the event is being recorded.
PendingOK ==
  /\ ev.type = "run_resumed" =>
       ev.segment \in Nat /\ ev.recovery \in BOOLEAN /\ iteration < IterationLimit
  /\ ev.type = "iteration_reserved" => ev.iteration \in Nat
  /\ ev.type = "action_approved" =>
       /\ ev.action \in Actions
       /\ ev.action \in Workers => agent.calls[ev.action] < CallLimit
  /\ ev.type = "execution_reserved" => ev.action \in Workers \cup Tools /\ Saved
  /\ pc = "traceIteration" /\ ev = NoEvent => iteration < IterationLimit
  /\ pc \in {"review", "starting", "recovery"} => iteration < IterationLimit
  /\ pc \in {"executing", "inspecting"} => running # "none"
  /\ pc = "idle" => ev = NoEvent
  /\ ~Saved => pc \notin {"review", "recording"}

\* How the launches relate to the counters at every await.
LaunchesCharged ==
  \A w \in Workers :
    /\ Saved =>
         /\ launched[w] <= ledger.calls[w]
         /\ ledger.calls[w] <= CallLimit
         /\ pc = "recorded" /\ ev.type = "execution_reserved" /\ ev.action = w =>
              launched[w] < ledger.calls[w]
    /\ ~Saved =>
         /\ launched[w] <= CallLimit
         /\ pc # "idle" =>
              launched[w] = agent.calls[w]
                + (IF pc \in {"executing", "inspecting"} /\ running = w THEN 1 ELSE 0)

Inv == TypeOK /\ PendingOK /\ LaunchesCharged

-----------------------------------------------------------------------------
USE LimitsAssumption, SavedAssumption DEF Workers, Tools, Actions

LEMMA InitialStateTyped ==
  ASSUME NEW required \in SUBSET Scripts
  PROVE  InitialState(required) \in AgentStates
BY DEF InitialState, AgentStates

LEMMA InvInit == Init => Inv
<1> SUFFICES ASSUME Init PROVE Inv
  OBVIOUS
<1>1. PICK required \in SUBSET Scripts :
        agent = InitialState(required) /\ saved = agent
  BY DEF Init
<1>2. TypeOK
  <2>1. agent \in AgentStates /\ saved \in AgentStates
    BY <1>1, InitialStateTyped
  <2>2. ledger.calls \in [Workers -> Nat] /\ ledger.status \in Statuses
        /\ ledger.lastIteration \in Nat /\ ledger.segment \in Nat
        /\ ledger.pendingFailure \in BOOLEAN
    BY DEF Init, Created, Statuses
  <2>3. /\ torn \in BOOLEAN /\ stale \in BOOLEAN
        /\ aborted \in BOOLEAN /\ pending \in BOOLEAN
    BY DEF Init
  <2> QED
    BY <2>1, <2>2, <2>3 DEF Init, TypeOK, PCs, Results
<1>3. PendingOK
  BY DEF Init, PendingOK, NoEvent
<1>4. LaunchesCharged
  BY <1>1 DEF Init, LaunchesCharged, Created, InitialState
<1> QED
  BY <1>2, <1>3, <1>4 DEF Inv

\* The script sets of a state stay sets of scripts.
LEMMA ScriptSets ==
  ASSUME NEW s \in AgentStates, NEW A \in SUBSET Scripts
  PROVE  /\ s.named \cup A \in SUBSET Scripts
         /\ s.required \cup A \in SUBSET Scripts
         /\ s.passed \cup A \in SUBSET Scripts
         /\ s.passed \ A \in SUBSET Scripts
BY DEF AgentStates

\* What the end of a process leaves of its memory.
LEMMA ExitTyped ==
  ASSUME TypeOK, NEW r \in Results, Exit(r)
  PROVE  /\ pc' \in PCs /\ result' \in Results
         /\ aborted' \in BOOLEAN /\ pending' \in BOOLEAN
         /\ iteration' \in 0..IterationLimit /\ segment' \in Nat
         /\ running' \in Workers \cup Tools \cup {"none"}
         /\ agent' \in AgentStates
<1>1. agent' \in AgentStates
  BY DEF Exit, TypeOK
<1>2. aborted' \in BOOLEAN /\ pending' \in BOOLEAN
  BY DEF Exit
<1> QED
  BY <1>1, <1>2 DEF Exit, PCs

LEMMA AbandonTyped ==
  ASSUME TypeOK, Abandon
  PROVE  /\ pc' \in PCs /\ result' \in Results
         /\ aborted' \in BOOLEAN /\ pending' \in BOOLEAN
         /\ iteration' \in 0..IterationLimit /\ segment' \in Nat
         /\ running' \in Workers \cup Tools \cup {"none"}
         /\ agent' \in AgentStates
<1>1. CASE ev.type = "run_resumed" /\ ~pending
  BY <1>1, ExitTyped DEF Abandon, Results
<1>2. CASE ~(ev.type = "run_resumed" /\ ~pending)
  BY <1>2 DEF Abandon, TypeOK, PCs
<1> QED
  BY <1>1, <1>2

\* The ledger summary after any event the loop records.
LEMMA ApplyTyped ==
  ASSUME TypeOK, PendingOK
  PROVE  LET L == Apply(ledger, ev)
         IN  /\ L.calls \in [Workers -> Nat] /\ L.lastIteration \in Nat
             /\ L.segment \in Nat /\ L.pendingFailure \in BOOLEAN
             /\ L.status \in Statuses
<1>1. Apply(ledger, ev).calls \in [Workers -> Nat]
  BY DEF Apply, TypeOK
<1>2. Apply(ledger, ev).lastIteration \in Nat /\ Apply(ledger, ev).segment \in Nat
  BY DEF Apply, LastIterationAfter, TypeOK, PendingOK
<1>3. Apply(ledger, ev).status \in Statuses
  BY DEF Apply, EventStatus, Statuses, Terminal
<1>4. Apply(ledger, ev).pendingFailure \in BOOLEAN
  BY DEF Apply, PendingFailureAfter, TypeOK
<1> QED
  BY <1>1, <1>2, <1>3, <1>4

LEMMA RefreshTyped == TypeOK /\ RefreshReturns => agent' \in AgentStates
<1> SUFFICES ASSUME TypeOK, RefreshReturns PROVE agent' \in AgentStates
  OBVIOUS
<1>1. PICK ok \in BOOLEAN, required \in SUBSET Scripts :
        agent' = IF ok THEN [agent EXCEPT !.refresh = FALSE,
                                          !.required = agent.named \cup required]
                 ELSE agent
  BY DEF RefreshReturns
<1> QED
  BY <1>1, ScriptSets DEF TypeOK, AgentStates

LEMMA InformationTyped == TypeOK /\ InformationGiven => agent' \in AgentStates
<1> SUFFICES ASSUME TypeOK, InformationGiven PROVE agent' \in AgentStates
  OBVIOUS
<1>1. PICK named \in SUBSET Scripts, long \in Overlong :
        agent' = [agent EXCEPT !.named = @ \cup named, !.required = @ \cup named,
                               !.overlong = @ \/ long]
  BY DEF InformationGiven
<1>2. (agent.overlong \/ long) \in BOOLEAN
  OBVIOUS
<1> QED
  BY <1>1, <1>2, ScriptSets DEF TypeOK, AgentStates

LEMMA ReadTyped == TypeOK /\ ReadReturns => agent' \in AgentStates
<1> SUFFICES ASSUME TypeOK, ReadReturns PROVE agent' \in AgentStates
  OBVIOUS
<1>1. PICK named \in SUBSET Scripts, long \in Overlong :
        agent' = [agent EXCEPT !.named = @ \cup named, !.required = @ \cup named,
                               !.overlong = @ \/ long]
  BY DEF ReadReturns
<1>2. (agent.overlong \/ long) \in BOOLEAN
  OBVIOUS
<1> QED
  BY <1>1, <1>2, ScriptSets DEF TypeOK, AgentStates

LEMMA TestsTyped ==
  TypeOK /\ TestsReturn => agent' \in AgentStates /\ fresh' \in SUBSET Scripts
<1> SUFFICES ASSUME TypeOK, TestsReturn
             PROVE  agent' \in AgentStates /\ fresh' \in SUBSET Scripts
  OBVIOUS
<1>1. PICK ok \in BOOLEAN, script \in Scripts, covered \in SUBSET Scripts, long \in Overlong :
        /\ script \in covered
        /\ ~(covered \cap agent.required \subseteq agent.passed)
        /\ aborted => ~ok
        /\ agent' = [agent EXCEPT
             !.passed = Passes(@, ok, script, covered), !.overlong = @ \/ long,
             !.tests = agent.required \subseteq Passes(agent.passed, ok, script, covered)]
        /\ fresh' = Passes(fresh, ok, script, covered)
        /\ Settle(ok)
  BY Zenon DEF TestsReturn
<1>2. /\ (agent.overlong \/ long) \in BOOLEAN
      /\ (agent.required \subseteq Passes(agent.passed, ok, script, covered)) \in BOOLEAN
  OBVIOUS
<1>3. \A P \in SUBSET Scripts : Passes(P, ok, script, covered) \in SUBSET Scripts
  BY DEF Passes
<1>4. agent.passed \in SUBSET Scripts /\ fresh \in SUBSET Scripts
  BY DEF TypeOK, AgentStates
<1> QED
  BY <1>1, <1>2, <1>3, <1>4 DEF TypeOK, AgentStates

LEMMA InspectionTyped ==
  TypeOK /\ LaunchesCharged /\ InspectionReturns => agent' \in AgentStates
<1> SUFFICES ASSUME TypeOK, LaunchesCharged, InspectionReturns PROVE agent' \in AgentStates
  OBVIOUS
<1> DEFINE charged == [w \in Workers |-> agent.calls[w] + (IF w = running /\ ~Saved THEN 1 ELSE 0)]
<1>1. PICK ok \in BOOLEAN, inspected \in BOOLEAN, required \in SUBSET Scripts, long \in Overlong :
        /\ ok => inspected
        /\ agent' = [agent EXCEPT !.tests = FALSE, !.passed = {}, !.refresh = ~inspected,
             !.required = IF inspected THEN agent.named \cup required ELSE @,
             !.overlong = @ \/ long,
             !.calls = [w \in Workers |-> @[w] + (IF w = running /\ ~Saved THEN 1 ELSE 0)]]
        /\ Settle(ok)
  BY Zenon DEF InspectionReturns
<1>2. (agent.overlong \/ long) \in BOOLEAN /\ (~inspected) \in BOOLEAN
  OBVIOUS
<1>3. (IF inspected THEN agent.named \cup required ELSE agent.required) \in SUBSET Scripts
  BY ScriptSets DEF TypeOK, AgentStates
<1>4. charged \in [Workers -> 0..CallLimit]
  BY DEF InspectionReturns, TypeOK, AgentStates, LaunchesCharged
<1>5. /\ agent'.iteration = agent.iteration /\ agent'.calls = charged
      /\ agent'.refresh = ~inspected /\ agent'.tests = FALSE
      /\ agent'.named = agent.named /\ agent'.passed = {}
      /\ agent'.required = IF inspected THEN agent.named \cup required ELSE agent.required
      /\ agent'.overlong = (agent.overlong \/ long)
      /\ agent' = [iteration |-> agent'.iteration, calls |-> agent'.calls,
                   refresh |-> agent'.refresh, tests |-> agent'.tests,
                   named |-> agent'.named, required |-> agent'.required,
                   passed |-> agent'.passed, overlong |-> agent'.overlong]
  BY <1>1 DEF TypeOK, AgentStates
<1> HIDE DEF charged
<1> QED
  BY <1>2, <1>3, <1>4, <1>5 DEF TypeOK, AgentStates

LEMMA ResumeTyped ==
  TypeOK /\ ResumeReview => agent' \in AgentStates /\ iteration' \in 0..IterationLimit
<1> SUFFICES ASSUME TypeOK, ResumeReview
             PROVE  agent' \in AgentStates /\ iteration' \in 0..IterationLimit
  OBVIOUS
<1>1. PICK required \in SUBSET Scripts : agent' = refreshResumeState(saved, required)
  BY DEF ResumeReview
<1>2. agent' \in AgentStates
  BY <1>1, ScriptSets DEF refreshResumeState, TypeOK, AgentStates
<1> QED
  BY <1>2 DEF ResumeReview, Resumable, TypeOK

LEMMA TypeOKStep == Inv /\ [Next]_vars => TypeOK'
<1> SUFFICES ASSUME TypeOK, PendingOK, LaunchesCharged, [Next]_vars PROVE TypeOK'
  BY DEF Inv
<1> USE DEF Record, TraceThen, Stop, StartIteration, FinishIteration, Durable, Only,
             Recorded, durable, history
<1>1. CASE ReviewEnds
  BY <1>1, ExitTyped DEF ReviewEnds, TypeOK, PCs, Results
<1>2. CASE ResumeRecorded
  BY <1>2 DEF ResumeRecorded, TypeOK, PCs
<1>3. CASE Start
  BY <1>3 DEF Start, TypeOK, PCs, PendingOK, AgentStates
<1>4. CASE AppendCommits
  BY <1>4, ApplyTyped DEF AppendCommits, TypeOK, PCs
<1>5. CASE AppendRefused
  BY <1>5, AbandonTyped DEF AppendRefused, TypeOK
<1>6. CASE IterationStarts
  BY <1>6 DEF IterationStarts, TypeOK, PCs
<1>7. CASE EvaluationReturns
  <2>1. pending' \in BOOLEAN
    BY <1>7 DEF EvaluationReturns
  <2> QED
    BY <1>7, <2>1 DEF EvaluationReturns, TypeOK, PCs
<1>8. CASE EvaluationFails
  <2>1. pending' \in BOOLEAN
    BY <1>8 DEF EvaluationFails
  <2> QED
    BY <1>8, <2>1 DEF EvaluationFails, TypeOK, PCs
<1>9. CASE EvaluationRecorded
  BY <1>9 DEF EvaluationRecorded, TypeOK, PCs
<1>10. CASE FailureRecorded
  BY <1>10 DEF FailureRecorded, TypeOK, PCs
<1>11. CASE FailureTraced
  BY <1>11 DEF FailureTraced, TypeOK, PCs
<1>12. CASE RecoveryTraced
  BY <1>12 DEF RecoveryTraced, TypeOK, PCs
<1>13. CASE RecoveryRecorded
  <2>1. pending' \in BOOLEAN
    BY <1>13 DEF RecoveryRecorded
  <2>2. agent' \in AgentStates /\ iteration' \in 0..IterationLimit
    BY <1>13 DEF RecoveryRecorded, TypeOK, PendingOK, AgentStates
  <2> QED
    BY <1>13, <2>1, <2>2 DEF RecoveryRecorded, TypeOK, PCs
<1>14. CASE PromptStops
  BY <1>14 DEF PromptStops, TypeOK, PCs
<1>15. CASE WaitInterrupted
  BY <1>15 DEF WaitInterrupted, TypeOK, PCs
<1>16. CASE ApprovalRecorded
  <2>1. agent' \in AgentStates
    BY <1>16 DEF ApprovalRecorded, TypeOK, AgentStates, PendingOK, Record
  <2> QED
    BY <1>16, <2>1 DEF ApprovalRecorded, TypeOK, PCs, Settle, Launch, PendingOK
<1>17. CASE ReservationRecorded
  BY <1>17 DEF ReservationRecorded, TypeOK, PCs, PendingOK, Launch
<1>18. CASE RefreshReturns
  BY <1>18, RefreshTyped DEF RefreshReturns, TypeOK, PCs, Settle
<1>19. CASE TestsReturn
  BY <1>19, TestsTyped DEF TestsReturn, TypeOK, PCs, Settle
<1>20. CASE ReadReturns
  BY <1>20, ReadTyped DEF ReadReturns, TypeOK, PCs, Settle
<1>21. CASE WorkerReturns
  BY <1>21 DEF WorkerReturns, TypeOK, PCs
<1>22. CASE InspectionReturns
  BY <1>22, InspectionTyped DEF InspectionReturns, TypeOK, PCs, Settle
<1>23. CASE OutcomeRecorded
  BY <1>23 DEF OutcomeRecorded, TypeOK, PCs
<1>24. CASE ClarificationRecorded
  BY <1>24 DEF ClarificationRecorded, TypeOK, PCs
<1>25. CASE IterationTraced
  BY <1>25 DEF IterationTraced, TypeOK, PCs, PendingOK, AgentStates
<1>26. CASE StopTraced
  BY <1>26, ExitTyped DEF StopTraced, TypeOK, PCs, Results
<1>27. CASE RunEnds
  BY <1>27, ExitTyped DEF RunEnds, TypeOK, PCs, Results
<1>28. CASE PersistenceTraced
  BY <1>28, ExitTyped DEF PersistenceTraced, TypeOK, PCs, Results
<1>29. CASE ResumeReview
  BY <1>29, ResumeTyped DEF ResumeReview, TypeOK, PCs, Settle, Results
<1>30. CASE ReviewContinues
  BY <1>30 DEF ReviewContinues, TypeOK, PCs
<1>31. CASE RecoveryAnswered
  BY <1>31 DEF RecoveryAnswered, TypeOK, PCs
<1>32. CASE Approve
  BY <1>32 DEF Approve, TypeOK, PCs
<1>33. CASE Reject
  BY <1>33 DEF Reject, TypeOK, PCs
<1>34. CASE UserStops
  BY <1>34 DEF UserStops, TypeOK, PCs
<1>35. CASE InformationGiven
  BY <1>35, InformationTyped DEF InformationGiven, TypeOK, PCs, Settle
<1>36. CASE OperatorClearsLocks
  <2>1. stale' \in BOOLEAN
    BY <1>36 DEF OperatorClearsLocks
  <2> QED
    BY <1>36, <2>1 DEF OperatorClearsLocks, TypeOK, PCs
<1>37. CASE Signal
  <2>1. aborted' \in BOOLEAN
    BY <1>37 DEF Signal
  <2> QED
    BY <1>37, <2>1 DEF Signal, TypeOK, PCs
<1>38. CASE StartFails
  BY <1>38, ExitTyped DEF StartFails, TypeOK, PCs, Results
<1>39. CASE AppendFails
  BY <1>39, AbandonTyped DEF AppendFails, TypeOK
<1>40. CASE ReleaseFails
  BY <1>40, AbandonTyped DEF ReleaseFails, TypeOK
<1>41. CASE PromptFails
  BY <1>41, ExitTyped DEF PromptFails, TypeOK, PCs, Results
<1>42. CASE TraceFails
  BY <1>42, ExitTyped DEF TraceFails, TypeOK, PCs, Results
<1>43. CASE Crash
  BY <1>43, ExitTyped DEF Crash, TypeOK, PCs, Results
<1>44. CASE UNCHANGED vars
  BY <1>44 DEF vars, TypeOK
<1> QED
  BY <1>1, <1>2, <1>3, <1>4, <1>5, <1>6, <1>7, <1>8, <1>9, <1>10, <1>11,
     <1>12, <1>13, <1>14, <1>15, <1>16, <1>17, <1>18, <1>19, <1>20, <1>21,
     <1>22, <1>23, <1>24, <1>25, <1>26, <1>27, <1>28, <1>29, <1>30, <1>31,
     <1>32, <1>33, <1>34, <1>35, <1>36, <1>37, <1>38, <1>39, <1>40, <1>41,
     <1>42, <1>43, <1>44
     DEF Next, Progress, Operator, Fault

LEMMA PendingOKStep == Inv /\ [Next]_vars => PendingOK'
<1> SUFFICES ASSUME TypeOK, PendingOK, [Next]_vars PROVE PendingOK'
  BY DEF Inv
<1> USE DEF Record, TraceThen, Stop, StartIteration, FinishIteration, Durable, Only,
             Recorded, durable, history,
             IterationReserved, EvaluationCompleted, EvaluationFailed, ActionApproved,
             ExecutionReserved, ExecutionOutcome, Clarification, RunResumed, RunStopped,
             RunFinished, IterationLimitReached, NoEvent
<1>1. CASE ReviewEnds
  BY <1>1 DEF ReviewEnds, TypeOK, PendingOK, Exit
<1>2. CASE ResumeRecorded
  BY <1>2 DEF ResumeRecorded, TypeOK, PendingOK
<1>3. CASE Start
  BY <1>3 DEF Start, TypeOK, PendingOK, AgentStates
<1>4. CASE AppendCommits
  BY <1>4 DEF AppendCommits, TypeOK, PendingOK
<1>5. CASE AppendRefused
  BY <1>5 DEF AppendRefused, TypeOK, PendingOK, Exit, Abandon
<1>6. CASE IterationStarts
  BY <1>6 DEF IterationStarts, TypeOK, PendingOK
<1>7. CASE EvaluationReturns
  BY <1>7 DEF EvaluationReturns, TypeOK, PendingOK
<1>8. CASE EvaluationFails
  BY <1>8 DEF EvaluationFails, TypeOK, PendingOK
<1>9. CASE EvaluationRecorded
  BY <1>9 DEF EvaluationRecorded, TypeOK, PendingOK
<1>10. CASE FailureRecorded
  BY <1>10 DEF FailureRecorded, TypeOK, PendingOK
<1>11. CASE FailureTraced
  BY <1>11 DEF FailureTraced, TypeOK, PendingOK
<1>12. CASE RecoveryTraced
  BY <1>12 DEF RecoveryTraced, TypeOK, PendingOK
<1>13. CASE RecoveryRecorded
  BY <1>13 DEF RecoveryRecorded, TypeOK, PendingOK, AgentStates
<1>14. CASE PromptStops
  BY <1>14 DEF PromptStops, TypeOK, PendingOK
<1>15. CASE WaitInterrupted
  BY <1>15 DEF WaitInterrupted, TypeOK, PendingOK
<1>16. CASE ApprovalRecorded
  BY <1>16 DEF ApprovalRecorded, TypeOK, PendingOK, Launch, AgentStates
<1>17. CASE ReservationRecorded
  BY <1>17 DEF ReservationRecorded, TypeOK, PendingOK, Launch, AgentStates
<1>18. CASE RefreshReturns
  BY <1>18 DEF RefreshReturns, TypeOK, PendingOK, AgentStates
<1>19. CASE TestsReturn
  BY <1>19 DEF TestsReturn, TypeOK, PendingOK, Settle, AgentStates
<1>20. CASE ReadReturns
  BY <1>20 DEF ReadReturns, TypeOK, PendingOK, Settle, AgentStates
<1>21. CASE WorkerReturns
  BY <1>21 DEF WorkerReturns, TypeOK, PendingOK
<1>22. CASE InspectionReturns
  BY <1>22 DEF InspectionReturns, TypeOK, PendingOK, Settle, AgentStates
<1>23. CASE OutcomeRecorded
  BY <1>23 DEF OutcomeRecorded, TypeOK, PendingOK
<1>24. CASE ClarificationRecorded
  BY <1>24 DEF ClarificationRecorded, TypeOK, PendingOK
<1>25. CASE IterationTraced
  BY <1>25 DEF IterationTraced, TypeOK, PendingOK, AgentStates
<1>26. CASE StopTraced
  BY <1>26 DEF StopTraced, TypeOK, PendingOK, Exit
<1>27. CASE RunEnds
  BY <1>27 DEF RunEnds, TypeOK, PendingOK, Exit
<1>28. CASE PersistenceTraced
  BY <1>28 DEF PersistenceTraced, TypeOK, PendingOK, Exit
<1>29. CASE ResumeReview
  BY <1>29 DEF ResumeReview, TypeOK, PendingOK, Resumable
<1>30. CASE ReviewContinues
  BY <1>30 DEF ReviewContinues, TypeOK, PendingOK
<1>31. CASE RecoveryAnswered
  <2>1. PICK e \in {RunResumed(segment + 1, TRUE), RunStopped("evaluation_failure", TRUE)} :
          ev' = e /\ pc' = "traceRecovery"
    BY <1>31 DEF RecoveryAnswered
  <2>2. CASE e = RunResumed(segment + 1, TRUE)
    BY <1>31, <2>1, <2>2 DEF RecoveryAnswered, TypeOK, PendingOK
  <2>3. CASE e = RunStopped("evaluation_failure", TRUE)
    BY <1>31, <2>1, <2>3 DEF RecoveryAnswered, PendingOK
  <2> QED
    BY <2>1, <2>2, <2>3
<1>32. CASE Approve
  BY <1>32 DEF Approve, TypeOK, PendingOK, Permitted
<1>33. CASE Reject
  BY <1>33 DEF Reject, TypeOK, PendingOK
<1>34. CASE UserStops
  BY <1>34 DEF UserStops, TypeOK, PendingOK
<1>35. CASE InformationGiven
  BY <1>35 DEF InformationGiven, TypeOK, PendingOK, AgentStates
<1>36. CASE OperatorClearsLocks
  BY <1>36 DEF OperatorClearsLocks, TypeOK, PendingOK
<1>37. CASE Signal
  BY <1>37 DEF Signal, TypeOK, PendingOK
<1>38. CASE StartFails
  BY <1>38 DEF StartFails, TypeOK, PendingOK, Exit
<1>39. CASE AppendFails
  BY <1>39 DEF AppendFails, TypeOK, PendingOK, Exit, Abandon
<1>40. CASE ReleaseFails
  BY <1>40 DEF ReleaseFails, TypeOK, PendingOK, Exit, Abandon
<1>41. CASE PromptFails
  BY <1>41 DEF PromptFails, TypeOK, PendingOK, Exit
<1>42. CASE TraceFails
  BY <1>42 DEF TraceFails, TypeOK, PendingOK, Exit
<1>43. CASE Crash
  BY <1>43 DEF Crash, TypeOK, PendingOK, Exit
<1>44. CASE UNCHANGED vars
  BY <1>44 DEF vars, PendingOK
<1> QED
  BY <1>1, <1>2, <1>3, <1>4, <1>5, <1>6, <1>7, <1>8, <1>9, <1>10, <1>11,
     <1>12, <1>13, <1>14, <1>15, <1>16, <1>17, <1>18, <1>19, <1>20, <1>21,
     <1>22, <1>23, <1>24, <1>25, <1>26, <1>27, <1>28, <1>29, <1>30, <1>31,
     <1>32, <1>33, <1>34, <1>35, <1>36, <1>37, <1>38, <1>39, <1>40, <1>41,
     <1>42, <1>43, <1>44
     DEF Next, Progress, Operator, Fault

LEMMA LaunchesStep == Inv /\ [Next]_vars => LaunchesCharged'
<1> SUFFICES ASSUME TypeOK, PendingOK, LaunchesCharged, [Next]_vars PROVE LaunchesCharged'
  BY DEF Inv
<1> USE DEF Record, TraceThen, Stop, StartIteration, FinishIteration, Durable, Only,
             Recorded, durable, history,
             IterationReserved, EvaluationCompleted, EvaluationFailed, ActionApproved,
             ExecutionReserved, ExecutionOutcome, Clarification, RunResumed, RunStopped,
             RunFinished, IterationLimitReached, NoEvent
<1>1. CASE ReviewEnds
  BY <1>1 DEF ReviewEnds, TypeOK, PendingOK, LaunchesCharged, Exit
<1>2. CASE ResumeRecorded
  BY <1>2 DEF ResumeRecorded, TypeOK, PendingOK, LaunchesCharged
<1>3. CASE Start
  BY <1>3 DEF Start, TypeOK, PendingOK, LaunchesCharged, AgentStates
<1>4. CASE AppendCommits
  BY <1>4 DEF AppendCommits, TypeOK, PendingOK, LaunchesCharged, CanAppend, Accepts, ValidNext, Apply, Charges,
     ResumeRule, IterationRule, EvaluationRule, ApprovalRule, ReservationRule, OutcomeRule,
     ClarificationRule, StopRule, FinishRule, LimitRule
<1>5. CASE AppendRefused
  BY <1>5 DEF AppendRefused, TypeOK, PendingOK, LaunchesCharged, Exit, Abandon
<1>6. CASE IterationStarts
  BY <1>6 DEF IterationStarts, TypeOK, PendingOK, LaunchesCharged
<1>7. CASE EvaluationReturns
  BY <1>7 DEF EvaluationReturns, TypeOK, PendingOK, LaunchesCharged
<1>8. CASE EvaluationFails
  BY <1>8 DEF EvaluationFails, TypeOK, PendingOK, LaunchesCharged
<1>9. CASE EvaluationRecorded
  BY <1>9 DEF EvaluationRecorded, TypeOK, PendingOK, LaunchesCharged
<1>10. CASE FailureRecorded
  BY <1>10 DEF FailureRecorded, TypeOK, PendingOK, LaunchesCharged
<1>11. CASE FailureTraced
  BY <1>11 DEF FailureTraced, TypeOK, PendingOK, LaunchesCharged
<1>12. CASE RecoveryTraced
  BY <1>12 DEF RecoveryTraced, TypeOK, PendingOK, LaunchesCharged
<1>13. CASE RecoveryRecorded
  BY <1>13 DEF RecoveryRecorded, TypeOK, PendingOK, LaunchesCharged, AgentStates
<1>14. CASE PromptStops
  BY <1>14 DEF PromptStops, TypeOK, PendingOK, LaunchesCharged
<1>15. CASE WaitInterrupted
  BY <1>15 DEF WaitInterrupted, TypeOK, PendingOK, LaunchesCharged
<1>16. CASE ApprovalRecorded
  BY <1>16 DEF ApprovalRecorded, TypeOK, PendingOK, LaunchesCharged, Launch, AgentStates
<1>17. CASE ReservationRecorded
  BY <1>17 DEF ReservationRecorded, TypeOK, PendingOK, LaunchesCharged, Launch, AgentStates
<1>18. CASE RefreshReturns
  BY <1>18 DEF RefreshReturns, TypeOK, PendingOK, LaunchesCharged, AgentStates
<1>19. CASE TestsReturn
  BY <1>19 DEF TestsReturn, TypeOK, PendingOK, LaunchesCharged, Settle, AgentStates
<1>20. CASE ReadReturns
  BY <1>20 DEF ReadReturns, TypeOK, PendingOK, LaunchesCharged, Settle, AgentStates
<1>21. CASE WorkerReturns
  BY <1>21 DEF WorkerReturns, TypeOK, PendingOK, LaunchesCharged
<1>22. CASE InspectionReturns
  BY <1>22 DEF InspectionReturns, TypeOK, PendingOK, LaunchesCharged, Settle, AgentStates
<1>23. CASE OutcomeRecorded
  BY <1>23 DEF OutcomeRecorded, TypeOK, PendingOK, LaunchesCharged
<1>24. CASE ClarificationRecorded
  BY <1>24 DEF ClarificationRecorded, TypeOK, PendingOK, LaunchesCharged
<1>25. CASE IterationTraced
  BY <1>25 DEF IterationTraced, TypeOK, PendingOK, LaunchesCharged, AgentStates
<1>26. CASE StopTraced
  BY <1>26 DEF StopTraced, TypeOK, PendingOK, LaunchesCharged, Exit
<1>27. CASE RunEnds
  BY <1>27 DEF RunEnds, TypeOK, PendingOK, LaunchesCharged, Exit
<1>28. CASE PersistenceTraced
  BY <1>28 DEF PersistenceTraced, TypeOK, PendingOK, LaunchesCharged, Exit
<1>29. CASE ResumeReview
  BY <1>29 DEF ResumeReview, TypeOK, PendingOK, LaunchesCharged
<1>30. CASE ReviewContinues
  BY <1>30 DEF ReviewContinues, TypeOK, PendingOK, LaunchesCharged
<1>31. CASE RecoveryAnswered
  BY <1>31 DEF RecoveryAnswered, TypeOK, PendingOK, LaunchesCharged
<1>32. CASE Approve
  BY <1>32 DEF Approve, TypeOK, PendingOK, LaunchesCharged
<1>33. CASE Reject
  BY <1>33 DEF Reject, TypeOK, PendingOK, LaunchesCharged
<1>34. CASE UserStops
  BY <1>34 DEF UserStops, TypeOK, PendingOK, LaunchesCharged
<1>35. CASE InformationGiven
  BY <1>35 DEF InformationGiven, TypeOK, PendingOK, LaunchesCharged, AgentStates
<1>36. CASE OperatorClearsLocks
  BY <1>36 DEF OperatorClearsLocks, TypeOK, PendingOK, LaunchesCharged
<1>37. CASE Signal
  BY <1>37 DEF Signal, TypeOK, PendingOK, LaunchesCharged
<1>38. CASE StartFails
  BY <1>38 DEF StartFails, TypeOK, PendingOK, LaunchesCharged, Exit
<1>39. CASE AppendFails
  BY <1>39 DEF AppendFails, TypeOK, PendingOK, LaunchesCharged, Exit, Abandon
<1>40. CASE ReleaseFails
  BY <1>40 DEF ReleaseFails, TypeOK, PendingOK, LaunchesCharged, Exit, Abandon
<1>41. CASE PromptFails
  BY <1>41 DEF PromptFails, TypeOK, PendingOK, LaunchesCharged, Exit
<1>42. CASE TraceFails
  BY <1>42 DEF TraceFails, TypeOK, PendingOK, LaunchesCharged, Exit
<1>43. CASE Crash
  BY <1>43 DEF Crash, TypeOK, PendingOK, LaunchesCharged, Exit
<1>44. CASE UNCHANGED vars
  BY <1>44 DEF vars, LaunchesCharged
<1> QED
  BY <1>1, <1>2, <1>3, <1>4, <1>5, <1>6, <1>7, <1>8, <1>9, <1>10, <1>11,
     <1>12, <1>13, <1>14, <1>15, <1>16, <1>17, <1>18, <1>19, <1>20, <1>21,
     <1>22, <1>23, <1>24, <1>25, <1>26, <1>27, <1>28, <1>29, <1>30, <1>31,
     <1>32, <1>33, <1>34, <1>35, <1>36, <1>37, <1>38, <1>39, <1>40, <1>41,
     <1>42, <1>43, <1>44
     DEF Next, Progress, Operator, Fault

THEOREM InvHolds == Spec => []Inv
<1>1. Inv /\ [Next]_vars => Inv'
  BY TypeOKStep, PendingOKStep, LaunchesStep DEF Inv
<1> QED
  BY InvInit, <1>1, PTL DEF Spec

-----------------------------------------------------------------------------
\* Every variable keeps its type in every reachable state, for all limits.
THEOREM TypeCorrect == Spec => []TypeOK
<1>1. Inv => TypeOK
  BY DEF Inv
<1> QED
  BY <1>1, InvHolds, PTL

\* For every limit a worker is never started more often than its allowance,
\* nor, in a saved run, more often than the record says, over any number of
\* continuations, crashes, signals and failed writes (loop.ts, store.ts).
THEOREM WorkerBudgetHolds == Spec => []WorkerBudget
<1>1. Inv => WorkerBudget
  <2> SUFFICES ASSUME Inv, NEW w \in Workers
      PROVE  launched[w] <= CallLimit /\ (Saved => launched[w] <= ledger.calls[w])
    BY DEF WorkerBudget
  <2> QED
    BY DEF Inv, LaunchesCharged, TypeOK
<1> QED
  BY <1>1, InvHolds, PTL


-----------------------------------------------------------------------------
(* The process against its record.  What the loop remembers, the event it  *)
(* is about to record and the ledger on disk change in different steps;    *)
(* Agreement says at every await how they relate.  Nothing is asked of a   *)
(* process that is gone, or that only reports a failed write.              *)

Live == pc \notin {"idle", "tracePersistence"}
Recording(type) == pc = "recording" /\ ev.type = type

\* An event on its way to the record, or waiting for its trace entry.
Offers ==
  \/ pc = "recording"
  \/ pc \in {"traceIteration", "traceStop", "traceRecovery"} /\ ev.type # "none"

\* Events that belong to an iteration whose evaluation did not fail.
Steps == {"iteration_reserved", "evaluation_completed", "action_approved",
          "execution_reserved", "execution_outcome", "clarification_recorded"}
Endings == {"run_stopped", "run_finished", "iteration_limit"}

\* The events the loop makes, where they wait, and what a process leaves behind.
EventOK ==
  /\ ev.type \in Steps \cup Endings \cup {"evaluation_failed", "run_resumed", "none"}
  /\ ev.type = "none" => ev = NoEvent
  /\ ev.type = "none" => pc \notin {"recording", "recorded"}
  /\ ev.type = "execution_outcome" => ev.outcome \in {"succeeded", "failed", "cancelled"}
  /\ ev.type = "run_stopped" /\ ev.resumable => iteration < IterationLimit
  /\ pc = "idle" => ~pending /\ segment = 1
  /\ pc \in {"traceFailure", "recovery", "traceRecovery"} => pending
  /\ pc \in {"recording", "recorded"} /\ ev.type = "evaluation_failed" => pending
  /\ pc = "traceStop" => ev.type = "run_stopped"
  /\ pc = "traceRecovery" => ev.type \in {"run_stopped", "run_resumed", "iteration_limit"}
  /\ pc = "traceIteration" => ev.type \in Endings \cup {"none"}
  /\ pc = "recording" /\ ev.type \in Endings => lastWrite = "trace"

\* The durable record by itself: its checkpoint has the counters of its
\* ledger, attempts are numbered without gaps, and a stop leaves an iteration
\* and nothing unresolved.
RecordOK ==
  /\ ledger.length \in Nat
  /\ StateAgrees(ledger, saved.iteration, saved.calls)
  /\ Cardinality(ledger.reserved) \in Nat
  /\ ledger.reserved = 1..Cardinality(ledger.reserved)
  /\ ledger.status = "evaluation_failed" => ledger.pendingFailure
  /\ ledger.status = "stopped" =>
       ledger.open = {} /\ ledger.lastIteration < IterationLimit
  /\ ~Saved => ledger = Created

\* The counters of the process follow those of the record.
MemoryOK ==
  Saved /\ Live =>
    /\ ~torn
    /\ StateAgrees(IF pc = "recording" THEN Apply(ledger, ev) ELSE ledger,
                   agent.iteration, agent.calls)
    /\ iteration = ledger.lastIteration + (IF Recording("iteration_reserved") THEN 1 ELSE 0)
    /\ IF pc = "review" THEN segment = 1
       ELSE segment = ledger.segment
              + (IF Recording("run_resumed") /\ ~pending THEN 1 ELSE 0)
              - (IF Recorded("run_resumed") /\ pending THEN 1 ELSE 0)

\* What the record says while the process waits at pc.
ControlOK ==
  Saved /\ Live =>
    /\ pc = "review" => ledger.status = "stopped" /\ ~pending
    /\ pc \in {"starting", "evaluating", "selecting", "information", "refreshing",
               "executing", "inspecting", "traceIteration"} =>
         ledger.status = "active" /\ ~pending
    /\ pc \in {"traceFailure", "recovery", "traceRecovery"} =>
         ledger.status = "evaluation_failed"
    /\ pc = "recorded" => ledger.status = EventStatus(ev)
    /\ pc \in {"recording", "recorded"} /\ ev.type \in Steps => ~pending
    /\ pc = "evaluating" \/ Recorded("iteration_reserved") => ~ledger.settled
    /\ pc = "selecting" \/ Recorded("evaluation_completed") =>
         ledger.settled /\ ledger.approved = "none"
    /\ pc \in {"information", "refreshing"} => ledger.approved = "ASK_USER"
    /\ Recorded("action_approved") => ledger.approved = ev.action
    /\ Recording("execution_reserved") => ev.attempt = Cardinality(ledger.reserved) + 1
    /\ ledger.open = IF pc \in {"executing", "inspecting"} THEN {attempt}
                     ELSE IF Recorded("execution_reserved") \/ Recording("execution_outcome")
                          THEN {ev.attempt} ELSE {}

\* An event on its way to the record is one the ledger rules accept there,
\* except for the stop that follows a signal after the iteration limit.
OfferedOK ==
  Saved /\ Offers =>
    \/ ValidNext(ledger, ev, hasPassedValidation(agent))
    \/ /\ ledger.status = "iteration_limit" /\ ev.type = "run_stopped" /\ aborted
       /\ pc \in {"traceStop", "recording"}

\* Passes the process counts were made after the last worker started and the
\* last continuation, and only with all of them does it offer to finish.
PassesOK ==
  /\ Live /\ pc # "inspecting" /\ ~(pc = "executing" /\ running \in Workers) =>
       agent.passed \subseteq fresh
  /\ pc = "review" \/ (ev.type = "run_resumed" /\ ~pending /\ Live) => agent.passed = {}
  /\ Live /\ (ev.type = "run_finished" \/ (ev.type = "action_approved" /\ ev.action = "FINISH")) =>
       hasPassedValidation(agent)
  /\ result # "none" => pc = "idle"

Agreement == EventOK /\ RecordOK /\ MemoryOK /\ ControlOK /\ OfferedOK /\ PassesOK

\* What a stop leaves to be traced and recorded.
LEMMA StopEvent ==
  ASSUME NEW reason, NEW failed, Stop(reason, failed)
  PROVE  /\ pc' = "traceStop" /\ ev'.type = "run_stopped"
         /\ ev'.resumable => iteration < IterationLimit
         /\ ev'.reason = "evaluation_failure" => failed \/ reason = "evaluation_failure"
BY DEF Stop, TraceThen, RunStopped


LEMMA StopEventOK ==
  ASSUME NEW reason, NEW failed, Stop(reason, failed), iteration' = iteration
  PROVE  EventOK'
BY StopEvent DEF EventOK, Endings

LEMMA FinishEventOK ==
  ASSUME NEW terminal, FinishIteration(terminal), iteration' = iteration
  PROVE  EventOK'
<1>1. CASE aborted
  BY <1>1, StopEventOK DEF FinishIteration
<1>2. CASE ~aborted /\ terminal = "stopped"
  <2>1. ev' = RunStopped("user", iteration < IterationLimit) /\ pc' = "traceIteration"
    BY <1>2 DEF FinishIteration, TraceThen
  <2>2. ev'.type = "run_stopped" /\ (ev'.resumable => iteration < IterationLimit)
    BY <2>1 DEF RunStopped
  <2> QED
    BY <2>1, <2>2 DEF EventOK, Endings
<1>3. CASE ~aborted /\ terminal # "stopped"
  BY <1>3 DEF FinishIteration, TraceThen, RunFinished, IterationLimitReached, NoEvent,
              EventOK, Endings
<1> QED
  BY <1>1, <1>2, <1>3

LEMMA EventStep == Inv /\ Agreement /\ [Next]_vars => EventOK'
<1> SUFFICES ASSUME TypeOK, PendingOK, EventOK, [Next]_vars PROVE EventOK'
  BY DEF Inv, Agreement
<1> USE DEF Record, TraceThen, StartIteration, Durable, Only,
             Recorded, durable, history,
             IterationReserved, EvaluationCompleted, EvaluationFailed, ActionApproved,
             ExecutionReserved, ExecutionOutcome, Clarification, RunResumed, RunStopped,
             RunFinished, IterationLimitReached, NoEvent
<1>1. CASE ReviewEnds
  BY <1>1 DEF ReviewEnds, PendingOK, EventOK, Steps, Endings, Exit
<1>2. CASE ResumeRecorded
  BY <1>2 DEF ResumeRecorded, PendingOK, EventOK, Steps, Endings
<1>3. CASE Start
  <2>1. CASE aborted
    BY <1>3, <2>1, StopEventOK DEF Start
  <2>2. CASE ~(aborted)
    BY <1>3, <2>2 DEF Start, TypeOK, PendingOK, EventOK, Steps, Endings
  <2> QED
    BY <2>1, <2>2
<1>4. CASE AppendCommits
  BY <1>4 DEF AppendCommits, PendingOK, EventOK, Steps, Endings
<1>5. CASE AppendRefused
  BY <1>5 DEF AppendRefused, PendingOK, EventOK, Steps, Endings, Exit, Abandon
<1>6. CASE IterationStarts
  <2>1. CASE aborted
    BY <1>6, <2>1, StopEventOK DEF IterationStarts
  <2>2. CASE ~(aborted)
    BY <1>6, <2>2 DEF IterationStarts, TypeOK, PendingOK, EventOK, Steps, Endings
  <2> QED
    BY <2>1, <2>2
<1>7. CASE EvaluationReturns
  BY <1>7 DEF EvaluationReturns, PendingOK, EventOK, Steps, Endings
<1>8. CASE EvaluationFails
  BY <1>8 DEF EvaluationFails, PendingOK, EventOK, Steps, Endings
<1>9. CASE EvaluationRecorded
  <2>1. CASE aborted
    BY <1>9, <2>1, StopEventOK DEF EvaluationRecorded
  <2>2. CASE ~(aborted)
    BY <1>9, <2>2 DEF EvaluationRecorded, TypeOK, PendingOK, EventOK, Steps, Endings
  <2> QED
    BY <2>1, <2>2
<1>10. CASE FailureRecorded
  BY <1>10 DEF FailureRecorded, PendingOK, EventOK, Steps, Endings
<1>11. CASE FailureTraced
  <2>1. CASE aborted
    BY <1>11, <2>1, StopEventOK DEF FailureTraced
  <2>2. CASE ~(aborted)
    BY <1>11, <2>2 DEF FailureTraced, TypeOK, PendingOK, EventOK, Steps, Endings
  <2> QED
    BY <2>1, <2>2
<1>12. CASE RecoveryTraced
  <2>1. CASE aborted
    BY <1>12, <2>1, StopEventOK DEF RecoveryTraced
  <2>2. CASE ~(aborted)
    BY <1>12, <2>2 DEF RecoveryTraced, TypeOK, PendingOK, EventOK, Steps, Endings
  <2> QED
    BY <2>1, <2>2
<1>13. CASE RecoveryRecorded
  <2>1. CASE aborted
    BY <1>13, <2>1, StopEventOK DEF RecoveryRecorded
  <2>2. CASE ~(aborted)
    BY <1>13, <2>2 DEF RecoveryRecorded, TypeOK, PendingOK, EventOK, Steps, Endings
  <2> QED
    BY <2>1, <2>2
<1>14. CASE PromptStops
  BY <1>14, StopEventOK DEF PromptStops
<1>15. CASE WaitInterrupted
  BY <1>15, StopEventOK DEF WaitInterrupted
<1>16. CASE ApprovalRecorded
  <2>1. CASE aborted
    BY <1>16, <2>1, StopEventOK DEF ApprovalRecorded
  <2>2. CASE ~aborted /\ ev.action = "FINISH"
    BY <1>16, <2>2, FinishEventOK DEF ApprovalRecorded
  <2>3. CASE ~aborted /\ ev.action # "FINISH"
    BY <1>16, <2>3 DEF ApprovalRecorded, Launch, EventOK, Steps, Endings
  <2> QED
    BY <2>1, <2>2, <2>3
<1>17. CASE ReservationRecorded
  BY <1>17 DEF ReservationRecorded, PendingOK, EventOK, Steps, Endings, Launch
<1>18. CASE RefreshReturns
  <2>1. CASE aborted
    BY <1>18, <2>1, StopEventOK DEF RefreshReturns
  <2>2. CASE ~(aborted)
    BY <1>18, <2>2 DEF RefreshReturns, TypeOK, PendingOK, EventOK, Steps, Endings
  <2> QED
    BY <2>1, <2>2
<1>19. CASE TestsReturn
  <2>1. CASE Saved
    BY <1>19, <2>1 DEF TestsReturn, Settle, EventOK, Steps, Endings
  <2>2. CASE ~Saved
    BY <1>19, <2>2, FinishEventOK DEF TestsReturn, Settle
  <2> QED
    BY <2>1, <2>2
<1>20. CASE ReadReturns
  <2>1. CASE Saved
    BY <1>20, <2>1 DEF ReadReturns, Settle, EventOK, Steps, Endings
  <2>2. CASE ~Saved
    BY <1>20, <2>2, FinishEventOK DEF ReadReturns, Settle
  <2> QED
    BY <2>1, <2>2
<1>21. CASE WorkerReturns
  BY <1>21 DEF WorkerReturns, PendingOK, EventOK, Steps, Endings
<1>22. CASE InspectionReturns
  <2>1. CASE Saved
    BY <1>22, <2>1 DEF InspectionReturns, Settle, EventOK, Steps, Endings
  <2>2. CASE ~Saved
    BY <1>22, <2>2, FinishEventOK DEF InspectionReturns, Settle
  <2> QED
    BY <2>1, <2>2
<1>23. CASE OutcomeRecorded
  BY <1>23, FinishEventOK DEF OutcomeRecorded
<1>24. CASE ClarificationRecorded
  BY <1>24 DEF ClarificationRecorded, PendingOK, EventOK, Steps, Endings
<1>25. CASE IterationTraced
  <2>1. CASE aborted /\ ev = NoEvent
    BY <1>25, <2>1, StopEventOK DEF IterationTraced
  <2>2. CASE ev # NoEvent
    BY <1>25, <2>2 DEF IterationTraced, EventOK, Steps, Endings
  <2>3. CASE ~aborted /\ ev = NoEvent
    BY <1>25, <2>3 DEF IterationTraced, EventOK, Steps, Endings
  <2> QED
    BY <2>1, <2>2, <2>3
<1>26. CASE StopTraced
  BY <1>26 DEF StopTraced, PendingOK, EventOK, Steps, Endings, Exit
<1>27. CASE RunEnds
  <2>1. CASE pc' = "traceStop"
    BY <1>27, <2>1, StopEventOK DEF RunEnds, Exit
  <2>2. CASE pc' # "traceStop"
    <3>1. ~Stop("signal", FALSE)
      BY <2>2, StopEvent
    <3>2. ev' = NoEvent /\ pc' = "idle" /\ ~pending' /\ segment' = 1
      BY <1>27, <3>1 DEF RunEnds, Exit
    <3> QED
      BY <3>2 DEF EventOK
  <2> QED
    BY <2>1, <2>2
<1>28. CASE PersistenceTraced
  BY <1>28 DEF PersistenceTraced, PendingOK, EventOK, Steps, Endings, Exit
<1>29. CASE ResumeReview
  BY <1>29 DEF ResumeReview, PendingOK, EventOK, Steps, Endings
<1>30. CASE ReviewContinues
  BY <1>30 DEF ReviewContinues, PendingOK, EventOK, Steps, Endings
<1>31. CASE RecoveryAnswered
  BY <1>31 DEF RecoveryAnswered, PendingOK, EventOK, Steps, Endings
<1>32. CASE Approve
  BY <1>32 DEF Approve, PendingOK, EventOK, Steps, Endings
<1>33. CASE Reject
  BY <1>33, FinishEventOK DEF Reject
<1>34. CASE UserStops
  BY <1>34, FinishEventOK DEF UserStops
<1>35. CASE InformationGiven
  BY <1>35 DEF InformationGiven, PendingOK, EventOK, Steps, Endings
<1>36. CASE OperatorClearsLocks
  BY <1>36 DEF OperatorClearsLocks, PendingOK, EventOK, Steps, Endings
<1>37. CASE Signal
  BY <1>37 DEF Signal, PendingOK, EventOK, Steps, Endings
<1>38. CASE StartFails
  BY <1>38 DEF StartFails, PendingOK, EventOK, Steps, Endings, Exit
<1>39. CASE AppendFails
  BY <1>39 DEF AppendFails, PendingOK, EventOK, Steps, Endings, Exit, Abandon
<1>40. CASE ReleaseFails
  BY <1>40 DEF ReleaseFails, PendingOK, EventOK, Steps, Endings, Exit, Abandon
<1>41. CASE PromptFails
  BY <1>41 DEF PromptFails, PendingOK, EventOK, Steps, Endings, Exit
<1>42. CASE TraceFails
  <2>1. CASE aborted /\ pc # "traceStop"
    BY <1>42, <2>1, StopEventOK DEF TraceFails
  <2>2. CASE ~(aborted /\ pc # "traceStop")
    BY <1>42, <2>2 DEF TraceFails, Exit, EventOK
  <2> QED
    BY <2>1, <2>2
<1>43. CASE Crash
  BY <1>43 DEF Crash, PendingOK, EventOK, Steps, Endings, Exit
<1>44. CASE UNCHANGED vars
  BY <1>44 DEF vars, EventOK
<1> QED
  BY <1>1, <1>2, <1>3, <1>4, <1>5, <1>6, <1>7, <1>8, <1>9, <1>10, <1>11,
     <1>12, <1>13, <1>14, <1>15, <1>16, <1>17, <1>18, <1>19, <1>20, <1>21,
     <1>22, <1>23, <1>24, <1>25, <1>26, <1>27, <1>28, <1>29, <1>30, <1>31,
     <1>32, <1>33, <1>34, <1>35, <1>36, <1>37, <1>38, <1>39, <1>40, <1>41,
     <1>42, <1>43, <1>44
     DEF Next, Progress, Operator, Fault

\* Only a committed append changes the record.
LEMMA RecordFrame == [Next]_vars => UNCHANGED <<ledger, saved>> \/ AppendCommits
<1> SUFFICES ASSUME [Next]_vars, ~AppendCommits PROVE UNCHANGED <<ledger, saved>>
  OBVIOUS
<1> USE DEF Durable, Only, durable
<1>1. CASE Progress
  BY <1>1 DEF Progress, ReviewEnds, ResumeRecorded, Start, AppendRefused, IterationStarts,
     EvaluationReturns, EvaluationFails, EvaluationRecorded, FailureRecorded, FailureTraced,
     RecoveryTraced, RecoveryRecorded, PromptStops, WaitInterrupted, ApprovalRecorded,
     ReservationRecorded, RefreshReturns, TestsReturn, ReadReturns, WorkerReturns,
     InspectionReturns, OutcomeRecorded, ClarificationRecorded, IterationTraced, StopTraced,
     RunEnds, PersistenceTraced
<1>2. CASE Operator
  BY <1>2 DEF Operator, ResumeReview, ReviewContinues, RecoveryAnswered, Approve, Reject,
     UserStops, InformationGiven, OperatorClearsLocks, Signal
<1>3. CASE Fault
  BY <1>3 DEF Fault, StartFails, AppendFails, ReleaseFails, PromptFails, TraceFails, Crash
<1> QED
  BY <1>1, <1>2, <1>3 DEF Next, vars

LEMMA RecordStep == Inv /\ Agreement /\ [Next]_vars => RecordOK'
<1> SUFFICES ASSUME TypeOK, PendingOK, EventOK, RecordOK, MemoryOK, ControlOK, OfferedOK,
                    [Next]_vars
             PROVE  RecordOK'
  BY DEF Inv, Agreement
<1>1. CASE UNCHANGED <<ledger, saved>>
  BY <1>1 DEF RecordOK, StateAgrees
<1>2. CASE AppendCommits
  <2> DEFINE count == Cardinality(ledger.reserved)
  <2>1. Saved /\ Live /\ pc = "recording" /\ ledger' = Apply(ledger, ev) /\ saved' = agent
    BY <1>2 DEF AppendCommits, PendingOK, Live
  <2>2. ledger'.length \in Nat /\ StateAgrees(ledger', saved'.iteration, saved'.calls)
    BY <1>2, <2>1 DEF MemoryOK, Apply, RecordOK
  <2>3. \E n \in Nat : ledger'.reserved = 1..n
    <3>1. CASE ev.type = "execution_reserved"
      <4>1. ledger'.reserved = (1..count) \cup {count + 1} /\ count \in Nat
        BY <2>1, <3>1 DEF Apply, RecordOK, ControlOK, Recording
      <4> HIDE DEF count
      <4>2. ledger'.reserved = 1..(count + 1)
        BY <4>1
      <4> QED
        BY <4>1, <4>2
    <3>2. CASE ev.type # "execution_reserved"
      BY <2>1, <3>2 DEF Apply, RecordOK
    <3> QED
      BY <3>1, <3>2
  <2>4. Cardinality(ledger'.reserved) \in Nat /\ ledger'.reserved = 1..Cardinality(ledger'.reserved)
    BY <2>3, FS_Interval
  <2>5. ledger'.status = "evaluation_failed" => ledger'.pendingFailure
    BY <2>1 DEF Apply, EventStatus, PendingFailureAfter
  <2>6. ASSUME ledger'.status = "stopped"
        PROVE  ledger'.open = {} /\ ledger'.lastIteration < IterationLimit
    <3>1. ev.type = "run_stopped" /\ ev.resumable
      BY <2>1, <2>6 DEF Apply, EventStatus
    <3>2. iteration < IterationLimit /\ iteration = ledger.lastIteration /\ ledger.open = {}
      BY <2>1, <3>1 DEF EventOK, MemoryOK, ControlOK, Recording, Recorded, TypeOK
    <3> QED
      BY <2>1, <3>1, <3>2 DEF Apply, OpenAfter, LastIterationAfter
  <2> QED
    BY <2>1, <2>2, <2>4, <2>5, <2>6 DEF RecordOK
<1> QED
  BY <1>1, <1>2, RecordFrame

\* An event that reserves nothing and continues nothing moves no counter.
Counting == {"iteration_reserved", "execution_reserved", "run_resumed"}

LEMMA ApplyCalls ==
  ASSUME TypeOK, NEW e, e.type # "execution_reserved"
  PROVE  Apply(ledger, e).calls = ledger.calls
BY DEF TypeOK, Apply, Charges

\* A step that moves no counter of the process and offers no event that moves
\* one of the record.
LEMMA MemoryFrame ==
  ASSUME TypeOK, MemoryOK, Live,
         UNCHANGED <<ledger, torn, iteration, segment>>,
         agent'.iteration = agent.iteration, agent'.calls = agent.calls,
         pc \notin {"recording", "review"}, ~(Recorded("run_resumed") /\ pending),
         pc' \notin {"recorded", "review"}, pc' = "recording" => ev'.type \notin Counting
  PROVE  MemoryOK'
<1> SUFFICES ASSUME Saved PROVE MemoryOK'
  BY DEF MemoryOK
<1>1. StateAgrees(ledger, agent.iteration, agent.calls) /\ ~torn
      /\ iteration = ledger.lastIteration /\ segment = ledger.segment
  BY DEF MemoryOK, Recording, Recorded, TypeOK
<1>2. pc' = "recording" => Apply(ledger, ev').calls = ledger.calls
                           /\ Apply(ledger, ev').lastIteration = ledger.lastIteration
  <2> HAVE pc' = "recording"
  <2> QED
    BY ApplyCalls DEF Counting, Apply, LastIterationAfter
<1>3. StateAgrees(IF pc' = "recording" THEN Apply(ledger', ev') ELSE ledger',
                  agent'.iteration, agent'.calls)
  BY <1>1, <1>2 DEF StateAgrees
<1> QED
  BY <1>1, <1>3 DEF MemoryOK, Recording, Recorded, Counting, TypeOK

LEMMA MemoryStart ==
  ASSUME TypeOK, MemoryOK, Saved, Live, StartIteration, UNCHANGED <<ledger, torn>>,
         iteration < IterationLimit, pc \notin {"recording", "review"},
         segment' = ledger.segment
  PROVE  MemoryOK'
<1>1. iteration = ledger.lastIteration /\ agent.calls = ledger.calls /\ ~torn
  BY DEF MemoryOK, Recording, StateAgrees, TypeOK
<1>2. /\ pc' = "recording" /\ ev' = IterationReserved(iteration + 1)
      /\ iteration' = iteration + 1
      /\ agent'.iteration = iteration + 1 /\ agent'.calls = agent.calls
  BY DEF StartIteration, Record, TypeOK, AgentStates
<1>3. ev'.type = "iteration_reserved" /\ ev'.iteration = iteration + 1
  BY <1>2 DEF IterationReserved
<1>4. Apply(ledger, ev').calls = ledger.calls
      /\ Apply(ledger, ev').lastIteration = iteration + 1
  BY <1>3, ApplyCalls DEF Apply, LastIterationAfter
<1>5. StateAgrees(Apply(ledger', ev'), agent'.iteration, agent'.calls)
  BY <1>1, <1>2, <1>4 DEF StateAgrees, TypeOK
<1> QED
  BY <1>1, <1>2, <1>3, <1>5 DEF MemoryOK, Recording, Recorded, TypeOK

LEMMA MemoryStep == Inv /\ Agreement /\ [Next]_vars => MemoryOK'
<1> SUFFICES ASSUME TypeOK, PendingOK, EventOK, RecordOK, MemoryOK, ControlOK, Saved, Live',
                    [Next]_vars
             PROVE  MemoryOK'
  BY DEF Inv, Agreement, MemoryOK
<1> USE DEF Record, TraceThen, FinishIteration, Settle, Durable, Only, Recorded, durable, history
<1>1. CASE ReviewEnds \/ AppendRefused \/ AppendFails \/ ReleaseFails \/ StartFails
           \/ PromptFails \/ PersistenceTraced \/ Crash \/ OperatorClearsLocks
  BY <1>1 DEF ReviewEnds, AppendRefused, AppendFails, ReleaseFails, StartFails, PromptFails,
     PersistenceTraced, Crash, OperatorClearsLocks, Abandon, Exit, Live
<1>2. CASE ResumeRecorded
  BY <1>2 DEF ResumeRecorded, MemoryOK, Live, Recording, TypeOK
<1>3. CASE Start
  <2>1. CASE aborted
    BY <1>3, <2>1, StopEvent, MemoryFrame DEF Start, Live
  <2>2. CASE ~aborted
    BY <1>3, <2>2, MemoryStart DEF Start, Live, MemoryOK, Recording, PendingOK, TypeOK
  <2> QED
    BY <2>1, <2>2
<1>4. CASE AppendCommits
  <2>1. /\ ledger' = Apply(ledger, ev) /\ pc = "recording" /\ pc' = "recorded" /\ Live
        /\ UNCHANGED <<torn, iteration, segment, pending, agent, ev>>
    BY <1>4 DEF AppendCommits, Live
  <2>2. StateAgrees(ledger', agent'.iteration, agent'.calls) /\ ~torn'
    BY <2>1 DEF MemoryOK
  <2>3. iteration' = ledger'.lastIteration
    <3>1. ev.type = "iteration_reserved" => ev.iteration = ledger.lastIteration + 1
      BY <1>4 DEF AppendCommits, CanAppend, Accepts, AppendGuard
    <3>2. ledger'.lastIteration = LastIterationAfter(ledger, ev)
      BY <2>1 DEF Apply
    <3> QED
      BY <2>1, <3>1, <3>2 DEF MemoryOK, Recording, LastIterationAfter, TypeOK
  <2>4. segment' = ledger'.segment - (IF Recorded("run_resumed")' /\ pending' THEN 1 ELSE 0)
    <3>1. ev.type = "run_resumed" => ev.segment = ledger.segment + 1
      BY <1>4 DEF AppendCommits, CanAppend, Accepts, AppendGuard
    <3>2. ledger'.segment = IF ev.type = "run_resumed" THEN ev.segment ELSE ledger.segment
      BY <2>1 DEF Apply
    <3> QED
      BY <2>1, <3>1, <3>2 DEF MemoryOK, Recording, TypeOK
  <2> QED
    BY <2>1, <2>2, <2>3, <2>4 DEF MemoryOK, Recording, TypeOK, Apply, PendingOK
<1>5. CASE IterationStarts \/ EvaluationRecorded
  BY <1>5, StopEvent, MemoryFrame DEF IterationStarts, EvaluationRecorded, Live
<1>6. CASE EvaluationReturns \/ EvaluationFails
  BY <1>6, MemoryFrame DEF EvaluationReturns, EvaluationFails, EvaluationCompleted,
     EvaluationFailed, Counting, Live
<1>7. CASE FailureRecorded \/ FailureTraced \/ RecoveryAnswered
  BY <1>7, StopEvent, MemoryFrame DEF FailureRecorded, FailureTraced, RecoveryAnswered, Live
<1>8. CASE RecoveryTraced
  <2>1. CASE aborted
    BY <1>8, <2>1, StopEvent, MemoryFrame DEF RecoveryTraced, Live
  <2>2. CASE ~aborted /\ ev.type # "run_resumed"
    BY <1>8, <2>2, MemoryFrame DEF RecoveryTraced, EventOK, Counting, Live
  <2>3. CASE ~aborted /\ ev.type = "run_resumed"
    <3>1. /\ pc' = "recording" /\ ev' = ev /\ pending' = pending /\ pending
          /\ UNCHANGED <<ledger, torn, iteration, segment, agent>> /\ Live /\ pc = "traceRecovery"
      BY <1>8, <2>3 DEF RecoveryTraced, EventOK, Live
    <3>2. Apply(ledger, ev).calls = ledger.calls
          /\ Apply(ledger, ev).lastIteration = ledger.lastIteration
      BY <2>3, ApplyCalls DEF Apply, LastIterationAfter
    <3>3. StateAgrees(Apply(ledger', ev'), agent'.iteration, agent'.calls)
      BY <3>1, <3>2 DEF MemoryOK, StateAgrees
    <3> QED
      BY <2>3, <3>1, <3>3 DEF MemoryOK, Recording, TypeOK
  <2> QED
    BY <2>1, <2>2, <2>3
<1>9. CASE RecoveryRecorded
  <2>1. segment' = ledger.segment /\ UNCHANGED <<ledger, torn>> /\ Live /\ pc = "recorded"
        /\ pending' = FALSE
    BY <1>9 DEF RecoveryRecorded, MemoryOK, Recording, Live, TypeOK
  <2>2. CASE aborted
    <3>1. pc' = "traceStop" /\ iteration' = iteration /\ agent' = agent
      BY <1>9, <2>2, StopEvent DEF RecoveryRecorded
    <3> QED
      BY <2>1, <3>1 DEF MemoryOK, Recording, TypeOK
  <2>3. CASE ~aborted
    BY <1>9, <2>1, <2>3, MemoryStart DEF RecoveryRecorded, PendingOK
  <2> QED
    BY <2>2, <2>3
<1>10. CASE PromptStops \/ WaitInterrupted \/ Reject \/ UserStops \/ OutcomeRecorded
            \/ ClarificationRecorded
  BY <1>10, StopEvent, MemoryFrame DEF PromptStops, WaitInterrupted, Reject, UserStops,
     OutcomeRecorded, ClarificationRecorded, Live
<1>11. CASE ApprovalRecorded
  <2>1. CASE ~aborted /\ ev.action \in Workers \cup Tools
    <3>1. /\ pc' = "recording" /\ pc = "recorded" /\ Live
          /\ ev' = ExecutionReserved(iteration, Cardinality(ledger.reserved) + 1, ev.action)
          /\ agent' = [agent EXCEPT !.calls =
               [w \in Workers |-> @[w] + (IF w = ev.action THEN 1 ELSE 0)]]
          /\ UNCHANGED <<ledger, torn, iteration, segment>>
      BY <1>11, <2>1 DEF ApprovalRecorded, Live
    <3>2. /\ agent'.calls = [w \in Workers |-> agent.calls[w] + (IF w = ev.action THEN 1 ELSE 0)]
          /\ agent'.iteration = agent.iteration
      BY <3>1 DEF TypeOK, AgentStates
    <3>3. ev'.type = "execution_reserved" /\ ev'.action = ev.action
      BY <3>1 DEF ExecutionReserved
    <3>4. agent.calls = ledger.calls
      BY <3>1 DEF MemoryOK, StateAgrees
    <3>5. /\ Apply(ledger, ev').calls = agent'.calls
          /\ Apply(ledger, ev').lastIteration = ledger.lastIteration
      BY <3>2, <3>3, <3>4 DEF Apply, Charges, LastIterationAfter
    <3>6. StateAgrees(Apply(ledger', ev'), agent'.iteration, agent'.calls)
      BY <3>1, <3>2, <3>5 DEF MemoryOK, StateAgrees
    <3> QED
      BY <1>11, <3>1, <3>3, <3>6 DEF MemoryOK, Recording, TypeOK, ApprovalRecorded
  <2>2. CASE aborted \/ ev.action \notin Workers \cup Tools
    BY <1>11, <2>2, StopEvent, MemoryFrame DEF ApprovalRecorded, Live
  <2> QED
    BY <2>1, <2>2
<1>12. CASE ReservationRecorded
  BY <1>12, MemoryFrame DEF ReservationRecorded, Launch, ExecutionOutcome, Counting, Live
<1>13. CASE RefreshReturns
  <2>1. agent'.iteration = agent.iteration /\ agent'.calls = agent.calls
    BY <1>13 DEF RefreshReturns, TypeOK, AgentStates
  <2> QED
    <3>1. CASE aborted
      BY <1>13, <2>1, <3>1, StopEvent, MemoryFrame DEF RefreshReturns, Live
    <3>2. CASE ~aborted
      BY <1>13, <2>1, <3>2, MemoryFrame DEF RefreshReturns, Clarification, Counting, Live
    <3> QED
      BY <3>1, <3>2
<1>14. CASE TestsReturn
  <2>1. agent'.iteration = agent.iteration /\ agent'.calls = agent.calls
    BY <1>14 DEF TestsReturn, TypeOK, AgentStates
  <2> QED
    BY <1>14, <2>1, MemoryFrame DEF TestsReturn, ExecutionOutcome, Counting, Live
<1>15. CASE ReadReturns
  <2>1. agent'.iteration = agent.iteration /\ agent'.calls = agent.calls
    BY <1>15 DEF ReadReturns, TypeOK, AgentStates
  <2> QED
    BY <1>15, <2>1, MemoryFrame DEF ReadReturns, ExecutionOutcome, Counting, Live
<1>16. CASE WorkerReturns
  BY <1>16, MemoryFrame DEF WorkerReturns, Live
<1>17. CASE InspectionReturns
  <2>1. agent'.iteration = agent.iteration /\ agent'.calls = agent.calls
    BY <1>17 DEF InspectionReturns, TypeOK, AgentStates
  <2> QED
    BY <1>17, <2>1, MemoryFrame DEF InspectionReturns, ExecutionOutcome, Counting, Live
<1>18. CASE IterationTraced
  <2>1. CASE ev # NoEvent
    BY <1>18, <2>1, MemoryFrame DEF IterationTraced, EventOK, Endings, Counting, Live
  <2>2. CASE ev = NoEvent /\ aborted
    BY <1>18, <2>2, StopEvent, MemoryFrame DEF IterationTraced, Live
  <2>3. CASE ev = NoEvent /\ ~aborted
    BY <1>18, <2>3, MemoryStart DEF IterationTraced, Live, MemoryOK, Recording, PendingOK, TypeOK
  <2> QED
    BY <2>1, <2>2, <2>3
<1>19. CASE StopTraced
  BY <1>19, MemoryFrame DEF StopTraced, EventOK, Counting, Live
<1>20. CASE RunEnds \/ TraceFails
  BY <1>20, StopEvent, MemoryFrame DEF RunEnds, TraceFails, Exit, Live
<1>21. CASE ResumeReview
  <2>1. agent'.iteration = saved.iteration /\ agent'.calls = saved.calls
    BY <1>21 DEF ResumeReview, refreshResumeState, TypeOK, AgentStates
  <2> QED
    BY <1>21, <2>1 DEF ResumeReview, MemoryOK, RecordOK, EventOK, StateAgrees, Recording, TypeOK
<1>22. CASE ReviewContinues
  <2>1. /\ ev'.type = "run_resumed" /\ ev' = RunResumed(ledger.segment + 1, ledger.pendingFailure)
        /\ segment' = ledger.segment + 1
        /\ pc' = "recording" /\ pc = "review" /\ Live
        /\ UNCHANGED <<ledger, torn, iteration, agent, pending>>
    BY <1>22 DEF ReviewContinues, RunResumed, Live
  <2>2. Apply(ledger, ev').calls = ledger.calls
        /\ Apply(ledger, ev').lastIteration = ledger.lastIteration
    BY <2>1, ApplyCalls DEF Apply, LastIterationAfter
  <2>3. StateAgrees(Apply(ledger', ev'), agent'.iteration, agent'.calls)
    BY <2>1, <2>2 DEF MemoryOK, StateAgrees
  <2>4. ~pending
    BY <2>1 DEF ControlOK
  <2> QED
    BY <2>1, <2>3, <2>4 DEF MemoryOK, Recording, TypeOK
<1>23. CASE Approve
  BY <1>23, MemoryFrame DEF Approve, ActionApproved, Counting, Live
<1>24. CASE InformationGiven
  <2>1. agent'.iteration = agent.iteration /\ agent'.calls = agent.calls
    BY <1>24 DEF InformationGiven, TypeOK, AgentStates
  <2> QED
    BY <1>24, <2>1, MemoryFrame DEF InformationGiven, Clarification, Counting, Live
<1>25. CASE Signal \/ UNCHANGED vars
  BY <1>25 DEF Signal, vars, MemoryOK, Live, Recording
<1> QED
  BY <1>1, <1>2, <1>3, <1>4, <1>5, <1>6, <1>7, <1>8, <1>9, <1>10, <1>11, <1>12, <1>13,
     <1>14, <1>15, <1>16, <1>17, <1>18, <1>19, <1>20, <1>21, <1>22, <1>23, <1>24, <1>25
     DEF Next, Progress, Operator, Fault

\* A stop asks nothing of the record but that no execution is open.
LEMMA ControlStop ==
  ASSUME ledger' = ledger, pc' = "traceStop", ledger.open = {}
  PROVE  ControlOK'
BY DEF ControlOK, Recording, Recorded

LEMMA ControlStep == Inv /\ Agreement /\ [Next]_vars => ControlOK'
<1> SUFFICES ASSUME TypeOK, PendingOK, EventOK, RecordOK, MemoryOK, ControlOK, Saved, Live',
                    [Next]_vars
             PROVE  ControlOK'
  BY DEF Inv, Agreement, ControlOK
<1> USE DEF Record, TraceThen, Settle, Durable, Only, Recorded, Recording, durable, history
<1>1. CASE ReviewEnds \/ AppendRefused \/ AppendFails \/ ReleaseFails \/ StartFails
           \/ PromptFails \/ PersistenceTraced \/ Crash \/ OperatorClearsLocks
  BY <1>1 DEF ReviewEnds, AppendRefused, AppendFails, ReleaseFails, StartFails, PromptFails,
     PersistenceTraced, Crash, OperatorClearsLocks, Abandon, Exit, Live
<1>2. CASE ResumeRecorded
  BY <1>2 DEF ResumeRecorded, ControlOK, Live, EventStatus
<1>3. CASE Start
  <2>1. CASE aborted
    BY <1>3, <2>1, StopEvent, ControlStop DEF Start, ControlOK, Live
  <2>2. CASE ~aborted
    BY <1>3, <2>2 DEF Start, StartIteration, IterationReserved, ControlOK, Live, Steps
  <2> QED
    BY <2>1, <2>2
<1>4. CASE AppendCommits
  <2>1. /\ ledger' = Apply(ledger, ev) /\ pc = "recording" /\ pc' = "recorded" /\ Live
        /\ UNCHANGED <<pending, ev>> /\ ValidNext(ledger, ev, hasPassedValidation(agent))
    BY <1>4 DEF AppendCommits, Live, CanAppend, Accepts
  <2>2. ledger'.status = EventStatus(ev)
    BY <2>1 DEF Apply
  <2>3. ev.type = "iteration_reserved" => ~ledger'.settled
    BY <2>1 DEF Apply
  <2>4. ev.type = "evaluation_completed" => ledger'.settled /\ ledger'.approved = "none"
    BY <2>1 DEF Apply, ApprovedAfter
  <2>5. ev.type = "action_approved" => ledger'.approved = ev.action
    BY <2>1 DEF Apply, ApprovedAfter
  <2>6. ledger'.open = IF ev.type = "execution_reserved" THEN {ev.attempt} ELSE {}
    BY <2>1 DEF Apply, OpenAfter, ControlOK
  <2>7. ev.type \in Steps => ~pending
    BY <2>1 DEF ControlOK
  <2> QED
    BY <2>1, <2>2, <2>3, <2>4, <2>5, <2>6, <2>7 DEF ControlOK
<1>5. CASE IterationStarts
  <2>1. CASE aborted
    BY <1>5, <2>1, StopEvent, ControlStop DEF IterationStarts, ControlOK, Live
  <2>2. CASE ~aborted
    BY <1>5, <2>2 DEF IterationStarts, ControlOK, Live, EventStatus, Steps
  <2> QED
    BY <2>1, <2>2
<1>6. CASE EvaluationReturns
  BY <1>6 DEF EvaluationReturns, EvaluationCompleted, ControlOK, Live, Steps
<1>7. CASE EvaluationFails
  BY <1>7 DEF EvaluationFails, EvaluationFailed, ControlOK, Live, Steps
<1>8. CASE EvaluationRecorded
  <2>1. CASE aborted
    BY <1>8, <2>1, StopEvent, ControlStop DEF EvaluationRecorded, ControlOK, Live
  <2>2. CASE ~aborted
    BY <1>8, <2>2 DEF EvaluationRecorded, ControlOK, Live, EventStatus, Steps, NoEvent
  <2> QED
    BY <2>1, <2>2
<1>9. CASE FailureRecorded
  BY <1>9 DEF FailureRecorded, ControlOK, Live, EventStatus, NoEvent
<1>10. CASE FailureTraced
  <2>1. CASE aborted
    BY <1>10, <2>1, StopEvent, ControlStop DEF FailureTraced, ControlOK, Live
  <2>2. CASE ~aborted
    BY <1>10, <2>2 DEF FailureTraced, ControlOK, Live
  <2> QED
    BY <2>1, <2>2
<1>11. CASE RecoveryAnswered
  BY <1>11 DEF RecoveryAnswered, ControlOK, Live
<1>12. CASE RecoveryTraced
  <2>1. CASE aborted
    BY <1>12, <2>1, StopEvent, ControlStop DEF RecoveryTraced, ControlOK, Live
  <2>2. CASE ~aborted
    BY <1>12, <2>2 DEF RecoveryTraced, ControlOK, Live, EventOK, Steps
  <2> QED
    BY <2>1, <2>2
<1>13. CASE RecoveryRecorded
  <2>1. CASE aborted
    BY <1>13, <2>1, StopEvent, ControlStop DEF RecoveryRecorded, ControlOK, Live
  <2>2. CASE ~aborted
    BY <1>13, <2>2 DEF RecoveryRecorded, StartIteration, IterationReserved, ControlOK, Live
  <2> QED
    BY <2>1, <2>2
<1>14. CASE PromptStops \/ WaitInterrupted
  BY <1>14, StopEvent, ControlStop DEF PromptStops, WaitInterrupted, ControlOK, Live
<1>15. CASE Reject \/ UserStops
  <2>1. CASE aborted
    BY <1>15, <2>1 DEF Reject, UserStops
  <2>2. CASE ~aborted
    BY <1>15, <2>2 DEF Reject, UserStops, FinishIteration, ControlOK, Live
  <2> QED
    BY <2>1, <2>2
<1>16. CASE OutcomeRecorded
  <2>1. CASE aborted
    BY <1>16, <2>1, StopEvent, ControlStop DEF OutcomeRecorded, FinishIteration, ControlOK, Live
  <2>2. CASE ~aborted
    BY <1>16, <2>2 DEF OutcomeRecorded, FinishIteration, ControlOK, Live, EventOK, EventStatus,
       Steps
  <2> QED
    BY <2>1, <2>2
<1>17. CASE ClarificationRecorded
  BY <1>17 DEF ClarificationRecorded, ControlOK, Live, EventStatus, Steps
<1>18. CASE ApprovalRecorded
  <2>1. ledger.open = {} /\ ~pending /\ ledger.status = "active" /\ ledger.approved = ev.action
    BY <1>18 DEF ApprovalRecorded, ControlOK, Live, EventStatus, Steps
  <2>2. CASE aborted
    BY <1>18, <2>1, <2>2, StopEvent, ControlStop DEF ApprovalRecorded
  <2>3. CASE ~aborted /\ ev.action \in {"ASK_USER", "FINISH"}
    BY <1>18, <2>1, <2>3 DEF ApprovalRecorded, FinishIteration, NoEvent, ControlOK
  <2>4. CASE ~aborted /\ ev.action \in Workers \cup Tools
    BY <1>18, <2>1, <2>4 DEF ApprovalRecorded, ExecutionReserved, ControlOK, Steps
  <2> QED
    BY <1>18, <2>2, <2>3, <2>4 DEF PendingOK, ApprovalRecorded
<1>19. CASE ReservationRecorded
  <2>1. ledger.open = {ev.attempt} /\ ~pending /\ ledger.status = "active"
    BY <1>19 DEF ReservationRecorded, ControlOK, Live, EventStatus, Steps
  <2>2. CASE aborted
    BY <1>19, <2>1, <2>2 DEF ReservationRecorded, ExecutionOutcome, ControlOK, Steps
  <2>3. CASE ~aborted
    BY <1>19, <2>1, <2>3 DEF ReservationRecorded, Launch, ControlOK
  <2> QED
    BY <2>2, <2>3
<1>20. CASE RefreshReturns
  <2>1. CASE aborted
    BY <1>20, <2>1, StopEvent, ControlStop DEF RefreshReturns, ControlOK, Live
  <2>2. CASE ~aborted
    BY <1>20, <2>2 DEF RefreshReturns, Clarification, ControlOK, Live, Steps
  <2> QED
    BY <2>1, <2>2
<1>21. CASE TestsReturn
  BY <1>21 DEF TestsReturn, ExecutionOutcome, ControlOK, Live, Steps
<1>22. CASE ReadReturns
  BY <1>22 DEF ReadReturns, ExecutionOutcome, ControlOK, Live, Steps
<1>23. CASE InspectionReturns
  BY <1>23 DEF InspectionReturns, ExecutionOutcome, ControlOK, Live, Steps
<1>24. CASE WorkerReturns
  BY <1>24 DEF WorkerReturns, ControlOK, Live
<1>25. CASE IterationTraced
  <2>1. CASE ev # NoEvent
    BY <1>25, <2>1 DEF IterationTraced, EventOK, Endings, Steps, ControlOK, Live
  <2>2. CASE ev = NoEvent /\ aborted
    BY <1>25, <2>2, StopEvent, ControlStop DEF IterationTraced, ControlOK, Live
  <2>3. CASE ev = NoEvent /\ ~aborted
    BY <1>25, <2>3 DEF IterationTraced, StartIteration, IterationReserved, ControlOK, Live
  <2> QED
    BY <2>1, <2>2, <2>3
<1>26. CASE StopTraced
  BY <1>26 DEF StopTraced, EventOK, Steps, ControlOK, Live
<1>27. CASE RunEnds \/ TraceFails
  BY <1>27, StopEvent, ControlStop DEF RunEnds, TraceFails, Exit, ControlOK, Live
<1>28. CASE ResumeReview
  BY <1>28 DEF ResumeReview, Resumable, RecordOK, EventOK, ControlOK
<1>29. CASE ReviewContinues
  BY <1>29 DEF ReviewContinues, RunResumed, ControlOK, Live, Steps
<1>30. CASE Approve
  BY <1>30 DEF Approve, ActionApproved, ControlOK, Live, Steps
<1>31. CASE InformationGiven
  <2>1. /\ ledger.open = {} /\ ~pending /\ ledger.status = "active"
        /\ ledger.approved = "ASK_USER"
    BY <1>31 DEF InformationGiven, ControlOK, Live
  <2>2. CASE agent.refresh
    BY <1>31, <2>1, <2>2 DEF InformationGiven, ControlOK
  <2>3. CASE ~agent.refresh
    BY <1>31, <2>1, <2>3 DEF InformationGiven, Clarification, ControlOK, Steps
  <2> QED
    BY <2>2, <2>3
<1>32. CASE Signal \/ UNCHANGED vars
  BY <1>32 DEF Signal, vars, ControlOK, Live
<1> QED
  BY <1>1, <1>2, <1>3, <1>4, <1>5, <1>6, <1>7, <1>8, <1>9, <1>10, <1>11, <1>12, <1>13,
     <1>14, <1>15, <1>16, <1>17, <1>18, <1>19, <1>20, <1>21, <1>22, <1>23, <1>24, <1>25,
     <1>26, <1>27, <1>28, <1>29, <1>30, <1>31, <1>32
     DEF Next, Progress, Operator, Fault

\* A stop is accepted wherever the run may still stop.
LEMMA OfferedStop ==
  ASSUME NEW reason, NEW failed, Stop(reason, failed), ledger' = ledger,
         ledger.status \in {"active", "evaluation_failed"}, ledger.open = {},
         failed => ledger.status = "evaluation_failed", reason # "evaluation_failure"
  PROVE  OfferedOK'
<1>1. /\ ev'.type = "run_stopped"
      /\ ev'.reason = "evaluation_failure" => ledger.status = "evaluation_failed"
  BY StopEvent
<1>2. StopRule(ledger', ev')
  BY <1>1 DEF StopRule
<1> QED
  BY <1>2 DEF OfferedOK, ValidNext, Terminal

\* The next iteration may be reserved while the run is active.
LEMMA OfferedStart ==
  ASSUME TypeOK, StartIteration, ledger' = ledger, ledger.status = "active",
         iteration = ledger.lastIteration, iteration < IterationLimit
  PROVE  OfferedOK'
<1>1. ev'.type = "iteration_reserved" /\ ev'.iteration = iteration + 1
  BY DEF StartIteration, Record, IterationReserved
<1>2. IterationRule(ledger', ev')
  BY <1>1 DEF IterationRule, TypeOK
<1> QED
  BY <1>2 DEF OfferedOK, ValidNext, Terminal

\* The event that waited for its trace entry is offered as it was.
LEMMA OfferedTraced ==
  ASSUME OfferedOK, Saved => Offers, UNCHANGED <<ledger, agent, ev>>, aborted' = aborted,
         pc' = "recording"
  PROVE  OfferedOK'
BY DEF OfferedOK

\* The end of an iteration: an ending that is due, or nothing.
LEMMA OfferedFinish ==
  ASSUME TypeOK, NEW terminal, FinishIteration(terminal), ledger' = ledger,
         agent' = agent, ledger.status = "active", ledger.open = {},
         iteration = ledger.lastIteration,
         terminal = "finished" => ledger.approved = "FINISH" /\ hasPassedValidation(agent)
  PROVE  OfferedOK'
<1>1. CASE aborted
  BY <1>1, OfferedStop DEF FinishIteration
<1>2. CASE ~aborted /\ terminal = "finished"
  <2>1. FinishRule(ledger', ev', hasPassedValidation(agent'))
    BY <1>2 DEF FinishIteration, TraceThen, RunFinished, FinishRule
  <2> QED
    BY <2>1 DEF OfferedOK, ValidNext, Terminal
<1>3. CASE ~aborted /\ terminal = "stopped"
  <2>1. ev' = RunStopped("user", iteration < IterationLimit)
    BY <1>3 DEF FinishIteration, TraceThen
  <2>2. StopRule(ledger', ev')
    BY <2>1 DEF RunStopped, StopRule
  <2> QED
    BY <2>2 DEF OfferedOK, ValidNext, Terminal
<1>4. CASE ~aborted /\ terminal \notin {"finished", "stopped"} /\ iteration = IterationLimit
  <2>1. LimitRule(ledger', ev')
    BY <1>4 DEF FinishIteration, TraceThen, IterationLimitReached, LimitRule
  <2> QED
    BY <2>1 DEF OfferedOK, ValidNext, Terminal
<1>5. CASE ~aborted /\ terminal \notin {"finished", "stopped"} /\ iteration # IterationLimit
  BY <1>5 DEF FinishIteration, TraceThen, NoEvent, OfferedOK, Offers
<1> QED
  BY <1>1, <1>2, <1>3, <1>4, <1>5

\* An outcome is accepted for the attempt that is open.
LEMMA OfferedOutcome ==
  ASSUME NEW attempted, NEW outcome, ev' = ExecutionOutcome(attempted, outcome),
         ledger' = ledger, ledger.status = "active", ledger.open = {attempted}
  PROVE  OfferedOK'
<1>1. OutcomeRule(ledger', ev')
  BY DEF ExecutionOutcome, OutcomeRule
<1> QED
  BY <1>1 DEF OfferedOK, ValidNext, Terminal

LEMMA OfferedStep == Inv /\ Agreement /\ [Next]_vars => OfferedOK'
<1> SUFFICES ASSUME TypeOK, PendingOK, EventOK, RecordOK, MemoryOK, ControlOK, OfferedOK,
                    PassesOK, Saved, Offers', [Next]_vars
             PROVE  OfferedOK'
  BY DEF Inv, Agreement, OfferedOK
<1> USE DEF Record, TraceThen, Settle, Durable, Only, Recorded, Recording, durable, history
<1>1. CASE ReviewEnds \/ AppendRefused \/ AppendFails \/ ReleaseFails \/ StartFails
           \/ PromptFails \/ PersistenceTraced \/ Crash \/ OperatorClearsLocks \/ ResumeReview
           \/ ResumeRecorded \/ AppendCommits \/ FailureRecorded \/ WorkerReturns
  BY <1>1 DEF ReviewEnds, AppendRefused, AppendFails, ReleaseFails, StartFails, PromptFails,
     PersistenceTraced, Crash, OperatorClearsLocks, Abandon, Exit, Offers, ResumeReview,
     ResumeRecorded, AppendCommits, FailureRecorded, WorkerReturns
<1>2. Live => iteration = ledger.lastIteration \/ Recording("iteration_reserved")
  BY DEF MemoryOK, TypeOK
<1>3. CASE Start
  <2>1. ledger.status = "active" /\ ledger.open = {} /\ iteration = ledger.lastIteration
    BY <1>2, <1>3 DEF Start, ControlOK, Live
  <2>2. CASE aborted
    BY <1>3, <2>1, <2>2, OfferedStop DEF Start
  <2>3. CASE ~aborted
    BY <1>3, <2>1, <2>3, OfferedStart DEF Start, PendingOK
  <2> QED
    BY <2>2, <2>3
<1>4. CASE IterationStarts
  <2>1. ledger.status = "active" /\ ledger.open = {} /\ ~pending /\ aborted
    BY <1>4 DEF IterationStarts, ControlOK, Live, Steps, EventStatus, Offers
  <2> QED
    BY <1>4, <2>1, OfferedStop DEF IterationStarts
<1>5. CASE EvaluationReturns \/ EvaluationFails
  <2>1. EvaluationRule(ledger', ev')
    BY <1>2, <1>5 DEF EvaluationReturns, EvaluationFails, EvaluationCompleted, EvaluationFailed,
       EvaluationRule, ControlOK, Live
  <2> QED
    BY <2>1 DEF OfferedOK, ValidNext, Terminal, EvaluationRule
<1>6. CASE EvaluationRecorded
  <2>1. ledger.status = "active" /\ ledger.open = {} /\ ~pending /\ aborted
    BY <1>6 DEF EvaluationRecorded, ControlOK, Live, Steps, EventStatus, Offers
  <2> QED
    BY <1>6, <2>1, OfferedStop DEF EvaluationRecorded
<1>7. CASE FailureTraced
  <2>1. ledger.status = "evaluation_failed" /\ ledger.open = {} /\ iteration = ledger.lastIteration
    BY <1>2, <1>7 DEF FailureTraced, ControlOK, Live
  <2>2. CASE aborted
    BY <1>7, <2>1, <2>2, OfferedStop DEF FailureTraced
  <2>3. CASE ~aborted
    <3>1. ev' = IterationLimitReached /\ iteration = IterationLimit /\ ledger' = ledger
      BY <1>7, <2>3 DEF FailureTraced, Offers, TypeOK
    <3>2. LimitRule(ledger', ev')
      BY <2>1, <3>1 DEF IterationLimitReached, LimitRule
    <3> QED
      BY <2>1, <3>1, <3>2 DEF OfferedOK, ValidNext, Terminal
  <2> QED
    BY <2>2, <2>3
<1>8. CASE RecoveryAnswered
  <2>1. /\ ledger.status = "evaluation_failed" /\ ledger.open = {} /\ ledger.pendingFailure
        /\ segment = ledger.segment
    BY <1>8 DEF RecoveryAnswered, ControlOK, MemoryOK, RecordOK, Live, TypeOK
  <2>2. PICK e \in {RunResumed(segment + 1, TRUE), RunStopped("evaluation_failure", TRUE)} :
          ev' = e
    BY <1>8 DEF RecoveryAnswered
  <2>3. ledger' = ledger
    BY <1>8 DEF RecoveryAnswered
  <2>4. CASE e = RunResumed(segment + 1, TRUE)
    <3>1. ResumeRule(ledger', ev')
      BY <2>1, <2>2, <2>3, <2>4 DEF RunResumed, ResumeRule, TypeOK
    <3> QED
      BY <2>1, <2>3, <3>1 DEF OfferedOK, ValidNext, Terminal
  <2>5. CASE e = RunStopped("evaluation_failure", TRUE)
    <3>1. StopRule(ledger', ev')
      BY <2>1, <2>2, <2>3, <2>5 DEF RunStopped, StopRule
    <3> QED
      BY <2>1, <2>3, <3>1 DEF OfferedOK, ValidNext, Terminal
  <2> QED
    BY <2>2, <2>4, <2>5
<1>9. CASE RecoveryTraced
  <2>1. ledger.status = "evaluation_failed" /\ ledger.open = {}
    BY <1>9 DEF RecoveryTraced, ControlOK, Live
  <2>2. CASE aborted
    BY <1>9, <2>1, <2>2, OfferedStop DEF RecoveryTraced
  <2>3. CASE ~aborted
    BY <1>9, <2>3, OfferedTraced DEF RecoveryTraced, Offers, EventOK
  <2> QED
    BY <2>2, <2>3
<1>10. CASE RecoveryRecorded
  <2>1. ledger.status = "active" /\ ledger.open = {} /\ iteration = ledger.lastIteration
    BY <1>2, <1>10 DEF RecoveryRecorded, ControlOK, Live, EventStatus
  <2>2. CASE aborted
    BY <1>10, <2>1, <2>2, OfferedStop DEF RecoveryRecorded
  <2>3. CASE ~aborted
    BY <1>10, <2>1, <2>3, OfferedStart DEF RecoveryRecorded, PendingOK
  <2> QED
    BY <2>2, <2>3
<1>11. CASE PromptStops \/ WaitInterrupted
  <2>1. /\ ledger.status \in {"active", "evaluation_failed"} /\ ledger.open = {}
        /\ pending => ledger.status = "evaluation_failed"
    BY <1>11 DEF PromptStops, WaitInterrupted, ControlOK, Live
  <2> QED
    BY <1>11, <2>1, OfferedStop DEF PromptStops, WaitInterrupted
<1>12. CASE Reject \/ UserStops
  <2>1. ledger.status = "active" /\ ledger.open = {} /\ iteration = ledger.lastIteration
    BY <1>2, <1>12 DEF Reject, UserStops, ControlOK, Live
  <2> QED
    BY <1>12, <2>1, OfferedFinish DEF Reject, UserStops
<1>13. CASE OutcomeRecorded
  <2>1. ledger.status = "active" /\ ledger.open = {} /\ iteration = ledger.lastIteration
    BY <1>2, <1>13 DEF OutcomeRecorded, ControlOK, Live, EventOK, EventStatus
  <2> QED
    BY <1>13, <2>1, OfferedFinish DEF OutcomeRecorded
<1>14. CASE ClarificationRecorded
  <2>1. ledger.status = "active" /\ ledger.open = {} /\ iteration = ledger.lastIteration
    BY <1>2, <1>14 DEF ClarificationRecorded, ControlOK, Live, EventStatus
  <2>2. ledger' = ledger /\ ev' = IterationLimitReached /\ iteration = IterationLimit
    BY <1>14 DEF ClarificationRecorded, NoEvent, Offers
  <2>3. LimitRule(ledger', ev')
    BY <2>1, <2>2 DEF IterationLimitReached, LimitRule
  <2> QED
    BY <2>1, <2>2, <2>3 DEF OfferedOK, ValidNext, Terminal
<1>15. CASE ApprovalRecorded
  <2>1. /\ ledger.status = "active" /\ ledger.open = {} /\ iteration = ledger.lastIteration
        /\ ~pending /\ ledger.approved = ev.action
    BY <1>2, <1>15 DEF ApprovalRecorded, ControlOK, Live, EventStatus, Steps
  <2>2. CASE aborted
    BY <1>15, <2>1, <2>2, OfferedStop DEF ApprovalRecorded
  <2>3. CASE ~aborted /\ ev.action = "ASK_USER"
    BY <1>15, <2>3 DEF ApprovalRecorded, Offers
  <2>4. CASE ~aborted /\ ev.action = "FINISH"
    <3>1. hasPassedValidation(agent)
      BY <1>15, <2>4 DEF ApprovalRecorded, PassesOK, Live
    <3> QED
      BY <1>15, <2>1, <2>4, <3>1, OfferedFinish DEF ApprovalRecorded
  <2>5. CASE ~aborted /\ ev.action \in Workers \cup Tools
    <3>1. /\ ev' = ExecutionReserved(iteration, Cardinality(ledger.reserved) + 1, ev.action)
          /\ ledger' = ledger
      BY <1>15, <2>5 DEF ApprovalRecorded
    <3>2. Cardinality(ledger.reserved) + 1 \notin ledger.reserved
      BY DEF RecordOK
    <3>3. ev.action \in Workers => ledger.calls[ev.action] < CallLimit
      BY <1>15 DEF ApprovalRecorded, PendingOK, MemoryOK, StateAgrees, Live
    <3>4. ReservationRule(ledger', ev')
      BY <2>1, <3>1, <3>2, <3>3 DEF ExecutionReserved, ReservationRule
    <3> QED
      BY <2>1, <3>1, <3>4 DEF OfferedOK, ValidNext, Terminal
  <2> QED
    BY <1>15, <2>2, <2>3, <2>4, <2>5 DEF PendingOK, ApprovalRecorded
<1>16. CASE ReservationRecorded
  <2>1. ledger.status = "active" /\ ledger.open = {ev.attempt}
    BY <1>16 DEF ReservationRecorded, ControlOK, Live, EventStatus
  <2> QED
    BY <1>16, <2>1, OfferedOutcome DEF ReservationRecorded, Launch, Offers
<1>17. CASE InformationGiven \/ RefreshReturns
  <2>1. /\ ledger.status = "active" /\ ledger.open = {} /\ ~pending
        /\ ledger.approved = "ASK_USER" /\ iteration = ledger.lastIteration
    BY <1>2, <1>17 DEF InformationGiven, RefreshReturns, ControlOK, Live
  <2>2. CASE ev' = Clarification(iteration)
    <3>1. ClarificationRule(ledger', ev')
      BY <1>17, <2>1, <2>2 DEF InformationGiven, RefreshReturns, Clarification, ClarificationRule
    <3> QED
      BY <3>1 DEF OfferedOK, ValidNext, Terminal, ClarificationRule
  <2>3. CASE ev' # Clarification(iteration)
    BY <1>17, <2>1, <2>3, OfferedStop DEF InformationGiven, RefreshReturns, Offers
  <2> QED
    BY <2>2, <2>3
<1>18. CASE TestsReturn \/ ReadReturns \/ InspectionReturns
  <2>1. ledger.status = "active" /\ ledger.open = {attempt} /\ ledger' = ledger
    BY <1>18 DEF TestsReturn, ReadReturns, InspectionReturns, ControlOK, Live
  <2>2. PICK ok \in BOOLEAN : Settle(ok)
    BY <1>18 DEF TestsReturn, ReadReturns, InspectionReturns
  <2> QED
    BY <2>1, <2>2, OfferedOutcome
<1>19. CASE IterationTraced
  <2>1. /\ ledger.status = "active" /\ ledger.open = {} /\ iteration = ledger.lastIteration
    BY <1>2, <1>19 DEF IterationTraced, ControlOK, Live
  <2>2. CASE ev # NoEvent
    BY <1>19, <2>2, OfferedTraced DEF IterationTraced, Offers, EventOK
  <2>3. CASE ev = NoEvent /\ aborted
    BY <1>19, <2>1, <2>3, OfferedStop DEF IterationTraced
  <2>4. CASE ev = NoEvent /\ ~aborted
    BY <1>19, <2>1, <2>4, OfferedStart DEF IterationTraced, PendingOK
  <2> QED
    BY <2>2, <2>3, <2>4
<1>20. CASE StopTraced
  BY <1>20, OfferedTraced DEF StopTraced, Offers, EventOK
<1>21. CASE RunEnds
  <2>1. /\ pc' = "traceStop" /\ aborted /\ ev.type = "iteration_limit" /\ ledger' = ledger
        /\ aborted' = aborted /\ Stop("signal", FALSE)
    BY <1>21, StopEvent DEF RunEnds, Exit, Offers
  <2>2. ledger.status = "iteration_limit" /\ ev'.type = "run_stopped"
    BY <1>21, <2>1, StopEvent DEF RunEnds, ControlOK, Live, EventStatus
  <2> QED
    BY <2>1, <2>2 DEF OfferedOK
<1>22. CASE TraceFails
  <2>1. Stop("signal", pending) /\ pc # "traceStop" /\ ledger' = ledger
    BY <1>22 DEF TraceFails, Exit, Offers
  <2>2. /\ ledger.status \in {"active", "evaluation_failed"} /\ ledger.open = {}
        /\ pending => ledger.status = "evaluation_failed"
    BY <1>22, <2>1 DEF TraceFails, ControlOK, Live
  <2> QED
    BY <2>1, <2>2, OfferedStop
<1>23. CASE ReviewContinues
  <2>1. /\ ev' = RunResumed(ledger.segment + 1, ledger.pendingFailure) /\ ledger' = ledger
        /\ ledger.status = "stopped" /\ ledger.open = {}
    BY <1>23 DEF ReviewContinues, ControlOK, Live
  <2>2. ResumeRule(ledger', ev')
    BY <2>1 DEF RunResumed, ResumeRule
  <2> QED
    BY <2>1, <2>2 DEF OfferedOK, ValidNext, Terminal
<1>24. CASE Approve
  <2>1. /\ ledger.status = "active" /\ ledger.settled /\ ledger.approved = "none"
        /\ iteration = ledger.lastIteration /\ ledger' = ledger
    BY <1>2, <1>24 DEF Approve, ControlOK, Live
  <2>2. PICK action \in Actions : Permitted(action) /\ ev' = ActionApproved(iteration, action)
    BY <1>24 DEF Approve
  <2>3. ApprovalRule(ledger', ev')
    BY <2>1, <2>2 DEF Permitted, ActionApproved, ApprovalRule
  <2> QED
    BY <2>1, <2>3 DEF OfferedOK, ValidNext, Terminal
<1>25. CASE Signal \/ UNCHANGED vars
  BY <1>25 DEF Signal, vars, OfferedOK, Offers
<1> QED
  BY <1>1, <1>3, <1>4, <1>5, <1>6, <1>7, <1>8, <1>9, <1>10, <1>11, <1>12, <1>13, <1>14,
     <1>15, <1>16, <1>17, <1>18, <1>19, <1>20, <1>21, <1>22, <1>23, <1>24, <1>25
     DEF Next, Progress, Operator, Fault

\* A step that changes neither the passes nor what they are measured by, and
\* offers nothing that depends on them.
LEMMA PassesFrame ==
  ASSUME PassesOK, Live, pc \notin {"executing", "inspecting"},
         UNCHANGED <<fresh, result>>, agent'.passed = agent.passed, pc' # "review",
         ev'.type \notin {"run_finished", "action_approved", "run_resumed"}
  PROVE  PassesOK'
BY DEF PassesOK, Live

\* The same when the pending event stays what it is.
LEMMA PassesKept ==
  ASSUME PassesOK, Live, pc \notin {"executing", "inspecting", "review"},
         UNCHANGED <<fresh, result, agent, ev, pending>>, pc' # "review"
  PROVE  PassesOK'
BY DEF PassesOK, Live

\* The end of a process: no claim about its passes is left.
LEMMA PassesExit ==
  ASSUME pc' = "idle", ev' = NoEvent
  PROVE  PassesOK'
BY DEF PassesOK, Live, NoEvent

\* The end of an iteration keeps the passes.
LEMMA PassesFinish ==
  ASSUME PassesOK, Live, pc \notin {"executing", "inspecting"}, NEW terminal,
         FinishIteration(terminal), terminal = "finished" => hasPassedValidation(agent),
         UNCHANGED <<fresh, result, agent>>
  PROVE  PassesOK'
<1>1. CASE aborted
  BY <1>1, StopEvent, PassesFrame DEF FinishIteration
<1>2. CASE ~aborted
  BY <1>2 DEF FinishIteration, TraceThen, RunFinished, RunStopped, IterationLimitReached,
     NoEvent, PassesOK, Live
<1> QED
  BY <1>1, <1>2

\* The result of a tool or worker leaves passes that are fresh.
LEMMA PassesSettle ==
  ASSUME NEW ok \in BOOLEAN, Settle(ok), agent'.passed \subseteq fresh', result' = "none"
  PROVE  PassesOK'
<1>1. CASE Saved
  BY <1>1 DEF Settle, Record, ExecutionOutcome, PassesOK
<1>2. CASE ~Saved /\ aborted
  BY <1>2, StopEvent DEF Settle, FinishIteration, PassesOK
<1>3. CASE ~Saved /\ ~aborted
  BY <1>3 DEF Settle, FinishIteration, TraceThen, IterationLimitReached, NoEvent, PassesOK
<1> QED
  BY <1>1, <1>2, <1>3

LEMMA PassesStep == Inv /\ Agreement /\ [Next]_vars => PassesOK'
<1> SUFFICES ASSUME TypeOK, PendingOK, EventOK, PassesOK, [Next]_vars PROVE PassesOK'
  BY DEF Inv, Agreement
<1> USE DEF Record, TraceThen, Durable, Only, Recorded, durable, history
<1>1. CASE ReviewEnds \/ StartFails \/ PromptFails \/ PersistenceTraced \/ Crash
  BY <1>1, PassesExit DEF ReviewEnds, StartFails, PromptFails, PersistenceTraced, Crash, Exit
<1>2. CASE AppendRefused \/ AppendFails \/ ReleaseFails
  <2>1. CASE pc' = "tracePersistence"
    BY <1>2, <2>1 DEF AppendRefused, AppendFails, ReleaseFails, Abandon, Exit, PassesOK, Live
  <2>2. CASE pc' # "tracePersistence"
    BY <1>2, <2>2, PassesExit DEF AppendRefused, AppendFails, ReleaseFails, Abandon, Exit
  <2> QED
    BY <2>1, <2>2
<1>3. CASE OperatorClearsLocks \/ Signal \/ UNCHANGED vars
  BY <1>3 DEF OperatorClearsLocks, Signal, vars, PassesOK, Live
<1>4. CASE ResumeReview
  BY <1>4 DEF ResumeReview, refreshResumeState, PassesOK, PendingOK, NoEvent, TypeOK, AgentStates
<1>5. CASE ReviewContinues
  BY <1>5 DEF ReviewContinues, RunResumed, PassesOK, Live
<1>6. CASE ResumeRecorded
  BY <1>6 DEF ResumeRecorded, NoEvent, PassesOK, Live
<1>7. CASE Start \/ RecoveryRecorded \/ (IterationTraced /\ ev = NoEvent)
  <2>1. /\ Live /\ pc \notin {"executing", "inspecting"} /\ pc' # "review"
        /\ UNCHANGED <<fresh, result>> /\ agent'.passed = agent.passed
    BY <1>7 DEF Start, RecoveryRecorded, IterationTraced, StartIteration, Stop, Live, TypeOK,
       AgentStates
  <2>2. ev'.type \in {"run_stopped", "iteration_reserved"}
    <3>1. (\E failed : Stop("signal", failed)) \/ StartIteration
      BY <1>7 DEF Start, RecoveryRecorded, IterationTraced
    <3>2. StartIteration => ev'.type = "iteration_reserved"
      BY DEF StartIteration, IterationReserved
    <3> QED
      BY <3>1, <3>2, StopEvent
  <2> QED
    BY <2>1, <2>2, PassesFrame
<1>8. CASE IterationTraced /\ ev # NoEvent
  BY <1>8, PassesKept DEF IterationTraced, Live
<1>9. CASE AppendCommits
  BY <1>9, PassesKept DEF AppendCommits, Live
<1>10. CASE IterationStarts \/ EvaluationRecorded \/ FailureTraced
  <2>1. ev'.type \in {"run_stopped", "none", "iteration_limit"} /\ pc' # "review"
    BY <1>10, StopEvent DEF IterationStarts, EvaluationRecorded, FailureTraced, NoEvent,
       IterationLimitReached
  <2> QED
    BY <1>10, <2>1, PassesFrame DEF IterationStarts, EvaluationRecorded, FailureTraced, Live
<1>11. CASE EvaluationReturns \/ EvaluationFails \/ FailureRecorded
  BY <1>11, PassesFrame DEF EvaluationReturns, EvaluationFails, FailureRecorded,
     EvaluationCompleted, EvaluationFailed, NoEvent, Live
<1>12. CASE RecoveryAnswered
  <2>1. pending' /\ pc = "recovery" /\ pc' = "traceRecovery"
        /\ ev'.type \in {"run_resumed", "run_stopped"}
    BY <1>12 DEF RecoveryAnswered, RunResumed, RunStopped, EventOK
  <2> QED
    BY <1>12, <2>1 DEF RecoveryAnswered, PassesOK, Live
<1>13. CASE RecoveryTraced
  <2>1. CASE aborted
    BY <1>13, <2>1, StopEvent, PassesFrame DEF RecoveryTraced, Live
  <2>2. CASE ~aborted
    BY <1>13, <2>2, PassesKept DEF RecoveryTraced, Live
  <2> QED
    BY <2>1, <2>2
<1>14. CASE PromptStops \/ WaitInterrupted
  BY <1>14, StopEvent, PassesFrame DEF PromptStops, WaitInterrupted, Live
<1>15. CASE Reject \/ UserStops \/ OutcomeRecorded
  BY <1>15, PassesFinish DEF Reject, UserStops, OutcomeRecorded, Live
<1>16. CASE ClarificationRecorded
  BY <1>16, PassesFrame DEF ClarificationRecorded, IterationLimitReached, NoEvent, Live
<1>17. CASE ApprovalRecorded
  <2>1. Live /\ pc = "recorded" /\ UNCHANGED result
    BY <1>17 DEF ApprovalRecorded, Live
  <2>2. CASE aborted
    BY <1>17, <2>1, <2>2, StopEvent, PassesFrame DEF ApprovalRecorded
  <2>3. CASE ~aborted /\ ev.action = "ASK_USER"
    BY <1>17, <2>1, <2>3, PassesFrame DEF ApprovalRecorded, NoEvent
  <2>4. CASE ~aborted /\ ev.action = "FINISH"
    <3>1. hasPassedValidation(agent)
      BY <1>17, <2>1, <2>4 DEF ApprovalRecorded, PassesOK
    <3> QED
      BY <1>17, <2>1, <2>4, <3>1, PassesFinish DEF ApprovalRecorded
  <2>5. CASE ~aborted /\ ev.action \in Workers \cup Tools /\ Saved
    <3>1. agent'.passed = agent.passed
      BY <1>17, <2>5 DEF ApprovalRecorded, TypeOK, AgentStates
    <3> QED
      BY <1>17, <2>1, <2>5, <3>1, PassesFrame DEF ApprovalRecorded, ExecutionReserved
  <2>6. CASE ~aborted /\ ev.action \in Workers \cup Tools /\ ~Saved
    BY <1>17, <2>1, <2>6 DEF ApprovalRecorded, Launch, NoEvent, PassesOK
  <2> QED
    BY <1>17, <2>2, <2>3, <2>4, <2>5, <2>6 DEF PendingOK, ApprovalRecorded
<1>18. CASE ReservationRecorded
  BY <1>18 DEF ReservationRecorded, ExecutionOutcome, Launch, NoEvent, PassesOK, Live
<1>19. CASE InformationGiven \/ RefreshReturns
  <2>1. agent'.passed = agent.passed
    BY <1>19 DEF InformationGiven, RefreshReturns, TypeOK, AgentStates
  <2>2. ev'.type \in {"run_stopped", "none", "clarification_recorded"} /\ pc' # "review"
    <3>1. \/ Stop("signal", FALSE)
          \/ ev' \in {NoEvent, Clarification(iteration)} /\ pc' # "review"
      BY <1>19 DEF InformationGiven, RefreshReturns
    <3>2. NoEvent.type = "none" /\ Clarification(iteration).type = "clarification_recorded"
      BY DEF NoEvent, Clarification
    <3> QED
      BY <3>1, <3>2, StopEvent
  <2> QED
    BY <1>19, <2>1, <2>2, PassesFrame DEF InformationGiven, RefreshReturns, Live
<1>20. CASE TestsReturn
  <2>1. PICK ok \in BOOLEAN, script \in Scripts, covered \in SUBSET Scripts, long \in Overlong :
          /\ script \in covered
          /\ ~(covered \cap agent.required \subseteq agent.passed)
          /\ aborted => ~ok
          /\ agent' = [agent EXCEPT
               !.passed = Passes(@, ok, script, covered), !.overlong = @ \/ long,
               !.tests = agent.required \subseteq Passes(agent.passed, ok, script, covered)]
          /\ fresh' = Passes(fresh, ok, script, covered)
          /\ Settle(ok)
    BY <1>20, Zenon DEF TestsReturn
  <2>2. agent.passed \subseteq fresh /\ result' = "none"
    BY <1>20 DEF TestsReturn, PassesOK, Live
  <2>3. agent'.passed = Passes(agent.passed, ok, script, covered)
    BY <2>1 DEF TypeOK, AgentStates
  <2> QED
    BY <2>1, <2>2, <2>3, PassesSettle DEF Passes
<1>21. CASE ReadReturns
  <2>1. PICK ok \in BOOLEAN : Settle(ok)
    BY <1>21 DEF ReadReturns
  <2>2. agent'.passed = agent.passed
    BY <1>21 DEF ReadReturns, TypeOK, AgentStates
  <2>3. agent'.passed \subseteq fresh' /\ result' = "none"
    BY <1>21, <2>2 DEF ReadReturns, PassesOK, Live
  <2> QED
    BY <2>1, <2>3, PassesSettle
<1>22. CASE WorkerReturns
  BY <1>22 DEF WorkerReturns, PassesOK, Live
<1>23. CASE InspectionReturns
  <2>1. PICK ok \in BOOLEAN : Settle(ok)
    BY <1>23 DEF InspectionReturns
  <2>2. agent'.passed = {} /\ result' = "none"
    BY <1>23 DEF InspectionReturns, TypeOK, AgentStates, PassesOK
  <2> QED
    BY <2>1, <2>2, PassesSettle
<1>24. CASE StopTraced
  <2>1. CASE Saved
    BY <1>24, <2>1, PassesKept DEF StopTraced, Live
  <2>2. CASE ~Saved
    BY <1>24, <2>2, PassesExit DEF StopTraced, Exit
  <2> QED
    BY <2>1, <2>2
<1>25. CASE RunEnds \/ TraceFails
  <2>1. CASE pc' = "traceStop"
    <3>1. ev'.type = "run_stopped" /\ UNCHANGED <<agent, result, fresh>> /\ Live
      BY <1>25, <2>1, StopEvent DEF RunEnds, TraceFails, Exit, Live
    <3> QED
      BY <1>25, <2>1, <3>1, PassesFrame DEF RunEnds, TraceFails
  <2>2. CASE pc' # "traceStop"
    <3>1. pc' = "idle" /\ ev' = NoEvent
      BY <1>25, <2>2, StopEvent DEF RunEnds, TraceFails, Exit
    <3> QED
      BY <3>1, PassesExit
  <2> QED
    BY <2>1, <2>2
<1>26. CASE Approve
  <2>1. PICK action \in Actions : Permitted(action) /\ ev' = ActionApproved(iteration, action)
    BY <1>26 DEF Approve
  <2> QED
    BY <1>26, <2>1 DEF Approve, Permitted, ActionApproved, PassesOK, Live
<1> QED
  BY <1>1, <1>2, <1>3, <1>4, <1>5, <1>6, <1>7, <1>8, <1>9, <1>10, <1>11, <1>12, <1>13,
     <1>14, <1>15, <1>16, <1>17, <1>18, <1>19, <1>20, <1>21, <1>22, <1>23, <1>24, <1>25, <1>26
     DEF Next, Progress, Operator, Fault

LEMMA AgreementInit == Init => Agreement
<1> SUFFICES ASSUME Init PROVE Agreement
  OBVIOUS
<1>1. PICK required \in SUBSET Scripts :
        agent = InitialState(required) /\ saved = agent
  BY DEF Init
<1>2. agent.iteration = 1 /\ agent.calls = [w \in Workers |-> 0] /\ agent.passed = {}
  BY <1>1 DEF InitialState
<1>3. EventOK /\ ControlOK /\ OfferedOK
  BY DEF Init, Created, NoEvent, EventOK, ControlOK, OfferedOK, Offers, Recording, Recorded, Steps,
     Endings
<1>4. Cardinality({}) = 0 /\ 1..0 = {}
  BY FS_EmptySet
<1>5. RecordOK
  BY <1>1, <1>2, <1>4 DEF Init, Created, RecordOK, StateAgrees
<1>6. MemoryOK
  BY <1>2 DEF Init, Created, MemoryOK, StateAgrees, Recording, Recorded
<1>7. PassesOK
  BY <1>2 DEF Init, NoEvent, PassesOK
<1> QED
  BY <1>3, <1>5, <1>6, <1>7 DEF Agreement

THEOREM AgreementHolds == Spec => [](Inv /\ Agreement)
<1>1. Init => Inv /\ Agreement
  BY InvInit, AgreementInit
<1>2. (Inv /\ Agreement) /\ [Next]_vars => (Inv /\ Agreement)'
  BY TypeOKStep, PendingOKStep, LaunchesStep, EventStep, RecordStep, MemoryStep, ControlStep,
     OfferedStep, PassesStep DEF Inv, Agreement
<1> QED
  BY <1>1, <1>2, PTL DEF Spec

-----------------------------------------------------------------------------
\* A run that is over leaves its process one thing to do: to report it, or to
\* notice the signal that came with the iteration limit.
LEMMA OverIsReported ==
  ASSUME Inv, Agreement, Saved, Live
  PROVE  /\ ledger.status = "finished" => Recorded("run_finished")
         /\ ledger.status = "iteration_limit" =>
              \/ Recorded("iteration_limit")
              \/ pc \in {"traceStop", "recording"} /\ ev.type = "run_stopped"
<1> USE DEF Inv, Agreement, Live, Recorded
<1>1. CASE pc = "recorded"
  BY <1>1 DEF ControlOK, EventStatus, EventOK
<1>2. CASE pc \in {"traceStop", "recording"}
  BY <1>2 DEF OfferedOK, Offers, EventOK, ValidNext, Terminal
<1>3. CASE pc \notin {"recorded", "traceStop", "recording"}
  BY <1>3 DEF ControlOK, TypeOK, PCs
<1> QED
  BY <1>1, <1>2, <1>3

\* At any await of an execution, of a worker's process or of the inspection
\* after it, a crash leaves a record that names the attempt as unresolved, for
\* any number of earlier attempts and continuations (loop.ts 960-1010).
THEOREM ExecutionIsOnRecordHolds == Spec => []ExecutionIsOnRecord
<1>1. Inv /\ Agreement => ExecutionIsOnRecord
  BY DEF Agreement, ControlOK, MemoryOK, Live, ExecutionIsOnRecord
<1> QED
  BY <1>1, AgreementHolds, PTL

\* Every record marked stopped can be continued, whatever led to the stop
\* (loop.ts stop, store.ts validateEventSequence, resume.ts resumePosition).
THEOREM StopIsContinuableHolds == Spec => []StopIsContinuable
<1>1. Inv /\ Agreement => StopIsContinuable
  BY DEF Agreement, RecordOK, StateAgrees, StopIsContinuable, Resumable
<1> QED
  BY <1>1, AgreementHolds, PTL

\* The loop and the store agree on the order of events: for all limits the
\* store refuses the loop only for a text, for the length of the ledger or for
\* the stop after the limit (loop.ts against store.ts validateEventSequence).
THEOREM LoopFollowsLedgerRulesHolds == Spec => []LoopFollowsLedgerRules
<1>1. Inv /\ Agreement => LoopFollowsLedgerRules
  <2> SUFFICES ASSUME Inv, Agreement, pc = "recording", ~agent.overlong,
                      ledger.length < EventLimit,
                      ValidNext(ledger, ev, hasPassedValidation(agent))
               PROVE  CanAppend
    BY DEF Inv, PendingOK, Agreement, OfferedOK, Offers, RecordOK, LoopFollowsLedgerRules
  <2>1. Saved /\ Live /\ ~torn
    BY DEF Inv, PendingOK, Agreement, MemoryOK, Live
  <2>2. StateAgrees(Apply(ledger, ev), agent.iteration, agent.calls)
    BY <2>1 DEF Agreement, MemoryOK
  <2>3. AppendGuard(ledger, ev, hasPassedValidation(agent))
    BY DEF ValidNext, AppendGuard, HasRoom, Terminal, ResumeRule, IterationRule, EvaluationRule,
       ApprovalRule, ReservationRule, OutcomeRule, ClarificationRule, StopRule, FinishRule,
       LimitRule
  <2> QED
    BY <2>1, <2>2, <2>3 DEF CanAppend, Accepts
<1> QED
  BY <1>1, AgreementHolds, PTL

\* No process ever works again on a record that left an execution open or an
\* append half written (resume.ts resumePosition, store.ts readUnlocked).
THEOREM UncertainIsFinalHolds == Spec => UncertainIsFinal
<1>1. Inv /\ Agreement /\ [Next]_vars =>
        [pc = "idle" /\ (ledger.open # {} \/ torn) => pc' = "idle"]_vars
  <2> SUFFICES ASSUME Agreement, [Next]_vars, pc = "idle", pc' # "idle"
               PROVE  ledger.open = {} /\ ~torn
    OBVIOUS
  <2>1. ResumeReview
    BY DEF Next, Progress, Operator, Fault, vars, ReviewEnds, ResumeRecorded, Start, AppendCommits,
       AppendRefused, IterationStarts, EvaluationReturns, EvaluationFails, EvaluationRecorded,
       FailureRecorded, FailureTraced, RecoveryTraced, RecoveryRecorded, PromptStops,
       WaitInterrupted, ApprovalRecorded, ReservationRecorded, RefreshReturns, TestsReturn,
       ReadReturns, WorkerReturns, InspectionReturns, OutcomeRecorded, ClarificationRecorded,
       IterationTraced, StopTraced, RunEnds, PersistenceTraced, ReviewContinues,
       RecoveryAnswered, Approve, Reject, UserStops, InformationGiven, OperatorClearsLocks,
       Signal, StartFails, AppendFails, ReleaseFails, PromptFails, TraceFails, Crash, Recorded
  <2> QED
    BY <2>1 DEF ResumeReview, Resumable, Agreement, RecordOK
<1> QED
  BY <1>1, AgreementHolds, PTL DEF Spec, UncertainIsFinal

\* No record becomes stopped, blocked, finished or exhausted before the trace
\* entry of its last step is acknowledged, at whichever await the run ended
\* (loop.ts stop, finishIteration; docs/saved-runs-v1.md).
THEOREM TraceBeforeTerminalEventHolds == Spec => TraceBeforeTerminalEvent
<1>1. Inv /\ Agreement /\ [Next]_vars =>
        [ledger'.status # ledger.status
           /\ ledger'.status \in {"stopped", "finished", "iteration_limit", "blocked"}
         => lastWrite = "trace"]_vars
  <2> SUFFICES ASSUME Inv, Agreement, [Next]_vars, ledger'.status # ledger.status,
                      ledger'.status \in {"stopped", "finished", "iteration_limit", "blocked"}
               PROVE  lastWrite = "trace"
    OBVIOUS
  <2>1. AppendCommits
    BY RecordFrame
  <2>2. pc = "recording" /\ ledger'.status = EventStatus(ev)
    BY <2>1 DEF AppendCommits, Apply
  <2>3. ev.type \in Endings
    BY <2>2 DEF EventStatus, Agreement, EventOK, Steps, Endings
  <2> QED
    BY <2>2, <2>3 DEF Agreement, EventOK
<1> QED
  BY <1>1, AgreementHolds, PTL DEF Spec, TraceBeforeTerminalEvent

\* After a signal no evaluation starts, at whichever await it arrived.
LEMMA NoEvaluationAfterSignal == [Next]_vars /\ aborted => evals' = evals
<1> SUFFICES ASSUME [Next]_vars, aborted PROVE evals' = evals
  OBVIOUS
<1> USE DEF Only, history
<1>1. CASE Progress
  BY <1>1 DEF Progress, ReviewEnds, ResumeRecorded, Start, AppendCommits, AppendRefused,
     IterationStarts, EvaluationReturns, EvaluationFails, EvaluationRecorded, FailureRecorded,
     FailureTraced, RecoveryTraced, RecoveryRecorded, PromptStops, WaitInterrupted,
     ApprovalRecorded, ReservationRecorded, RefreshReturns, TestsReturn, ReadReturns,
     WorkerReturns, InspectionReturns, OutcomeRecorded, ClarificationRecorded,
     IterationTraced, StopTraced, RunEnds, PersistenceTraced
<1>2. CASE Operator
  BY <1>2 DEF Operator, ResumeReview, ReviewContinues, RecoveryAnswered, Approve, Reject,
     UserStops, InformationGiven, OperatorClearsLocks, Signal
<1>3. CASE Fault
  BY <1>3 DEF Fault, StartFails, AppendFails, ReleaseFails, PromptFails, TraceFails, Crash
<1> QED
  BY <1>1, <1>2, <1>3 DEF Next, vars

\* Nor does a tool or a worker.
LEMMA NoLaunchAfterSignal ==
  [Next]_vars /\ aborted /\ pc # "executing" => pc' # "executing"
<1> SUFFICES ASSUME [Next]_vars, aborted, pc # "executing" PROVE pc' # "executing"
  OBVIOUS
<1> USE DEF Record, TraceThen, Stop, FinishIteration, StartIteration, Settle, Recorded
<1>1. CASE ReviewEnds \/ StartFails \/ PromptFails \/ PersistenceTraced \/ Crash
           \/ AppendRefused \/ AppendFails \/ ReleaseFails
  BY <1>1 DEF ReviewEnds, StartFails, PromptFails, PersistenceTraced, Crash, AppendRefused,
     AppendFails, ReleaseFails, Abandon, Exit
<1>2. CASE ResumeRecorded \/ Start \/ AppendCommits \/ IterationStarts \/ EvaluationReturns
           \/ EvaluationFails \/ EvaluationRecorded \/ FailureRecorded \/ FailureTraced
  BY <1>2 DEF ResumeRecorded, Start, AppendCommits, IterationStarts, EvaluationReturns,
     EvaluationFails, EvaluationRecorded, FailureRecorded, FailureTraced
<1>3. CASE RecoveryTraced \/ RecoveryRecorded \/ PromptStops \/ WaitInterrupted \/ RefreshReturns
  BY <1>3 DEF RecoveryTraced, RecoveryRecorded, PromptStops, WaitInterrupted, RefreshReturns
<1>4. CASE ApprovalRecorded \/ ReservationRecorded
  BY <1>4 DEF ApprovalRecorded, ReservationRecorded
<1>5. CASE TestsReturn \/ ReadReturns \/ WorkerReturns \/ InspectionReturns
  BY <1>5 DEF TestsReturn, ReadReturns, WorkerReturns, InspectionReturns
<1>6. CASE OutcomeRecorded \/ ClarificationRecorded \/ IterationTraced
  BY <1>6 DEF OutcomeRecorded, ClarificationRecorded, IterationTraced
<1>7. CASE StopTraced \/ RunEnds \/ TraceFails
  BY <1>7 DEF StopTraced, RunEnds, TraceFails, Exit
<1>8. CASE ResumeReview \/ ReviewContinues \/ RecoveryAnswered \/ Approve \/ Reject \/ UserStops
           \/ InformationGiven \/ OperatorClearsLocks \/ Signal \/ UNCHANGED vars
  BY <1>8 DEF ResumeReview, ReviewContinues, RecoveryAnswered, Approve, Reject, UserStops,
     InformationGiven, OperatorClearsLocks, Signal, vars
<1> QED
  BY <1>1, <1>2, <1>3, <1>4, <1>5, <1>6, <1>7, <1>8 DEF Next, Progress, Operator, Fault

\* A signal is the last thing an await answers to: whichever await it arrives
\* in, no evaluation, tool or worker starts after it (loop.ts
\* throwIfInterrupted, interruptible).
THEOREM NoWorkAfterSignalHolds == Spec => NoWorkAfterSignal
<1>1. [Next]_vars => [aborted => evals' = evals /\ (pc' = "executing" => pc = "executing")]_vars
  BY NoEvaluationAfterSignal, NoLaunchAfterSignal
<1> QED
  BY <1>1, PTL DEF Spec, NoWorkAfterSignal

-----------------------------------------------------------------------------
(* How a run ends.                                                         *)

\* The last step of a process that has a record, and what it reports.
LEMMA LastStep ==
  ASSUME [Next]_vars, pc # "idle", pc' = "idle", Saved
  PROVE  \/ ReviewEnds /\ result' = "declined"
         \/ (StartFails \/ PromptFails \/ TraceFails) /\ result' = "error"
         \/ (AppendRefused \/ AppendFails \/ ReleaseFails)
              /\ ev.type = "run_resumed" /\ result' = "error"
         \/ RunEnds /\ result' = CASE ev.type = "run_finished" -> "finished"
                                   [] ev.type = "run_stopped"  -> "stopped"
                                   [] OTHER                    -> "iteration_limit"
         \/ PersistenceTraced /\ result' = "persistence_failure"
         \/ Crash /\ result' = "crashed"
<1> USE DEF Record, TraceThen, Stop, FinishIteration, StartIteration, Settle, Recorded
<1>1. CASE ReviewEnds \/ StartFails \/ PromptFails \/ PersistenceTraced \/ Crash
  BY <1>1 DEF ReviewEnds, StartFails, PromptFails, PersistenceTraced, Crash, Exit
<1>2. CASE AppendRefused \/ AppendFails \/ ReleaseFails
  BY <1>2 DEF AppendRefused, AppendFails, ReleaseFails, Abandon, Exit
<1>3. CASE RunEnds \/ TraceFails
  BY <1>3 DEF RunEnds, TraceFails, Exit
<1>4. CASE ResumeRecorded \/ Start \/ AppendCommits \/ IterationStarts \/ EvaluationReturns
           \/ EvaluationFails \/ EvaluationRecorded \/ FailureRecorded \/ FailureTraced
  BY <1>4 DEF ResumeRecorded, Start, AppendCommits, IterationStarts, EvaluationReturns,
     EvaluationFails, EvaluationRecorded, FailureRecorded, FailureTraced
<1>5. CASE RecoveryTraced \/ RecoveryRecorded \/ PromptStops \/ WaitInterrupted \/ RefreshReturns
  BY <1>5 DEF RecoveryTraced, RecoveryRecorded, PromptStops, WaitInterrupted, RefreshReturns
<1>6. CASE ApprovalRecorded \/ ReservationRecorded
  BY <1>6 DEF ApprovalRecorded, ReservationRecorded, Launch
<1>7. CASE TestsReturn \/ ReadReturns \/ WorkerReturns \/ InspectionReturns
  BY <1>7 DEF TestsReturn, ReadReturns, WorkerReturns, InspectionReturns
<1>8. CASE OutcomeRecorded \/ ClarificationRecorded \/ IterationTraced \/ StopTraced
  BY <1>8 DEF OutcomeRecorded, ClarificationRecorded, IterationTraced, StopTraced
<1>9. CASE ResumeReview \/ ReviewContinues \/ RecoveryAnswered \/ Approve \/ Reject \/ UserStops
           \/ InformationGiven \/ OperatorClearsLocks \/ Signal \/ UNCHANGED vars
  BY <1>9 DEF ResumeReview, ReviewContinues, RecoveryAnswered, Approve, Reject, UserStops,
     InformationGiven, OperatorClearsLocks, Signal, vars
<1> QED
  BY <1>1, <1>2, <1>3, <1>4, <1>5, <1>6, <1>7, <1>8, <1>9 DEF Next, Progress, Operator, Fault

\* Between two processes nothing happens to the record or the report.
LEMMA IdleFrame ==
  ASSUME [Next]_vars, pc = "idle", pc' = "idle"
  PROVE  UNCHANGED <<ledger, saved, agent, result, fresh>>
<1>1. OperatorClearsLocks \/ UNCHANGED vars
  BY DEF Next, Progress, Operator, Fault, ReviewEnds, ResumeRecorded, Start, AppendCommits,
     AppendRefused, IterationStarts, EvaluationReturns, EvaluationFails, EvaluationRecorded,
     FailureRecorded, FailureTraced, RecoveryTraced, RecoveryRecorded, PromptStops,
     WaitInterrupted, ApprovalRecorded, ReservationRecorded, RefreshReturns, TestsReturn,
     ReadReturns, WorkerReturns, InspectionReturns, OutcomeRecorded, ClarificationRecorded,
     IterationTraced, StopTraced, RunEnds, PersistenceTraced, ResumeReview, ReviewContinues,
     RecoveryAnswered, Approve, Reject, UserStops, InformationGiven, Signal, StartFails,
     AppendFails, ReleaseFails, PromptFails, TraceFails, Crash, Recorded
<1> QED
  BY <1>1 DEF OperatorClearsLocks, vars, durable, history

LEMMA ResultStep ==
  Inv /\ Agreement /\ ResultMatchesRecord /\ [Next]_vars => ResultMatchesRecord'
<1> SUFFICES ASSUME Inv, Agreement, ResultMatchesRecord, [Next]_vars, pc' = "idle", Saved
             PROVE  ResultMatchesRecord'
  BY DEF ResultMatchesRecord
<1>1. CASE pc = "idle"
  BY <1>1, IdleFrame DEF ResultMatchesRecord
<1>2. CASE pc # "idle"
  <2>1. ledger' = ledger
    BY RecordFrame DEF AppendCommits
  <2>2. CASE ReviewEnds /\ result' = "declined"
    <3>1. ledger.status = "stopped"
      BY <2>2 DEF ReviewEnds, Agreement, ControlOK, Live
    <3> QED
      BY <2>1, <2>2, <3>1 DEF ResultMatchesRecord
  <2>3. CASE (StartFails \/ PromptFails \/ TraceFails) /\ result' = "error"
    <3>1. ledger.status # "finished"
      BY <2>3, OverIsReported DEF StartFails, PromptFails, TraceFails, Live, Recorded
    <3> QED
      BY <2>1, <2>3, <3>1 DEF ResultMatchesRecord
  <2>4. CASE (AppendRefused \/ AppendFails \/ ReleaseFails)
               /\ ev.type = "run_resumed" /\ result' = "error"
    <3>1. ledger.status # "finished"
      BY <2>4, OverIsReported DEF AppendRefused, AppendFails, ReleaseFails, Live, Recorded
    <3> QED
      BY <2>1, <2>4, <3>1 DEF ResultMatchesRecord
  <2>5. CASE RunEnds /\ result' = CASE ev.type = "run_finished" -> "finished"
                                    [] ev.type = "run_stopped"  -> "stopped"
                                    [] OTHER                    -> "iteration_limit"
    <3>1. ledger.status = EventStatus(ev)
          /\ ev.type \in {"run_finished", "run_stopped", "iteration_limit"}
      BY <2>5 DEF RunEnds, Agreement, ControlOK, Live
    <3> QED
      BY <2>1, <2>5, <3>1 DEF EventStatus, ResultMatchesRecord
  <2>6. CASE result' \in {"persistence_failure", "crashed"}
    BY <2>1, <2>6 DEF ResultMatchesRecord
  <2> QED
    BY <1>2, <2>2, <2>3, <2>4, <2>5, <2>6, LastStep
<1> QED
  BY <1>1, <1>2

\* Who changes the set of fresh passes.
LEMMA FreshFrame ==
  [Next]_vars => \/ fresh' = fresh
                 \/ ResumeRecorded \/ ApprovalRecorded \/ ReservationRecorded \/ TestsReturn
<1> SUFFICES ASSUME [Next]_vars,
                    ~(ResumeRecorded \/ ApprovalRecorded \/ ReservationRecorded \/ TestsReturn)
             PROVE  fresh' = fresh
  OBVIOUS
<1> USE DEF Only, history
<1>1. CASE Progress
  BY <1>1 DEF Progress, ReviewEnds, Start, AppendCommits, AppendRefused, IterationStarts,
     EvaluationReturns, EvaluationFails, EvaluationRecorded, FailureRecorded, FailureTraced,
     RecoveryTraced, RecoveryRecorded, PromptStops, WaitInterrupted, RefreshReturns,
     ReadReturns, WorkerReturns, InspectionReturns, OutcomeRecorded, ClarificationRecorded,
     IterationTraced, StopTraced, RunEnds, PersistenceTraced
<1>2. CASE Operator
  BY <1>2 DEF Operator, ResumeReview, ReviewContinues, RecoveryAnswered, Approve, Reject,
     UserStops, InformationGiven, OperatorClearsLocks, Signal
<1>3. CASE Fault
  BY <1>3 DEF Fault, StartFails, AppendFails, ReleaseFails, PromptFails, TraceFails, Crash
<1> QED
  BY <1>1, <1>2, <1>3 DEF Next, vars

\* Without a record only the end of the run reports that it finished.
LEMMA UnsavedResult ==
  ASSUME [Next]_vars, pc # "idle", pc' = "idle", result' = "finished", ~Saved
  PROVE  RunEnds /\ ev.type = "run_finished" /\ agent' = agent /\ fresh' = fresh
<1> USE DEF Record, TraceThen, Stop, FinishIteration, StartIteration, Settle, Recorded
<1>1. CASE ReviewEnds \/ StartFails \/ PromptFails \/ PersistenceTraced \/ Crash
           \/ AppendRefused \/ AppendFails \/ ReleaseFails
  BY <1>1 DEF ReviewEnds, StartFails, PromptFails, PersistenceTraced, Crash, AppendRefused,
     AppendFails, ReleaseFails, Abandon, Exit
<1>2. CASE RunEnds \/ TraceFails \/ StopTraced
  BY <1>2 DEF RunEnds, TraceFails, StopTraced, Exit, history
<1>3. CASE ResumeRecorded \/ Start \/ AppendCommits \/ IterationStarts \/ EvaluationReturns
           \/ EvaluationFails \/ EvaluationRecorded \/ FailureRecorded \/ FailureTraced
  BY <1>3 DEF ResumeRecorded, Start, AppendCommits, IterationStarts, EvaluationReturns,
     EvaluationFails, EvaluationRecorded, FailureRecorded, FailureTraced
<1>4. CASE RecoveryTraced \/ RecoveryRecorded \/ PromptStops \/ WaitInterrupted \/ RefreshReturns
  BY <1>4 DEF RecoveryTraced, RecoveryRecorded, PromptStops, WaitInterrupted, RefreshReturns
<1>5. CASE ApprovalRecorded \/ ReservationRecorded
  BY <1>5 DEF ApprovalRecorded, ReservationRecorded, Launch
<1>6. CASE TestsReturn \/ ReadReturns \/ WorkerReturns \/ InspectionReturns
  BY <1>6 DEF TestsReturn, ReadReturns, WorkerReturns, InspectionReturns
<1>7. CASE OutcomeRecorded \/ ClarificationRecorded \/ IterationTraced
  BY <1>7 DEF OutcomeRecorded, ClarificationRecorded, IterationTraced
<1>8. CASE ResumeReview \/ ReviewContinues \/ RecoveryAnswered \/ Approve \/ Reject \/ UserStops
           \/ InformationGiven \/ OperatorClearsLocks \/ Signal \/ UNCHANGED vars
  BY <1>8 DEF ResumeReview, ReviewContinues, RecoveryAnswered, Approve, Reject, UserStops,
     InformationGiven, OperatorClearsLocks, Signal, vars
<1> QED
  BY <1>1, <1>2, <1>3, <1>4, <1>5, <1>6, <1>7, <1>8 DEF Next, Progress, Operator, Fault

LEMMA FreshFinishStep ==
  Inv /\ Agreement /\ ResultMatchesRecord /\ FreshFinish /\ [Next]_vars => FreshFinish'
<1> SUFFICES ASSUME Inv, Agreement, ResultMatchesRecord, FreshFinish, [Next]_vars
             PROVE  FreshFinish'
  OBVIOUS
<1>1. ResultMatchesRecord' /\ PassesOK' /\ RecordOK'
  BY ResultStep, PassesStep, RecordStep
<1>2. CASE Saved
  <2> SUFFICES ASSUME ledger'.status = "finished"
               PROVE  saved'.required # {} /\ saved'.required \subseteq fresh'
    BY <1>1, <1>2 DEF FreshFinish, ResultMatchesRecord, PassesOK
  <2>1. CASE AppendCommits
    <3>1. /\ pc = "recording" /\ ledger'.status = EventStatus(ev)
          /\ saved' = agent /\ fresh' = fresh
      BY <2>1 DEF AppendCommits, Apply
    <3>2. ev.type = "run_finished"
      BY <3>1 DEF EventStatus, Agreement, EventOK, Steps, Endings
    <3> QED
      BY <3>1, <3>2 DEF Agreement, PassesOK, Live, hasPassedValidation
  <2>2. CASE UNCHANGED <<ledger, saved>>
    <3>1. ledger.status = "finished"
      BY <2>2
    <3>2. saved.required # {} /\ saved.required \subseteq fresh
      BY <1>2, <3>1 DEF FreshFinish
    <3>3. fresh' = fresh
      BY <1>2, <3>1, FreshFrame, OverIsReported DEF ResumeRecorded, ApprovalRecorded,
         ReservationRecorded, TestsReturn, Recorded, Live
    <3> QED
      BY <2>2, <3>2, <3>3
  <2> QED
    BY <2>1, <2>2, RecordFrame
<1>3. CASE ~Saved
  <2> SUFFICES ASSUME result' = "finished"
               PROVE  agent'.required # {} /\ agent'.required \subseteq fresh'
    BY <1>1, <1>3 DEF FreshFinish, RecordOK, Created
  <2>1. pc' = "idle"
    BY <1>1 DEF PassesOK
  <2>2. CASE pc = "idle"
    BY <1>3, <2>1, <2>2, IdleFrame DEF FreshFinish
  <2>3. CASE pc # "idle"
    <3>1. /\ RunEnds /\ ev.type = "run_finished" /\ agent' = agent /\ fresh' = fresh
      BY <1>3, <2>1, <2>3, UnsavedResult
    <3> QED
      BY <3>1 DEF RunEnds, Agreement, PassesOK, Live, hasPassedValidation
  <2> QED
    BY <2>2, <2>3
<1> QED
  BY <1>2, <1>3

LEMMA EndsHold == Spec => [](Inv /\ Agreement /\ ResultMatchesRecord /\ FreshFinish)
<1>1. Init => Inv /\ Agreement /\ ResultMatchesRecord /\ FreshFinish
  BY InvInit, AgreementInit DEF Init, Created, ResultMatchesRecord, FreshFinish
<1>2. (Inv /\ Agreement /\ ResultMatchesRecord /\ FreshFinish) /\ [Next]_vars =>
        (Inv /\ Agreement /\ ResultMatchesRecord /\ FreshFinish)'
  BY TypeOKStep, PendingOKStep, LaunchesStep, EventStep, RecordStep, MemoryStep, ControlStep,
     OfferedStep, PassesStep, ResultStep, FreshFinishStep DEF Inv, Agreement
<1> QED
  BY <1>1, <1>2, PTL DEF Spec

\* What a process reports agrees with the record it leaves, whichever write or
\* confirmation failed on the way (loop.ts, cli.ts).
THEOREM ResultMatchesRecordHolds == Spec => []ResultMatchesRecord
BY EndsHold, PTL

\* A run finishes only with every required check passed after the last worker
\* and the last continuation, whatever the scripts, saved or not (loop.ts
\* hasPassedValidation, cli.ts refreshResumeState).
THEOREM FreshFinishHolds == Spec => []FreshFinish
BY EndsHold, PTL

=============================================================================

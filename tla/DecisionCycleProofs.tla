------------------------- MODULE DecisionCycleProofs -------------------------
(***************************************************************************)
(* Proofs about DecisionCycle for every repository, set of checks,         *)
(* worker selection, number of iterations, calls and stops.                *)
(*                                                                         *)
(* What is decided is decided from the agent state; what the properties    *)
(* speak of is the history of the worktree.  The invariant says how the    *)
(* two relate: which checks of the state are about a script that did not   *)
(* pass or did not fail on the worktree, and which failed proposals are    *)
(* remembered because nothing relevant to them was learned.                *)
(***************************************************************************)
EXTENDS DecisionCycle, TLAPS

-----------------------------------------------------------------------------
(* The invariant.                                                          *)

\* The results that say something of a script.
About(st, x) ==
  {v \in current(st) : x \in (IF v.passed THEN Covered(st, v.script) ELSE {v.script})}

\* The later one of them than any other.
Latest(st, x, v) ==
  v \in About(st, x) /\ \A w \in About(st, x) : w = v \/ w.iteration < v.iteration

\* The state has its fields, and the counters are numbers.
Fields ==
  /\ DOMAIN s = {"repo", "linked", "iteration", "read", "requiredFiles", "tests", "calls",
                 "failedApproaches", "revision", "generation", "issue", "issueFailed",
                 "clarifications", "validations", "lastCheck", "worker", "refresh"}
  /\ \E r \in Repositories : s.repo.scripts = r.scripts
  /\ s.iteration \in Nat /\ s.generation \in Nat
  /\ s.calls \in [Workers -> Nat]
  /\ s.worker.agent \in Workers \cup {"none"}
  /\ s.refresh \in BOOLEAN

\* A check is of an iteration and a worktree there were; while a proposal is
\* under review, of an earlier iteration.
ChecksOK ==
  /\ \A v \in s.validations :
       /\ v.iteration \in Nat /\ v.iteration <= s.iteration
       /\ v.generation \in Nat /\ v.generation <= s.generation
       /\ v.passed \in BOOLEAN
       /\ (phase = "review" => v.iteration < s.iteration)
  /\ s.refresh => current(s) = {}

\* What the state says of a script that did not pass on this worktree.
VerifiedOK ==
  \A x :
    \/ x \in verified
    \/ About(s, x) = {}
    \/ \E v : ~v.passed /\ Latest(s, x, v)

\* What the state says of a script that did not fail: it may still hold a
\* failure that a pass made up for, once a check that covers both failed.
RedOK ==
  /\ \A x :
       \/ x \in red
       \/ About(s, x) = {}
       \/ \E v : v.passed /\ Latest(s, x, v)
       \/ \E y \in red : x \in Covered(s, y)
  /\ s.tests = "not_run" => red = {}

\* The last worker was called.
WorkersOK == s.worker.agent \in Workers => s.calls[s.worker.agent] > 0

\* A question never counts as failed, and a failed proposal is on record until
\* something relevant to it was learned.
FailuresOK ==
  /\ \A sig \in s.failedApproaches : sig.action # "ASK_USER"
  /\ \A f \in spent :
       /\ f = [proposal |-> f.proposal, since |-> f.since]
       /\ (f.since \cap Relevant(f.proposal.action) = {}
             => proposalSignature(f.proposal, s) \in s.failedApproaches)

Inv ==
  /\ Fields /\ ChecksOK /\ VerifiedOK /\ RedOK /\ WorkersOK /\ FailuresOK
  /\ FinalChecksAgree /\ FinishVerified /\ RepairIsGrounded
  /\ (phase \notin {"review", "finished"} => policy = NoPolicy)

-----------------------------------------------------------------------------
(* The rules.                                                              *)

\* Of twelve rules whose last always applies, there is a first that does.
LEMMA FirstApplies ==
  ASSUME NEW rule, rule[12]
  PROVE  \E i \in 1..12 : rule[i] /\ \A j \in 1..i-1 : ~rule[j]
<1> DEFINE First == \E i \in 1..12 : rule[i] /\ \A j \in 1..i-1 : ~rule[j]
           None(k) == \A j \in 1..k : ~rule[j]
<1>1. First \/ None(1)
  OBVIOUS
<1>2. First \/ None(2)
  BY <1>1
<1>3. First \/ None(3)
  BY <1>2
<1>4. First \/ None(4)
  BY <1>3
<1>5. First \/ None(5)
  BY <1>4
<1>6. First \/ None(6)
  BY <1>5
<1>7. First \/ None(7)
  BY <1>6
<1>8. First \/ None(8)
  BY <1>7
<1>9. First \/ None(9)
  BY <1>8
<1>10. First \/ None(10)
  BY <1>9
<1>11. First \/ None(11)
  BY <1>10
<1> QED
  BY <1>11

\* The decision is that of one of the rules, and no earlier rule applies.
LEMMA PolicyDecision ==
  ASSUME NEW st, NEW a
  PROVE  \E i \in 1..12 : /\ PolicyRules(st, a)[i][1]
                          /\ \A j \in 1..i-1 : ~PolicyRules(st, a)[j][1]
                          /\ applyPolicy(st, a) = PolicyRules(st, a)[i][2]
<1> DEFINE rules == PolicyRules(st, a)
           rule == [i \in 1..12 |-> rules[i][1]]
<1>1. DOMAIN rules = 1..12 /\ rules[12][1]
  BY DEF PolicyRules
<1> HIDE DEF rules
<1>2. \E i \in DOMAIN rules : rules[i][1] /\ \A j \in 1..i-1 : ~rules[j][1]
  <2>1. rule[12]
    BY <1>1
  <2>2. PICK i \in 1..12 : rule[i] /\ \A j \in 1..i-1 : ~rule[j]
    BY <2>1, FirstApplies
  <2> QED
    BY <1>1, <2>2
<1>3. applyPolicy(st, a)
        = rules[CHOOSE i \in DOMAIN rules : rules[i][1] /\ \A j \in 1..i-1 : ~rules[j][1]][2]
  BY Zenon DEF applyPolicy, rules
<1>4. \E i \in DOMAIN rules : /\ rules[i][1] /\ \A j \in 1..i-1 : ~rules[j][1]
                              /\ applyPolicy(st, a) = rules[i][2]
  BY <1>2, <1>3, Zenon
<1> QED
  BY <1>1, <1>4 DEF rules

\* What policy selects is an action; only a question while an inspection is
\* due, completion only with every check passed, and a worker against a demand
\* for testing only by one of the two exceptions (policy.ts 88-231).
LEMMA PolicySelects ==
  ASSUME NEW st, NEW a \in Assessments, st.worker.agent \in Workers \cup {"none"}
  PROVE  LET selected == applyPolicy(st, a).selected
         IN  /\ selected \in Actions
             /\ st.refresh => selected = "ASK_USER"
             /\ selected = "FINISH" => hasPassedValidation(st)
             /\ selected \in Workers /\ a.test /\ ~hasPassedValidation(st)
                  => firstIssueWorker(st, a) \/ hasWorkerRepairEvidence(st, selected)
<1> DEFINE d == applyPolicy(st, a)
           Holds == /\ d.selected \in Actions
                    /\ st.refresh => d.selected = "ASK_USER"
                    /\ d.selected = "FINISH" => hasPassedValidation(st)
                    /\ d.selected \in Workers /\ a.test /\ ~hasPassedValidation(st)
                         => firstIssueWorker(st, a) \/ hasWorkerRepairEvidence(st, d.selected)
           R(i) == PolicyRules(st, a)[i]
<1>1. PICK i \in 1..12 : R(i)[1] /\ (\A j \in 1..i-1 : ~R(j)[1]) /\ d = R(i)[2]
  BY PolicyDecision
<1>2. /\ R(1)[1] <=> st.refresh \/ a.ask
      /\ R(3)[1] <=> preparationAction(st) # "none"
      /\ R(4)[1] <=> a.complete /\ hasPassedValidation(st)
      /\ R(6)[1] <=> a.test /\ ~hasPassedValidation(st) /\ ~firstIssueWorker(st, a)
      /\ R(8)[1] <=> a.requested = "FINISH"
  BY DEF PolicyRules
<1>3. /\ R(1)[2] = Select("ASK_USER") /\ R(2)[2] = Select("ASK_USER")
      /\ R(3)[2] = Select(preparationAction(st))
      /\ R(4)[2] = Select("FINISH") /\ R(5)[2] = Select("ASK_USER")
      /\ R(6)[2] = Select(IF a.clear /\ hasWorkerRepairEvidence(st, a.requested)
                         THEN a.requested ELSE requireValidation(st))
      /\ R(7)[2] = Review("ASK_USER", IF a.clear THEN "jev_finish" ELSE "none")
      /\ R(8)[2] = Select(requireValidation(st)) /\ R(9)[2] = Select("ASK_USER")
      /\ R(10)[2] = Review("ASK_USER", "validation_complete")
      /\ R(11)[2] = Review("READ_FILE", "validated_inspection")
      /\ R(12)[2] = Select(a.requested)
  BY DEF PolicyRules
<1>4. /\ preparationAction(st) \in {"READ_ISSUE", "ASK_USER", "READ_FILE", "none"}
      /\ requireValidation(st) \in {"ASK_USER", "RUN_TESTS"}
      /\ hasWorkerRepairEvidence(st, a.requested) => a.requested \in Workers
      /\ a.requested \in Actions
  BY DEF preparationAction, requireValidation, hasWorkerRepairEvidence, Assessments
<1> SUFFICES Holds
  OBVIOUS
<1> HIDE DEF d, R
<1>5. CASE i \in {1, 2, 5, 7, 9, 10}
  <2>1. d.selected = "ASK_USER"
    BY <1>1, <1>3, <1>5 DEF Select, Review
  <2> QED
    BY <2>1 DEF Actions, Workers
<1>6. CASE i \in {3, 8, 11}
  <2>1. ~st.refresh
    BY <1>1, <1>2, <1>6
  <2>2. d.selected \in {"READ_ISSUE", "ASK_USER", "READ_FILE", "RUN_TESTS"}
    BY <1>1, <1>2, <1>3, <1>4, <1>6 DEF Select, Review
  <2> QED
    BY <2>1, <2>2 DEF Actions, Workers
<1>7. CASE i = 4
  <2>1. d.selected = "FINISH" /\ hasPassedValidation(st) /\ ~st.refresh
    BY <1>1, <1>2, <1>3, <1>7 DEF Select
  <2> QED
    BY <2>1 DEF Actions, Workers
<1>8. CASE i = 6
  <2>1. ~st.refresh
    BY <1>1, <1>2, <1>8
  <2>2. CASE d.selected \in {"ASK_USER", "RUN_TESTS"}
    BY <2>1, <2>2 DEF Actions, Workers
  <2>3. CASE d.selected = a.requested /\ hasWorkerRepairEvidence(st, a.requested)
    BY <1>4, <2>1, <2>3 DEF Actions, Workers
  <2> QED
    BY <1>1, <1>3, <1>4, <1>8, <2>2, <2>3 DEF Select
<1>9. CASE i = 12
  <2>1. d.selected = a.requested
    BY <1>1, <1>3, <1>9 DEF Select
  <2>2. ~R(1)[1] /\ ~R(6)[1] /\ ~R(8)[1]
    BY <1>1, <1>9
  <2>3. /\ ~st.refresh /\ a.requested # "FINISH"
        /\ ~(a.test /\ ~hasPassedValidation(st) /\ ~firstIssueWorker(st, a))
    BY <1>2, <2>2
  <2> QED
    BY <1>4, <2>1, <2>3
<1> QED
  BY <1>1, <1>5, <1>6, <1>7, <1>8, <1>9

\* A proposal of the candidate rules passes the final checks; a question always
\* does, and completion is proposed for completion only (candidate.ts).
LEMMA CandidatePasses ==
  ASSUME NEW st, NEW action \in Actions,
         \A sig \in st.failedApproaches : sig.action # "ASK_USER"
  PROVE  LET p == Candidate(action, st)
         IN  /\ p.action \in {action, "ASK_USER"}
             /\ ~failedBefore(p, st)
             /\ p.action \in Workers => st.calls[p.action] < CallLimit
             /\ p.action = "RUN_TESTS" => selectPendingValidation(st) # "none"
             /\ requiresTaskPreparation(p.action) => preparationAction(st) = "none"
             /\ isWorkerActionAllowed(p.action)
<1> DEFINE q == selectCandidate(action, st)
           p == Candidate(action, st)
<1>1. /\ AskUser.action = "ASK_USER" /\ ~failedBefore(AskUser, st)
      /\ ~requiresTaskPreparation("ASK_USER") /\ isWorkerActionAllowed("ASK_USER")
      /\ "ASK_USER" \notin Workers
  BY DEF AskUser, Propose, failedBefore, proposalSignature, requiresTaskPreparation,
     isWorkerActionAllowed, Workers
<1>2. \/ q = AskUser
      \/ /\ q.action = action
         /\ isWorkerActionAllowed(action)
         /\ requiresTaskPreparation(action) => preparationAction(st) = "none"
         /\ action = "RUN_TESTS" => selectPendingValidation(st) # "none"
         /\ action \in Workers => st.calls[action] < CallLimit
  BY DEF selectCandidate, Propose
<1>3. p = IF failedBefore(q, st) THEN AskUser ELSE q
  BY DEF Candidate
<1> HIDE DEF p, q
<1>4. CASE p = AskUser
  BY <1>1, <1>4 DEF p
<1>5. CASE p = q /\ p # AskUser /\ ~failedBefore(q, st)
  BY <1>2, <1>5 DEF p
<1> QED
  BY <1>3, <1>4, <1>5

-----------------------------------------------------------------------------
(* What the actions do to the agent state.                                 *)

\* A step that neither tests nor changes the worktree.
Calm ==
  /\ DOMAIN s' = DOMAIN s
  /\ s'.generation = s.generation /\ s'.validations = s.validations /\ s'.tests = s.tests
  /\ s'.calls = s.calls /\ s'.worker = s.worker /\ s'.lastCheck = s.lastCheck
  /\ \/ s'.repo = s.repo /\ s'.refresh = s.refresh
     \/ s.refresh /\ s'.refresh = FALSE /\ s'.repo \in Repositories
  /\ \/ s'.iteration = s.iteration /\ (phase' = "review" => phase = "review")
     \/ s'.iteration = s.iteration + 1
  /\ UNCHANGED <<verified, red>>

Thinking == Evaluate \/ EvaluationFails
Waiting == Alternative \/ Reject \/ Stop \/ Finish \/ UNCHANGED vars
Looking == AskForInformation \/ SearchRepo \/ ReadFile \/ ReadIssue

\* The fields of the state after one, two or three assignments.
LEMMA ThinkingIsCalm == Fields /\ Thinking => Calm
<1> SUFFICES ASSUME Fields, Thinking PROVE Calm
  OBVIOUS
<1>1. s' = [s EXCEPT !.iteration = @ + 1] /\ UNCHANGED <<verified, red>>
  BY DEF Thinking, Evaluate, EvaluationFails, NextIteration, history
<1> QED
  BY <1>1 DEF Calm, Fields

LEMMA WaitingIsCalm == Fields /\ Waiting => Calm
<1> SUFFICES ASSUME Fields, Waiting PROVE Calm
  OBVIOUS
<1>1. s' = s /\ UNCHANGED <<verified, red>> /\ (phase' = "review" => phase = "review")
  BY DEF Waiting, Alternative, Reject, Return, Stop, Finish, Approve, history, vars
<1> QED
  BY <1>1 DEF Calm

\* Returning from the review ends it.
LEMMA ReturnLeaves ==
  ASSUME NEW next, Return(next)
  PROVE  s' = next /\ phase' \in {"exhausted", "evaluate"} /\ policy' = NoPolicy
BY DEF Return

LEMMA LookingIsCalm == Fields /\ Looking => Calm
<1> SUFFICES ASSUME Fields, Looking PROVE Calm
  OBVIOUS
<1>1. UNCHANGED <<verified, red>>
  BY DEF Looking, AskForInformation, SearchRepo, ReadFile, ReadIssue
<1>2. CASE AskForInformation
  <2>1. PICK t \in Texts \cup {"none"} :
          \/ Return(Answered(t))
          \/ s.refresh /\ \E repo \in Repositories :
               Return([Answered(t) EXCEPT !.repo = repo, !.refresh = FALSE])
    BY <1>2 DEF AskForInformation
  <2> DEFINE n == Answered(t)
  <2>2. /\ DOMAIN n = DOMAIN s
        /\ n.generation = s.generation /\ n.validations = s.validations /\ n.tests = s.tests
        /\ n.calls = s.calls /\ n.worker = s.worker /\ n.lastCheck = s.lastCheck
        /\ n.repo = s.repo /\ n.refresh = s.refresh /\ n.iteration = s.iteration
    BY DEF Answered, Fields
  <2> HIDE DEF n
  <2>3. CASE Return(n)
    BY <1>1, <2>2, <2>3, ReturnLeaves DEF Calm
  <2>4. CASE s.refresh /\ \E repo \in Repositories : Return([n EXCEPT !.repo = repo, !.refresh = FALSE])
    <3>1. PICK repo \in Repositories : Return([n EXCEPT !.repo = repo, !.refresh = FALSE])
      BY <2>4
    <3>2. s' = [n EXCEPT !.repo = repo, !.refresh = FALSE] /\ phase' # "review"
      BY <3>1, ReturnLeaves
    <3> QED
      BY <1>1, <2>2, <2>4, <3>2 DEF Calm, Fields
  <2> QED
    BY <2>1, <2>3, <2>4 DEF n
<1>3. CASE SearchRepo
  <2>1. PICK ok \in BOOLEAN, new \in BOOLEAN :
          Return([Result(ok) EXCEPT !.revision = IF new THEN @ + 1 ELSE @])
    BY <1>3 DEF SearchRepo
  <2>2. s' = [Result(ok) EXCEPT !.revision = IF new THEN @ + 1 ELSE @] /\ phase' # "review"
    BY <2>1, ReturnLeaves
  <2> QED
    BY <1>1, <2>2 DEF Calm, Fields, Result
<1>4. CASE ReadFile
  <2>1. PICK ok \in BOOLEAN :
          Return(IF ok THEN [s EXCEPT !.read = @ \cup {proposal.input}, !.revision = @ + 1]
                 ELSE Result(FALSE))
    BY <1>4 DEF ReadFile
  <2>2. /\ phase' # "review"
        /\ \/ s' = [s EXCEPT !.read = @ \cup {proposal.input}, !.revision = @ + 1]
           \/ s' = Result(FALSE)
    BY <2>1, ReturnLeaves
  <2> QED
    BY <1>1, <2>2 DEF Calm, Fields, Result
<1>5. CASE ReadIssue
  <2>1. \/ \E i \in {"read", "truncated"} : Return([s EXCEPT !.issue = i, !.revision = @ + 1])
        \/ Return([Result(FALSE) EXCEPT !.issueFailed = IF @ = 0 THEN s.iteration ELSE @])
    BY <1>5 DEF ReadIssue
  <2>2. /\ phase' # "review"
        /\ \/ \E i : s' = [s EXCEPT !.issue = i, !.revision = @ + 1]
           \/ s' = [Result(FALSE) EXCEPT !.issueFailed = IF @ = 0 THEN s.iteration ELSE @]
    BY <2>1, ReturnLeaves
  <2> QED
    BY <1>1, <2>2 DEF Calm, Fields, Result
<1> QED
  BY <1>2, <1>3, <1>4, <1>5 DEF Looking

\* The result of a check as it is recorded.
Check(x, ok) == [script |-> x, iteration |-> s.iteration, generation |-> s.generation, passed |-> ok]

\* A check x ran.
Tested(x, ok) ==
  /\ DOMAIN s' = DOMAIN s
  /\ s'.iteration = s.iteration /\ s'.generation = s.generation /\ s'.calls = s.calls
  /\ s'.worker = s.worker /\ s'.repo = s.repo /\ s'.refresh = s.refresh
  /\ s'.tests \in {"failed", "passed", "partial"}
  /\ s'.validations = {v \in current(s) : v.script # x} \cup {Check(x, ok)}
  /\ IF ok THEN verified' = verified \cup Covered(s, x) /\ red' = red \ Covered(s, x)
     ELSE verified' = verified \ {x} /\ red' = red \cup {x}

LEMMA RunTestsEffect ==
  ASSUME Fields, RunTests
  PROVE  /\ \E ok \in BOOLEAN : Tested(proposal.input, ok)
         /\ phase = "review" /\ phase' \in {"exhausted", "evaluate"} /\ policy' = NoPolicy
         /\ proposal.action = "RUN_TESTS" /\ Executable(proposal, s, policy)
<1>1. PICK ok \in BOOLEAN :
        LET next == [Result(ok) EXCEPT
                       !.validations = {v \in current(s) : v.script # proposal.input}
                                         \cup {Check(proposal.input, ok)},
                       !.lastCheck = <<s.generation, proposal.input, ok>>]
        IN  /\ Return([next EXCEPT !.tests =
                          IF hasFailedValidation(next) THEN "failed"
                          ELSE IF pendingValidationScripts(next) = {} THEN "passed" ELSE "partial"])
            /\ IF ok THEN /\ verified' = verified \cup Covered(s, proposal.input)
                          /\ red' = red \ Covered(s, proposal.input)
               ELSE verified' = verified \ {proposal.input} /\ red' = red \cup {proposal.input}
  BY DEF RunTests, Check
<1> DEFINE base == Result(ok)
           next == [base EXCEPT
                      !.validations = {v \in current(s) : v.script # proposal.input}
                                        \cup {Check(proposal.input, ok)},
                      !.lastCheck = <<s.generation, proposal.input, ok>>]
<1>2. /\ DOMAIN base = DOMAIN s /\ base.iteration = s.iteration
      /\ base.generation = s.generation /\ base.calls = s.calls /\ base.worker = s.worker
      /\ base.repo = s.repo /\ base.refresh = s.refresh
  BY DEF Result, Fields
<1> HIDE DEF base
<1>3. \E tests \in {"failed", "passed", "partial"} : s' = [next EXCEPT !.tests = tests]
  <2>1. s' = [next EXCEPT !.tests =
                IF hasFailedValidation(next) THEN "failed"
                ELSE IF pendingValidationScripts(next) = {} THEN "passed" ELSE "partial"]
    BY <1>1, ReturnLeaves DEF base
  <2> HIDE DEF next
  <2> QED
    BY <2>1
<1>4. Tested(proposal.input, ok)
  BY <1>1, <1>2, <1>3 DEF Tested, Fields
<1>5. phase' \in {"exhausted", "evaluate"} /\ policy' = NoPolicy
  BY <1>1, ReturnLeaves DEF base
<1> QED
  BY <1>4, <1>5 DEF RunTests, Approve

\* A worker was called, with the tree inspected afterwards or not.
Worked(w) ==
  /\ DOMAIN s' = DOMAIN s
  /\ s'.iteration = s.iteration /\ s'.generation = s.generation + 1
  /\ s'.validations = s.validations /\ s'.tests = "not_run"
  /\ s'.calls = [s.calls EXCEPT ![w] = @ + 1]
  /\ s'.worker = [agent |-> w, iteration |-> s.iteration]
  /\ \E r \in Repositories : s'.repo.scripts = r.scripts
  /\ s'.refresh \in BOOLEAN
  /\ verified' = {} /\ red' = {}

LEMMA CallWorkerEffect ==
  ASSUME Fields, CallWorker
  PROVE  /\ \E w \in Workers : Worked(w)
         /\ phase = "review" /\ phase' \in {"exhausted", "evaluate"} /\ policy' = NoPolicy
<1>1. proposal.action \in Workers /\ phase = "review" /\ verified' = {} /\ red' = {}
  BY DEF CallWorker, Approve
<1>2. \E ok, inspected \in BOOLEAN, repo \in Repositories \cup {s.repo} :
        Return(Worker(ok, repo, inspected))
  BY DEF CallWorker
<1>3. PICK ok \in BOOLEAN, inspected \in BOOLEAN, repo \in Repositories \cup {s.repo} :
        Return(Worker(ok, repo, inspected))
  BY <1>2
<1>4. s' = Worker(ok, repo, inspected) /\ phase' \in {"exhausted", "evaluate"} /\ policy' = NoPolicy
  BY <1>3, ReturnLeaves
<1> DEFINE base == Result(ok)
<1>5. /\ DOMAIN base = DOMAIN s /\ base.iteration = s.iteration
      /\ base.generation = s.generation /\ base.calls = s.calls
      /\ base.validations = s.validations
  BY DEF Result, Fields
<1>6. s' = [base EXCEPT !.calls[proposal.action] = @ + 1,
                        !.generation = @ + 1,
                        !.worker = [agent |-> proposal.action, iteration |-> s.iteration],
                        !.tests = "not_run",
                        !.repo = repo,
                        !.refresh = ~inspected]
  BY <1>4 DEF Worker
<1> HIDE DEF base
<1>7. \E r \in Repositories : repo.scripts = r.scripts
  BY DEF Fields
<1>8. Worked(proposal.action)
  BY <1>1, <1>5, <1>6, <1>7 DEF Worked, Fields
<1> QED
  BY <1>1, <1>4, <1>8

\* A continuation starts the checks again, on the repository as it is now.
LEMMA ContinueEffect ==
  ASSUME Fields, Continue
  PROVE  /\ DOMAIN s' = DOMAIN s
         /\ s'.iteration = s.iteration /\ s'.generation = s.generation + 1
         /\ s'.calls = s.calls /\ s'.worker = s.worker
         /\ s'.validations = {} /\ s'.refresh = FALSE
         /\ \E r \in Repositories : s'.repo.scripts = r.scripts
         /\ verified' = {} /\ red' = {}
         /\ phase = "stopped" /\ phase' = "evaluate" /\ UNCHANGED policy
<1> DEFINE Kept(repo) == requiredValidationScripts(s) \cup TaskScripts \cup repo.required
<1>1. PICK repo \in Repositories :
        s' = [s EXCEPT !.repo = [repo EXCEPT !.required = Kept(repo)],
                       !.read = {}, !.requiredFiles = ToSet(Instructions),
                       !.tests = "not_run", !.revision = @ + 1, !.generation = @ + 1,
                       !.validations = {}, !.lastCheck = <<>>, !.refresh = FALSE]
  BY DEF Continue
<1> HIDE DEF Kept
<1>2. [repo EXCEPT !.required = Kept(repo)].scripts = repo.scripts
  <2>1. repo = Snapshot(repo.scripts, repo.managed)
    BY CycleAssumption
  <2>2. "scripts" \in DOMAIN repo
    BY <2>1 DEF Snapshot
  <2> QED
    BY <2>2
<1>3. \E r \in Repositories : s'.repo.scripts = r.scripts
  BY <1>1, <1>2 DEF Fields
<1> QED
  BY <1>1, <1>3 DEF Continue, Fields

-----------------------------------------------------------------------------
(* What the checks of a state say.                                         *)

\* They say the same in two states with the same checks and scripts.
LEMMA AboutFrame ==
  ASSUME NEW st, NEW next,
         next.validations = st.validations, next.generation = st.generation,
         next.repo.scripts = st.repo.scripts
  PROVE  /\ current(next) = current(st)
         /\ \A x : Covered(next, x) = Covered(st, x)
         /\ \A x : About(next, x) = About(st, x)
         /\ \A x, v : Latest(next, x, v) <=> Latest(st, x, v)
<1>1. current(next) = current(st)
  BY DEF current
<1>2. \A x : Covered(next, x) = Covered(st, x)
  BY DEF Covered
<1>3. \A x : About(next, x) = About(st, x)
  <2> TAKE x
  <2>1. \A v : (IF v.passed THEN Covered(next, v.script) ELSE {v.script})
              = (IF v.passed THEN Covered(st, v.script) ELSE {v.script})
    BY <1>2
  <2> QED
    BY <1>1, <2>1 DEF About
<1> QED
  BY <1>1, <1>2, <1>3 DEF Latest

\* Nothing about any script where there is no check of this worktree.
LEMMA AboutNothing ==
  ASSUME NEW st, current(st) = {}
  PROVE  \A x : About(st, x) = {}
BY DEF About

\* The latest check decides, if there is one later than the others.
LEMMA LatestDecides ==
  ASSUME NEW st, \A v \in st.validations : v.iteration \in Nat, NEW x, NEW v, Latest(st, x, v)
  PROVE  outcome(st, x) = IF v.passed THEN "passed" ELSE "failed"
<1> DEFINE about == About(st, x)
<1>1. v \in about /\ \A w \in about : w = v \/ w.iteration < v.iteration
  BY DEF Latest
<1>2. \A w \in about : w.iteration \in Nat
  BY DEF About, current
<1>3. outcome(st, x) = IF about = {} THEN "none"
                       ELSE IF (CHOOSE u \in about : \A w \in about : w.iteration <= u.iteration).passed
                            THEN "passed" ELSE "failed"
  BY DEF outcome, About
<1> HIDE DEF about
<1>4. \A w \in about : w.iteration <= v.iteration
  BY <1>1, <1>2
<1>5. \A u \in about : (\A w \in about : w.iteration <= u.iteration) => u = v
  BY <1>1, <1>2
<1>6. (CHOOSE u \in about : \A w \in about : w.iteration <= u.iteration) = v
  BY <1>1, <1>4, <1>5
<1> QED
  BY <1>1, <1>3, <1>6

LEMMA NothingDecides ==
  ASSUME NEW st, NEW x, About(st, x) = {}
  PROVE  outcome(st, x) = "none"
BY DEF outcome, About

\* What a new check x says, and which earlier ones still say what they said.
SpokenFor(x, ok) == IF ok THEN Covered(s, x) ELSE {x}

LEMMA AboutTested ==
  ASSUME Fields, ChecksOK, phase = "review", NEW y, NEW ok \in BOOLEAN, Tested(y, ok)
  PROVE  /\ y \in Covered(s, y)
         /\ \A x : About(s', x) = {v \in About(s, x) : v.script # y}
                                    \cup (IF x \in SpokenFor(y, ok) THEN {Check(y, ok)} ELSE {})
         /\ \A x : \A v \in About(s, x) :
              v.iteration \in Nat /\ v.iteration < s.iteration
                /\ (ok /\ x \notin Covered(s, y) => v.script # y)
                /\ (v.script = y /\ v.passed => x \in Covered(s, y))
<1>1. y \in Covered(s, y)
  BY DEF Covered
<1>2. \A x : Covered(s', x) = Covered(s, x)
  BY DEF Tested, Covered
<1>3. current(s') = {v \in current(s) : v.script # y} \cup {Check(y, ok)}
  BY DEF current, Tested, Check
<1>4. \A x : About(s', x) = {v \in About(s, x) : v.script # y}
                              \cup (IF x \in SpokenFor(y, ok) THEN {Check(y, ok)} ELSE {})
  <2> TAKE x
  <2> DEFINE Says(v) == x \in (IF v.passed THEN Covered(s, v.script) ELSE {v.script})
  <2>1. About(s', x) = {v \in current(s') : Says(v)}
    BY <1>2 DEF About
  <2>2. About(s, x) = {v \in current(s) : Says(v)}
    BY DEF About
  <2>3. Says(Check(y, ok)) <=> x \in SpokenFor(y, ok)
    BY DEF Check, SpokenFor
  <2> HIDE DEF Says
  <2> QED
    BY <1>3, <2>1, <2>2, <2>3
<1>5. \A x : \A v \in About(s, x) :
        v.iteration \in Nat /\ v.iteration < s.iteration
          /\ (ok /\ x \notin Covered(s, y) => v.script # y)
          /\ (v.script = y /\ v.passed => x \in Covered(s, y))
  BY <1>1 DEF About, current, ChecksOK
<1> QED
  BY <1>1, <1>4, <1>5

LEMMA LatestTested ==
  ASSUME Fields, ChecksOK, phase = "review", NEW y, NEW ok \in BOOLEAN, Tested(y, ok)
  PROVE  \A x : /\ x \in SpokenFor(y, ok) => Latest(s', x, Check(y, ok))
                /\ x \notin SpokenFor(y, ok) =>
                     /\ About(s, x) = {} => About(s', x) = {}
                     /\ \A v : Latest(s, x, v) /\ v.script # y => Latest(s', x, v)
<1> TAKE x
<1>1. /\ About(s', x) = {v \in About(s, x) : v.script # y}
                          \cup (IF x \in SpokenFor(y, ok) THEN {Check(y, ok)} ELSE {})
      /\ \A v \in About(s, x) : v.iteration \in Nat /\ v.iteration < s.iteration
  BY AboutTested
<1>2. Check(y, ok).iteration = s.iteration
  BY DEF Check
<1>3. CASE x \in SpokenFor(y, ok)
  BY <1>1, <1>2, <1>3 DEF Latest
<1>4. CASE x \notin SpokenFor(y, ok)
  BY <1>1, <1>4 DEF Latest
<1> QED
  BY <1>3, <1>4

-----------------------------------------------------------------------------
(* The steps.                                                              *)

\* The actions by their effect.
LEMMA NextCases ==
  Fields /\ [Next]_vars => Calm \/ RunTests \/ CallWorker \/ Continue
BY ThinkingIsCalm, WaitingIsCalm, LookingIsCalm DEF Next, Thinking, Waiting, Looking

\* A state without checks of its worktree says nothing of any script.
LEMMA NothingNow ==
  ASSUME current(s') = {}
  PROVE  VerifiedOK' /\ \A x : About(s', x) = {}
BY AboutNothing DEF VerifiedOK

LEMMA FieldsStep == Fields /\ [Next]_vars => Fields'
<1> SUFFICES ASSUME Fields, [Next]_vars PROVE Fields'
  OBVIOUS
<1>1. CASE Calm
  <2>1. \E r \in Repositories : s'.repo.scripts = r.scripts
    BY <1>1 DEF Calm, Fields
  <2>2. s.iteration \in Nat /\ s.generation \in Nat /\ s.refresh \in BOOLEAN
    BY DEF Fields
  <2>3. s'.iteration \in Nat /\ s'.generation \in Nat
    BY <1>1, <2>2 DEF Calm
  <2>4. s'.refresh \in BOOLEAN
    BY <1>1, <2>2, Zenon DEF Calm
  <2> QED
    BY <1>1, <2>1, <2>3, <2>4 DEF Calm, Fields
<1>2. CASE RunTests
  BY <1>2, RunTestsEffect DEF Tested, Fields
<1>3. CASE CallWorker
  <2>1. PICK w \in Workers : Worked(w)
    BY <1>3, CallWorkerEffect
  <2>2. s'.calls \in [Workers -> Nat] /\ s'.worker.agent \in Workers \cup {"none"}
    BY <2>1 DEF Worked, Fields
  <2>3. s'.iteration \in Nat /\ s'.generation \in Nat
    BY <2>1 DEF Worked, Fields
  <2> QED
    BY <2>1, <2>2, <2>3 DEF Worked, Fields
<1>4. CASE Continue
  <2>1. s.iteration \in Nat /\ s.generation \in Nat
    BY DEF Fields
  <2>2. s'.iteration \in Nat /\ s'.generation \in Nat
    BY <1>4, <2>1, ContinueEffect
  <2> QED
    BY <1>4, <2>2, ContinueEffect DEF Fields
<1> QED
  BY <1>1, <1>2, <1>3, <1>4, NextCases

LEMMA ChecksStep == Fields /\ ChecksOK /\ [Next]_vars => ChecksOK'
<1> SUFFICES ASSUME Fields, ChecksOK, [Next]_vars PROVE ChecksOK'
  OBVIOUS
<1>1. CASE Calm
  <2>1. current(s') = current(s)
    BY <1>1 DEF Calm, current
  <2>2. s'.refresh => s.refresh
    BY <1>1 DEF Calm
  <2>3. \A v \in s'.validations :
          /\ v.iteration \in Nat /\ v.iteration <= s'.iteration
          /\ v.generation \in Nat /\ v.generation <= s'.generation
          /\ v.passed \in BOOLEAN
          /\ (phase' = "review" => v.iteration < s'.iteration)
    BY <1>1 DEF Calm, ChecksOK, Fields
  <2> QED
    BY <2>1, <2>2, <2>3 DEF ChecksOK
<1>2. CASE RunTests
  <2>1. PICK ok \in BOOLEAN : Tested(proposal.input, ok)
    BY <1>2, RunTestsEffect
  <2>2. phase' # "review" /\ proposal.action = "RUN_TESTS" /\ ~s.refresh
    BY <1>2, RunTestsEffect DEF Executable
  <2>3. \A v \in s'.validations :
          /\ v.iteration \in Nat /\ v.iteration <= s'.iteration
          /\ v.generation \in Nat /\ v.generation <= s'.generation
          /\ v.passed \in BOOLEAN
    BY <2>1 DEF Tested, Check, current, ChecksOK, Fields
  <2> QED
    BY <2>1, <2>2, <2>3 DEF ChecksOK, Tested
<1>3. CASE CallWorker
  <2>1. PICK w \in Workers : Worked(w)
    BY <1>3, CallWorkerEffect
  <2>2. phase' # "review"
    BY <1>3, CallWorkerEffect
  <2>3. current(s') = {}
    BY <2>1 DEF Worked, current, ChecksOK, Fields
  <2>4. \A v \in s'.validations :
          /\ v.iteration \in Nat /\ v.iteration <= s'.iteration
          /\ v.generation \in Nat /\ v.generation <= s'.generation
          /\ v.passed \in BOOLEAN
    BY <2>1 DEF Worked, ChecksOK, Fields
  <2> QED
    BY <2>2, <2>3, <2>4 DEF ChecksOK
<1>4. CASE Continue
  BY <1>4, ContinueEffect DEF ChecksOK
<1> QED
  BY <1>1, <1>2, <1>3, <1>4, NextCases

LEMMA VerifiedStep == Fields /\ ChecksOK /\ VerifiedOK /\ [Next]_vars => VerifiedOK'
<1> SUFFICES ASSUME Fields, ChecksOK, VerifiedOK, [Next]_vars PROVE VerifiedOK'
  OBVIOUS
<1>1. CASE Calm /\ s'.repo = s.repo
  <2>1. \A x : About(s', x) = About(s, x) /\ \A v : Latest(s', x, v) <=> Latest(s, x, v)
    BY <1>1, AboutFrame DEF Calm
  <2> QED
    BY <1>1, <2>1 DEF Calm, VerifiedOK
<1>2. CASE Calm /\ s'.repo # s.repo
  <2>1. current(s') = {}
    BY <1>2 DEF Calm, ChecksOK, current
  <2> QED
    BY <2>1, NothingNow
<1>3. CASE RunTests
  <2>1. PICK ok \in BOOLEAN : Tested(proposal.input, ok)
    BY <1>3, RunTestsEffect
  <2>2. phase = "review"
    BY <1>3, RunTestsEffect
  <2> DEFINE y == proposal.input
  <2> HIDE DEF y
  <2>3. /\ \A x : \A v \in About(s, x) :
             /\ ok /\ x \notin Covered(s, y) => v.script # y
             /\ v.script = y /\ v.passed => x \in Covered(s, y)
        /\ \A x : /\ x \in SpokenFor(y, ok) => Latest(s', x, Check(y, ok))
                  /\ x \notin SpokenFor(y, ok) =>
                       /\ About(s, x) = {} => About(s', x) = {}
                       /\ \A v : Latest(s, x, v) /\ v.script # y => Latest(s', x, v)
    BY <2>1, <2>2, AboutTested, LatestTested DEF y
  <2> SUFFICES ASSUME NEW x, x \notin verified'
               PROVE  About(s', x) = {} \/ \E v : ~v.passed /\ Latest(s', x, v)
    BY DEF VerifiedOK
  <2>4. CASE ok
    <3>1. x \notin verified /\ x \notin SpokenFor(y, ok)
      BY <2>1, <2>4 DEF Tested, SpokenFor, y
    <3>2. \A v : Latest(s, x, v) => v.script # y
      BY <2>3, <2>4, <3>1 DEF SpokenFor, Latest
    <3> QED
      BY <2>3, <3>1, <3>2 DEF VerifiedOK
  <2>5. CASE ~ok /\ x = y
    <3>1. Latest(s', x, Check(y, ok)) /\ ~Check(y, ok).passed
      BY <2>3, <2>5 DEF SpokenFor, Check
    <3> QED
      BY <3>1
  <2>6. CASE ~ok /\ x # y
    <3>1. x \notin verified /\ x \notin SpokenFor(y, ok)
      BY <2>1, <2>6 DEF Tested, SpokenFor, y
    <3>2. \A v : Latest(s, x, v) /\ ~v.passed => v.script = x
      BY DEF Latest, About
    <3> QED
      BY <2>3, <2>6, <3>1, <3>2 DEF VerifiedOK
  <2> QED
    BY <2>4, <2>5, <2>6
<1>4. CASE CallWorker
  <2> PICK w \in Workers : Worked(w)
    BY <1>4, CallWorkerEffect
  <2>1. current(s') = {}
    BY DEF Worked, current, ChecksOK, Fields
  <2> QED
    BY <2>1, NothingNow
<1>5. CASE Continue
  <2>1. current(s') = {}
    BY <1>5, ContinueEffect DEF current
  <2> QED
    BY <2>1, NothingNow
<1> QED
  BY <1>1, <1>2, <1>3, <1>4, <1>5, NextCases

\* What covers the covering covers the covered.
LEMMA CoverageCloses ==
  ASSUME Fields, NEW x, NEW y, NEW z, y \in Covered(s, x), z \in Covered(s, y)
  PROVE  z \in Covered(s, x)
<1>1. PICK r \in Repositories : s.repo.scripts = r.scripts
  BY DEF Fields
<1>2. \A u \in r.scripts : \A v \in Calls[u] \cap r.scripts : Calls[v] \cap r.scripts \subseteq Calls[u]
  BY CycleAssumption
<1> QED
  BY <1>1, <1>2 DEF Covered

LEMMA RedStep == Fields /\ ChecksOK /\ RedOK /\ [Next]_vars => RedOK'
<1> SUFFICES ASSUME Fields, ChecksOK, RedOK, [Next]_vars PROVE RedOK'
  OBVIOUS
<1>1. CASE Calm /\ s'.repo = s.repo
  <2>1. \A x : /\ About(s', x) = About(s, x) /\ Covered(s', x) = Covered(s, x)
               /\ \A v : Latest(s', x, v) <=> Latest(s, x, v)
    BY <1>1, AboutFrame DEF Calm
  <2> QED
    BY <1>1, <2>1 DEF Calm, RedOK
<1>2. CASE Calm /\ s'.repo # s.repo
  <2>1. current(s') = {}
    BY <1>2 DEF Calm, ChecksOK, current
  <2> QED
    BY <1>2, <2>1, NothingNow DEF RedOK, Calm
<1>3. CASE RunTests
  <2>1. PICK ok \in BOOLEAN : Tested(proposal.input, ok)
    BY <1>3, RunTestsEffect
  <2>2. phase = "review"
    BY <1>3, RunTestsEffect
  <2> DEFINE y == proposal.input
  <2>3. /\ \A x : \A v \in About(s, x) :
             /\ ok /\ x \notin Covered(s, y) => v.script # y
             /\ v.script = y /\ v.passed => x \in Covered(s, y)
        /\ \A x : /\ x \in SpokenFor(y, ok) => Latest(s', x, Check(y, ok))
                  /\ x \notin SpokenFor(y, ok) =>
                       /\ About(s, x) = {} => About(s', x) = {}
                       /\ \A v : Latest(s, x, v) /\ v.script # y => Latest(s', x, v)
    BY <2>1, <2>2, AboutTested, LatestTested
  <2>4. \A x : Covered(s', x) = Covered(s, x)
    BY <2>1 DEF Tested, Covered
  <2>5. s'.tests # "not_run"
    BY <2>1 DEF Tested
  <2>6. IF ok THEN red' = red \ Covered(s, y) ELSE red' = red \cup {y}
    BY <2>1 DEF Tested
  <2> HIDE DEF y
  <2> SUFFICES ASSUME NEW x, x \notin red'
               PROVE  \/ About(s', x) = {} \/ \E v : v.passed /\ Latest(s', x, v)
                      \/ \E z \in red' : x \in Covered(s', z)
    BY <2>5 DEF RedOK
  <2>7. CASE ok /\ x \in Covered(s, y)
    <3>1. Latest(s', x, Check(y, ok)) /\ Check(y, ok).passed
      BY <2>3, <2>7 DEF SpokenFor, Check
    <3> QED
      BY <3>1
  <2>8. CASE ok /\ x \notin Covered(s, y)
    <3>1. x \notin red /\ x \notin SpokenFor(y, ok)
      BY <2>6, <2>8 DEF SpokenFor
    <3>2. \A v : Latest(s, x, v) => v.script # y
      BY <2>3, <2>8 DEF Latest
    <3>3. \A z \in red : x \in Covered(s, z) => z \in red'
      BY <2>6, <2>8, CoverageCloses
    <3> QED
      BY <2>3, <2>4, <3>1, <3>2, <3>3 DEF RedOK
  <2>9. CASE ~ok
    <3>1. x \notin red /\ x # y /\ x \notin SpokenFor(y, ok) /\ y \in red'
      BY <2>6, <2>9 DEF SpokenFor
    <3>2. \A v : Latest(s, x, v) /\ v.passed /\ v.script = y => x \in Covered(s, y)
      BY <2>3 DEF Latest
    <3>3. \A z \in red : z \in red'
      BY <2>6, <2>9
    <3> QED
      BY <2>3, <2>4, <3>1, <3>2, <3>3 DEF RedOK
  <2> QED
    BY <2>7, <2>8, <2>9
<1>4. CASE CallWorker
  <2> PICK w \in Workers : Worked(w)
    BY <1>4, CallWorkerEffect
  <2>1. current(s') = {} /\ red' = {}
    BY DEF Worked, current, ChecksOK, Fields
  <2> QED
    BY <2>1, NothingNow DEF RedOK
<1>5. CASE Continue
  <2>1. current(s') = {} /\ red' = {}
    BY <1>5, ContinueEffect DEF current
  <2> QED
    BY <2>1, NothingNow DEF RedOK
<1> QED
  BY <1>1, <1>2, <1>3, <1>4, <1>5, NextCases

LEMMA WorkersStep == Fields /\ WorkersOK /\ [Next]_vars => WorkersOK'
<1> SUFFICES ASSUME Fields, WorkersOK, [Next]_vars PROVE WorkersOK'
  OBVIOUS
<1>1. CASE Calm
  BY <1>1 DEF Calm, WorkersOK
<1>2. CASE RunTests
  BY <1>2, RunTestsEffect DEF Tested, WorkersOK
<1>3. CASE CallWorker
  <2> PICK w \in Workers : Worked(w)
    BY <1>3, CallWorkerEffect
  <2> QED
    BY DEF Worked, Fields, WorkersOK
<1>4. CASE Continue
  BY <1>4, ContinueEffect DEF WorkersOK
<1> QED
  BY <1>1, <1>2, <1>3, <1>4, NextCases

-----------------------------------------------------------------------------
(* What is remembered of failed proposals.                                 *)

\* The signature of a proposal depends on what is relevant to its action only.
LEMMA SignatureKept ==
  ASSUME NEW p, NEW st, NEW next,
         p.action # "RUN_TESTS" => next.revision = st.revision,
         p.action = "RUN_TESTS" =>
           next.generation = st.generation /\ next.clarifications = st.clarifications,
         p.action \in Workers => next.lastCheck = st.lastCheck
  PROVE  proposalSignature(p, next) = proposalSignature(p, st)
<1>1. "RUN_TESTS" \notin Workers
  BY DEF Workers
<1>2. CASE p.action = "RUN_TESTS"
  <2>1. answers(next) = answers(st)
    BY <1>2 DEF answers
  <2> QED
    BY <1>1, <1>2, <2>1 DEF proposalSignature
<1>3. CASE p.action # "RUN_TESTS"
  BY <1>3 DEF proposalSignature
<1> QED
  BY <1>2, <1>3

\* Learning adds to what every failed proposal has seen since.
LEMMA LearnedIs ==
  ASSUME FailuresOK, NEW kinds, NEW g \in Learned(kinds)
  PROVE  \E f \in spent : g = [proposal |-> f.proposal, since |-> f.since \cup kinds]
<1>1. PICK f \in spent : g = [f EXCEPT !.since = @ \cup kinds]
  BY DEF Learned
<1>2. f = [proposal |-> f.proposal, since |-> f.since]
  BY DEF FailuresOK
<1>3. [[proposal |-> f.proposal, since |-> f.since] EXCEPT !.since = f.since \cup kinds]
        = [proposal |-> f.proposal, since |-> f.since \cup kinds]
  OBVIOUS
<1> QED
  BY <1>1, <1>2, <1>3

\* A step that learns kinds and may fail with the present proposal.
FailureStep(kinds) ==
  /\ s.failedApproaches \subseteq s'.failedApproaches
  /\ \A sig \in s'.failedApproaches \ s.failedApproaches : sig.action # "ASK_USER"
  /\ \A g \in spent' :
       \/ \E f \in spent : g = [proposal |-> f.proposal, since |-> f.since \cup kinds]
       \/ /\ g = [proposal |-> proposal, since |-> {}]
          /\ kinds \cap Relevant(proposal.action) = {}
          /\ proposalSignature(proposal, s) \in s'.failedApproaches
  /\ \A p : kinds \cap Relevant(p.action) = {} =>
       proposalSignature(p, s') = proposalSignature(p, s)

LEMMA FailuresFrame ==
  ASSUME FailuresOK, NEW kinds, FailureStep(kinds)
  PROVE  FailuresOK'
<1>1. \A sig \in s'.failedApproaches : sig.action # "ASK_USER"
  BY DEF FailuresOK, FailureStep
<1>2. ASSUME NEW g \in spent'
      PROVE  /\ g = [proposal |-> g.proposal, since |-> g.since]
             /\ g.since \cap Relevant(g.proposal.action) = {}
                  => proposalSignature(g.proposal, s') \in s'.failedApproaches
  <2>1. CASE \E f \in spent : g = [proposal |-> f.proposal, since |-> f.since \cup kinds]
    <3>1. PICK f \in spent : g = [proposal |-> f.proposal, since |-> f.since \cup kinds]
      BY <2>1
    <3>2. g.proposal = f.proposal /\ g.since = f.since \cup kinds
      BY <3>1
    <3>3. g = [proposal |-> g.proposal, since |-> g.since]
      BY <3>1, <3>2
    <3>4. ASSUME g.since \cap Relevant(g.proposal.action) = {}
          PROVE  proposalSignature(g.proposal, s') \in s'.failedApproaches
      <4>1. /\ f.since \cap Relevant(f.proposal.action) = {}
            /\ kinds \cap Relevant(f.proposal.action) = {}
        BY <3>2, <3>4
      <4>2. proposalSignature(f.proposal, s) \in s.failedApproaches
        BY <4>1 DEF FailuresOK
      <4>3. proposalSignature(f.proposal, s') = proposalSignature(f.proposal, s)
        BY <4>1 DEF FailureStep
      <4> QED
        BY <3>2, <4>2, <4>3 DEF FailureStep
    <3> QED
      BY <3>3, <3>4
  <2>2. CASE /\ g = [proposal |-> proposal, since |-> {}]
             /\ kinds \cap Relevant(proposal.action) = {}
             /\ proposalSignature(proposal, s) \in s'.failedApproaches
    <3>1. g.proposal = proposal /\ g.since = {}
      BY <2>2
    <3>2. proposalSignature(proposal, s') = proposalSignature(proposal, s)
      BY <2>2 DEF FailureStep
    <3> QED
      BY <2>2, <3>1, <3>2
  <2> QED
    BY <2>1, <2>2 DEF FailureStep
<1> QED
  BY <1>1, <1>2 DEF FailuresOK

\* What is spent after a step that learned kinds, failed or not.
LEMMA SpentIs ==
  ASSUME FailuresOK, NEW kinds, NEW ok \in BOOLEAN, Retry(ok, kinds), NEW g \in spent'
  PROVE  \/ \E f \in spent : g = [proposal |-> f.proposal, since |-> f.since \cup kinds]
         \/ ~ok /\ g = [proposal |-> proposal, since |-> {}]
<1>1. CASE g \in Learned(kinds)
  BY <1>1, LearnedIs
<1>2. CASE g \notin Learned(kinds)
  BY <1>2 DEF Retry, Failed
<1> QED
  BY <1>1, <1>2

\* The failed approaches after a tool, and what a failure must not learn.
LEMMA RetryStep ==
  ASSUME FailuresOK, NEW kinds, NEW ok \in BOOLEAN, Retry(ok, kinds),
         proposal.action # "ASK_USER",
         s'.failedApproaches = IF ok THEN s.failedApproaches
                               ELSE s.failedApproaches \cup {proposalSignature(proposal, s)},
         ~ok => kinds \cap Relevant(proposal.action) = {},
         \A p : kinds \cap Relevant(p.action) = {} =>
           proposalSignature(p, s') = proposalSignature(p, s)
  PROVE  FailuresOK'
<1>1. proposalSignature(proposal, s).action = proposal.action
  BY DEF proposalSignature
<1>2. \A g \in spent' :
        \/ \E f \in spent : g = [proposal |-> f.proposal, since |-> f.since \cup kinds]
        \/ ~ok /\ g = [proposal |-> proposal, since |-> {}]
  BY SpentIs
<1>3. FailureStep(kinds)
  BY <1>1, <1>2 DEF FailureStep
<1> QED
  BY <1>3, FailuresFrame

\* A step that learns an answer, or none, and fails with nothing.
LEMMA UntriedStep ==
  ASSUME FailuresOK, NEW kinds, s'.failedApproaches = s.failedApproaches,
         spent' = Learned(kinds) \/ (kinds = {} /\ UNCHANGED spent),
         \/ "answer" \in kinds
         \/ /\ s'.revision = s.revision /\ s'.generation = s.generation
            /\ s'.clarifications = s.clarifications /\ s'.lastCheck = s.lastCheck
  PROVE  FailuresOK'
<1>1. \A g \in spent' :
        \E f \in spent : g = [proposal |-> f.proposal, since |-> f.since \cup kinds]
  <2>1. CASE spent' = Learned(kinds)
    BY <2>1, LearnedIs
  <2>2. CASE kinds = {} /\ UNCHANGED spent
    <3>1. \A f \in spent : f = [proposal |-> f.proposal, since |-> f.since] /\ f.since \cup kinds = f.since
      BY <2>2 DEF FailuresOK
    <3> QED
      BY <2>2, <3>1
  <2> QED
    BY <2>1, <2>2
<1>2. \A p : kinds \cap Relevant(p.action) = {} =>
        proposalSignature(p, s') = proposalSignature(p, s)
  <2>1. CASE "answer" \in kinds
    BY <2>1 DEF Relevant
  <2>2. CASE "answer" \notin kinds
    BY <2>2, SignatureKept
  <2> QED
    BY <2>1, <2>2
<1>3. FailureStep(kinds)
  BY <1>1, <1>2 DEF FailureStep
<1> QED
  BY <1>3, FailuresFrame

LEMMA FailuresStep == Fields /\ FailuresOK /\ [Next]_vars => FailuresOK'
<1> SUFFICES ASSUME Fields, FailuresOK, [Next]_vars PROVE FailuresOK'
  OBVIOUS
<1>1. CASE Thinking \/ Waiting
  <2>1. s' = s \/ s' = [s EXCEPT !.iteration = @ + 1]
    BY <1>1 DEF Thinking, Waiting, Evaluate, EvaluationFails, NextIteration, Alternative, Reject,
       Return, Stop, Finish, vars
  <2>2. UNCHANGED spent
    BY <1>1 DEF Thinking, Waiting, Evaluate, EvaluationFails, Alternative, Reject, Stop, Finish,
       history, vars
  <2>3. /\ s'.failedApproaches = s.failedApproaches
        /\ s'.revision = s.revision /\ s'.generation = s.generation
        /\ s'.clarifications = s.clarifications /\ s'.lastCheck = s.lastCheck
    BY <2>1 DEF Fields
  <2> QED
    BY <2>2, <2>3, UntriedStep
<1>2. CASE AskForInformation
  <2>1. PICK t \in Texts \cup {"none"} :
          /\ \/ Return(Answered(t))
             \/ \E repo \in Repositories :
                  Return([Answered(t) EXCEPT !.repo = repo, !.refresh = FALSE])
          /\ spent' = IF Answered(t) = s THEN spent ELSE Learned({"answer"})
    BY <1>2 DEF AskForInformation
  <2> DEFINE n == Answered(t)
  <2>2. n.failedApproaches = s.failedApproaches /\ DOMAIN n = DOMAIN s
    BY DEF Answered, Fields
  <2> HIDE DEF n
  <2>3. \/ s' = n
        \/ \E repo \in Repositories : s' = [n EXCEPT !.repo = repo, !.refresh = FALSE]
    BY <2>1, ReturnLeaves DEF n
  <2>4. /\ s'.failedApproaches = n.failedApproaches
        /\ s'.revision = n.revision /\ s'.generation = n.generation
        /\ s'.clarifications = n.clarifications /\ s'.lastCheck = n.lastCheck
    BY <2>2, <2>3 DEF Fields
  <2>5. CASE n = s
    <3>1. UNCHANGED spent
      BY <2>1, <2>5 DEF n
    <3> QED
      BY <2>4, <2>5, <3>1, UntriedStep
  <2>6. CASE n # s
    <3>1. spent' = Learned({"answer"})
      BY <2>1, <2>6 DEF n
    <3> QED
      BY <2>2, <2>4, <3>1, UntriedStep
  <2> QED
    BY <2>5, <2>6
<1>3. CASE SearchRepo
  <2>1. PICK ok \in BOOLEAN, new \in BOOLEAN :
          /\ new => ok
          /\ Return([Result(ok) EXCEPT !.revision = IF new THEN @ + 1 ELSE @])
          /\ Retry(ok, IF new THEN {"finding"} ELSE {})
    BY <1>3 DEF SearchRepo
  <2> DEFINE kinds == IF new THEN {"finding"} ELSE {}
  <2>2. s' = [Result(ok) EXCEPT !.revision = IF new THEN @ + 1 ELSE @]
    BY <2>1, ReturnLeaves
  <2>3. /\ s'.failedApproaches = (IF ok THEN s.failedApproaches
                                 ELSE s.failedApproaches \cup {proposalSignature(proposal, s)})
        /\ ~new => s'.revision = s.revision
        /\ s'.generation = s.generation
        /\ s'.clarifications = s.clarifications /\ s'.lastCheck = s.lastCheck
    BY <2>2 DEF Result, Fields
  <2>4. \A p : kinds \cap Relevant(p.action) = {} =>
          proposalSignature(p, s') = proposalSignature(p, s)
    <3> TAKE p
    <3>1. kinds \cap Relevant(p.action) = {} => ~new \/ p.action = "RUN_TESTS"
      BY DEF Relevant
    <3> QED
      BY <2>3, <3>1, SignatureKept
  <2>5. proposal.action # "ASK_USER"
    BY <1>3 DEF SearchRepo, Approve
  <2> QED
    BY <2>1, <2>3, <2>4, <2>5, RetryStep
<1>4. CASE ReadFile
  <2>1. PICK ok \in BOOLEAN :
          /\ Return(IF ok THEN [s EXCEPT !.read = @ \cup {proposal.input}, !.revision = @ + 1]
                    ELSE Result(FALSE))
          /\ Retry(ok, IF ok THEN {"finding"} ELSE {})
    BY <1>4 DEF ReadFile
  <2> DEFINE kinds == IF ok THEN {"finding"} ELSE {}
  <2>2. s' = IF ok THEN [s EXCEPT !.read = @ \cup {proposal.input}, !.revision = @ + 1]
             ELSE Result(FALSE)
    BY <2>1, ReturnLeaves
  <2>3. /\ s'.failedApproaches = (IF ok THEN s.failedApproaches
                                 ELSE s.failedApproaches \cup {proposalSignature(proposal, s)})
        /\ ~ok => s'.revision = s.revision
        /\ s'.generation = s.generation
        /\ s'.clarifications = s.clarifications /\ s'.lastCheck = s.lastCheck
    BY <2>2 DEF Result, Fields
  <2>4. \A p : kinds \cap Relevant(p.action) = {} =>
          proposalSignature(p, s') = proposalSignature(p, s)
    <3> TAKE p
    <3>1. kinds \cap Relevant(p.action) = {} => ~ok \/ p.action = "RUN_TESTS"
      BY DEF Relevant
    <3> QED
      BY <2>3, <3>1, SignatureKept
  <2>5. proposal.action # "ASK_USER"
    BY <1>4 DEF ReadFile, Approve
  <2> QED
    BY <2>1, <2>3, <2>4, <2>5, RetryStep
<1>5. CASE ReadIssue
  <2>1. proposal.action # "ASK_USER"
    BY <1>5 DEF ReadIssue, Approve
  <2>2. CASE \E issue \in {"read", "truncated"} :
               Return([s EXCEPT !.issue = issue, !.revision = @ + 1]) /\ Retry(TRUE, {"finding"})
    <3>1. PICK issue : Return([s EXCEPT !.issue = issue, !.revision = @ + 1])
      BY <2>2
    <3>2. s' = [s EXCEPT !.issue = issue, !.revision = @ + 1]
      BY <3>1, ReturnLeaves
    <3>3. /\ s'.failedApproaches = s.failedApproaches /\ s'.generation = s.generation
          /\ s'.clarifications = s.clarifications /\ s'.lastCheck = s.lastCheck
      BY <3>2 DEF Fields
    <3>4. \A p : {"finding"} \cap Relevant(p.action) = {} =>
            proposalSignature(p, s') = proposalSignature(p, s)
      <4> TAKE p
      <4>1. {"finding"} \cap Relevant(p.action) = {} => p.action = "RUN_TESTS"
        BY DEF Relevant
      <4> QED
        BY <3>3, <4>1, SignatureKept
    <3> QED
      BY <2>1, <2>2, <3>3, <3>4, RetryStep
  <2>3. CASE /\ Return([Result(FALSE) EXCEPT !.issueFailed = IF @ = 0 THEN s.iteration ELSE @])
             /\ Retry(FALSE, {})
    <3> DEFINE n == [Result(FALSE) EXCEPT !.issueFailed = IF @ = 0 THEN s.iteration ELSE @]
    <3>1. s' = n
      <4>1. Return(n)
        BY <2>3
      <4> HIDE DEF n
      <4> QED
        BY <4>1, ReturnLeaves
    <3>2. /\ s'.failedApproaches = s.failedApproaches \cup {proposalSignature(proposal, s)}
          /\ s'.revision = s.revision /\ s'.generation = s.generation
          /\ s'.clarifications = s.clarifications /\ s'.lastCheck = s.lastCheck
      BY <3>1 DEF Result, Fields
    <3>3. \A p : proposalSignature(p, s') = proposalSignature(p, s)
      BY <3>2, SignatureKept
    <3> QED
      BY <2>1, <2>3, <3>2, <3>3, RetryStep
  <2> QED
    BY <1>5, <2>2, <2>3 DEF ReadIssue
<1>6. CASE RunTests
  <2>1. PICK ok \in BOOLEAN :
          /\ \E validations, lastCheck, tests :
               Return([[Result(ok) EXCEPT !.validations = validations, !.lastCheck = lastCheck]
                         EXCEPT !.tests = tests])
          /\ Retry(ok, {"check"})
    BY <1>6 DEF RunTests
  <2> DEFINE Ran(v, c, t) == [[Result(ok) EXCEPT !.validations = v, !.lastCheck = c]
                                 EXCEPT !.tests = t]
  <2>2. \E v, c, t : s' = Ran(v, c, t)
    <3>1. PICK v, c, t : Return(Ran(v, c, t))
      BY <2>1
    <3> HIDE DEF Ran
    <3> QED
      BY <3>1, ReturnLeaves
  <2>3. /\ s'.failedApproaches = (IF ok THEN s.failedApproaches
                                 ELSE s.failedApproaches \cup {proposalSignature(proposal, s)})
        /\ s'.revision = s.revision /\ s'.generation = s.generation
        /\ s'.clarifications = s.clarifications
    BY <2>2 DEF Result, Fields
  <2>4. \A p : {"check"} \cap Relevant(p.action) = {} =>
          proposalSignature(p, s') = proposalSignature(p, s)
    <3> TAKE p
    <3>1. {"check"} \cap Relevant(p.action) = {} => p.action \notin Workers
      BY DEF Relevant, Workers
    <3> QED
      BY <2>3, <3>1, SignatureKept
  <2>5. proposal.action = "RUN_TESTS"
    BY <1>6 DEF RunTests, Approve
  <2>6. {"check"} \cap Relevant(proposal.action) = {}
    BY <2>5 DEF Relevant
  <2> QED
    BY <2>1, <2>3, <2>4, <2>5, <2>6, RetryStep
<1>7. CASE CallWorker
  <2>1. PICK ok \in BOOLEAN, inspected \in BOOLEAN, repo \in Repositories \cup {s.repo} :
          Return(Worker(ok, repo, inspected)) /\ Retry(ok, {"change"})
    <3>1. \/ \E ok \in BOOLEAN, repo \in Repositories :
               Return(Worker(ok, repo, TRUE)) /\ Retry(ok, {"change"})
          \/ Return(Worker(FALSE, s.repo, FALSE)) /\ Retry(FALSE, {"change"})
      BY <1>7 DEF CallWorker
    <3>2. TRUE \in BOOLEAN /\ FALSE \in BOOLEAN
      OBVIOUS
    <3> QED
      BY <3>1, <3>2
  <2>2. s' = Worker(ok, repo, inspected)
    BY <2>1, ReturnLeaves
  <2>3. /\ s'.failedApproaches = (IF ok THEN s.failedApproaches
                                 ELSE s.failedApproaches \cup {proposalSignature(proposal, s)})
        /\ s'.revision = s.revision /\ s'.lastCheck = s.lastCheck
        /\ s'.clarifications = s.clarifications
    BY <2>2 DEF Worker, Result, Fields
  <2>4. \A p : {"change"} \cap Relevant(p.action) = {} =>
          proposalSignature(p, s') = proposalSignature(p, s)
    <3> TAKE p
    <3>1. {"change"} \cap Relevant(p.action) = {} => p.action # "RUN_TESTS"
      BY DEF Relevant
    <3> QED
      BY <2>3, <3>1, SignatureKept
  <2>5. proposal.action \in Workers
    BY <1>7 DEF CallWorker, Approve
  <2>6. {"change"} \cap Relevant(proposal.action) = {} /\ proposal.action # "ASK_USER"
    BY <2>5 DEF Relevant, Workers
  <2> QED
    BY <2>1, <2>3, <2>4, <2>6, RetryStep
<1>8. CASE Continue
  <2>1. s'.failedApproaches = s.failedApproaches
    BY <1>8 DEF Continue, Fields
  <2>2. spent' = Learned({"answer", "change", "finding"})
    BY <1>8 DEF Continue
  <2> QED
    BY <2>1, <2>2, UntriedStep
<1> QED
  BY <1>1, <1>2, <1>3, <1>4, <1>5, <1>6, <1>7, <1>8 DEF Next, Thinking, Waiting

-----------------------------------------------------------------------------
(* The properties.                                                         *)

\* What the loop takes for passed did pass on this worktree.
LEMMA PassedIsVerified ==
  ASSUME ChecksOK, VerifiedOK, hasPassedValidation(s)
  PROVE  /\ requiredValidationScripts(s) # {} /\ ~s.refresh
         /\ requiredValidationScripts(s) \subseteq verified
<1> SUFFICES ASSUME NEW x \in requiredValidationScripts(s), x \notin verified PROVE FALSE
  BY DEF hasPassedValidation
<1>1. outcome(s, x) = "passed"
  BY DEF hasPassedValidation, pendingValidationScripts
<1>2. \A v \in s.validations : v.iteration \in Nat
  BY DEF ChecksOK
<1>3. CASE About(s, x) = {}
  BY <1>1, <1>3, NothingDecides
<1>4. CASE \E v : ~v.passed /\ Latest(s, x, v)
  BY <1>1, <1>2, <1>4, LatestDecides
<1> QED
  BY <1>3, <1>4 DEF VerifiedOK

\* What the loop takes for failed did fail on this worktree.
LEMMA FailedIsRed == ChecksOK /\ RedOK /\ red = {} => ~hasFailedValidation(s)
<1> SUFFICES ASSUME ChecksOK, RedOK, red = {}, NEW x PROVE outcome(s, x) # "failed"
  BY DEF hasFailedValidation
<1>1. \A v \in s.validations : v.iteration \in Nat
  BY DEF ChecksOK
<1>2. CASE About(s, x) = {}
  BY <1>2, NothingDecides
<1>3. CASE \E v : v.passed /\ Latest(s, x, v)
  BY <1>1, <1>3, LatestDecides
<1> QED
  BY <1>2, <1>3 DEF RedOK

LEMMA EvaluateDecides ==
  ASSUME Fields, Evaluate
  PROVE  \E a \in Assessments :
           /\ policy'.selected = applyPolicy(s', a).selected
           /\ policy'.testing = (a.test /\ ~hasPassedValidation(s'))
           /\ proposal' = Candidate(policy'.selected, s')
           /\ s' = NextIteration /\ UNCHANGED <<verified, red>>
BY DEF Evaluate, history

LEMMA FinalChecksStep ==
  ASSUME Fields, Fields', FailuresOK', FinalChecksAgree, [Next]_vars
  PROVE  FinalChecksAgree'
<1> SUFFICES ASSUME phase' = "review" PROVE Executable(proposal', s', policy')
  BY DEF FinalChecksAgree
<1>1. CASE Evaluate
  <2>1. PICK a \in Assessments : /\ policy'.selected = applyPolicy(s', a).selected
                                 /\ proposal' = Candidate(policy'.selected, s')
    BY <1>1, EvaluateDecides
  <2>2. s'.worker.agent \in Workers \cup {"none"}
    BY DEF Fields
  <2>3. /\ policy'.selected \in Actions
        /\ s'.refresh => policy'.selected = "ASK_USER"
        /\ policy'.selected = "FINISH" => hasPassedValidation(s')
    BY <2>1, <2>2, PolicySelects
  <2>4. /\ proposal'.action \in {policy'.selected, "ASK_USER"}
        /\ ~failedBefore(proposal', s')
        /\ proposal'.action \in Workers => s'.calls[proposal'.action] < CallLimit
        /\ proposal'.action = "RUN_TESTS" => selectPendingValidation(s') # "none"
        /\ requiresTaskPreparation(proposal'.action) => preparationAction(s') = "none"
        /\ isWorkerActionAllowed(proposal'.action)
    BY <2>1, <2>3, CandidatePasses DEF FailuresOK
  <2>5. proposal'.action = "FINISH" => completionAllowed(s', policy')
    BY <2>3, <2>4 DEF completionAllowed
  <2> QED
    BY <2>3, <2>4, <2>5 DEF Executable
<1>2. CASE Alternative
  <2>1. PICK action \in allowedAlternatives(s, policy) : proposal' = Candidate(action, s)
    BY <1>2 DEF Alternative
  <2>2. s' = s /\ policy' = policy
    BY <1>2 DEF Alternative
  <2>3. /\ action \in Actions
        /\ s.refresh => action = "ASK_USER"
        /\ action = "FINISH" => completionAllowed(s, policy)
    BY DEF allowedAlternatives, Actions
  <2>4. \A sig \in s.failedApproaches : sig.action # "ASK_USER"
    BY <2>2 DEF FailuresOK
  <2>5. /\ proposal'.action \in {action, "ASK_USER"}
        /\ ~failedBefore(proposal', s)
        /\ proposal'.action \in Workers => s.calls[proposal'.action] < CallLimit
        /\ proposal'.action = "RUN_TESTS" => selectPendingValidation(s) # "none"
        /\ requiresTaskPreparation(proposal'.action) => preparationAction(s) = "none"
        /\ isWorkerActionAllowed(proposal'.action)
    BY <2>1, <2>3, <2>4, CandidatePasses
  <2>6. Executable(proposal', s, policy)
    BY <2>3, <2>5 DEF Executable
  <2> QED
    BY <2>2, <2>6
<1>3. CASE UNCHANGED vars
  BY <1>3 DEF vars, FinalChecksAgree
<1>4. CASE EvaluationFails \/ Stop \/ Finish \/ Continue
  BY <1>4 DEF EvaluationFails, Stop, Finish, Continue
<1>5. CASE Reject \/ Looking
  <2>1. \E next : Return(next)
    BY <1>5 DEF Reject, Looking, AskForInformation, SearchRepo, ReadFile, ReadIssue
  <2> QED
    BY <2>1, ReturnLeaves
<1>6. CASE RunTests \/ CallWorker
  BY <1>6, RunTestsEffect, CallWorkerEffect
<1> QED
  BY <1>1, <1>2, <1>3, <1>4, <1>5, <1>6 DEF Next, Looking

\* Only Finish finishes, and nothing happens afterwards.
LEMMA FinishStep ==
  ASSUME Fields, ChecksOK, VerifiedOK, FinishVerified, [Next]_vars
  PROVE  FinishVerified'
<1> SUFFICES ASSUME phase' = "finished" PROVE FinishVerified'
  BY DEF FinishVerified
<1>1. CASE Finish
  <2>1. s' = s /\ verified' = verified
    BY <1>1 DEF Finish, history
  <2>2. hasPassedValidation(s) /\ preparationAction(s) = "none"
    BY <1>1 DEF Finish, Approve, Executable, completionAllowed, requiresTaskPreparation
  <2> QED
    BY <2>1, <2>2, PassedIsVerified DEF FinishVerified
<1>2. CASE UNCHANGED vars
  BY <1>2 DEF vars, history, FinishVerified
<1>3. CASE Evaluate \/ EvaluationFails \/ Alternative \/ Stop \/ Continue
  BY <1>3 DEF Evaluate, EvaluationFails, Alternative, Stop, Continue
<1>4. CASE Reject \/ Looking
  <2>1. \E next : Return(next)
    BY <1>4 DEF Reject, Looking, AskForInformation, SearchRepo, ReadFile, ReadIssue
  <2> QED
    BY <2>1, ReturnLeaves
<1>5. CASE RunTests \/ CallWorker
  BY <1>5, RunTestsEffect, CallWorkerEffect
<1> QED
  BY <1>1, <1>2, <1>3, <1>4, <1>5 DEF Next, Looking

\* A worker is selected against a demand for testing by Evaluate only, and until
\* the next evaluation neither the worker nor the failed checks change.
LEMMA RepairStep ==
  ASSUME Fields, Fields', ChecksOK', RedOK', WorkersOK', RepairIsGrounded,
         phase \notin {"review", "finished"} => policy = NoPolicy, [Next]_vars
  PROVE  RepairIsGrounded' /\ (phase' \notin {"review", "finished"} => policy' = NoPolicy)
<1>1. NoPolicy.selected \notin Workers
  BY DEF NoPolicy, Workers
<1>2. CASE Evaluate
  <2>1. PICK a \in Assessments : /\ policy'.selected = applyPolicy(s', a).selected
                                 /\ policy'.testing = (a.test /\ ~hasPassedValidation(s'))
    BY <1>2, EvaluateDecides
  <2>2. phase' = "review"
    BY <1>2 DEF Evaluate
  <2> SUFFICES ASSUME policy'.selected \in Workers, policy'.testing
               PROVE  \/ s'.worker.agent = "none" /\ red' = {} /\ s'.linked
                      \/ s'.worker.agent = policy'.selected /\ red' # {}
    BY <2>2 DEF RepairIsGrounded
  <2>3. a.test /\ ~hasPassedValidation(s') /\ s'.worker.agent \in Workers \cup {"none"}
    BY <2>1 DEF Fields
  <2>4. firstIssueWorker(s', a) \/ hasWorkerRepairEvidence(s', policy'.selected)
    BY <2>1, <2>3, PolicySelects
  <2>5. CASE firstIssueWorker(s', a)
    <3>1. s'.linked /\ s'.tests = "not_run" /\ \A w \in Workers : s'.calls[w] = 0
      BY <2>5 DEF firstIssueWorker
    <3>2. s'.worker.agent \notin Workers
      BY <3>1 DEF WorkersOK
    <3>3. red' = {}
      BY <3>1 DEF RedOK
    <3> QED
      BY <2>3, <3>1, <3>2, <3>3
  <2>6. CASE hasWorkerRepairEvidence(s', policy'.selected)
    <3>1. s'.worker.agent = policy'.selected /\ hasFailedValidation(s')
      BY <2>6 DEF hasWorkerRepairEvidence
    <3>2. red' # {}
      <4>1. (ChecksOK /\ RedOK /\ red = {} => ~hasFailedValidation(s))'
        BY FailedIsRed, PTL
      <4> QED
        BY <3>1, <4>1
    <3> QED
      BY <3>1, <3>2
  <2> QED
    BY <2>4, <2>5, <2>6
<1>3. CASE Alternative \/ Finish \/ UNCHANGED vars
  BY <1>3 DEF Alternative, Finish, Approve, history, vars, RepairIsGrounded
<1>4. CASE EvaluationFails \/ Stop \/ Continue
  <2>1. policy' = NoPolicy
    BY <1>4 DEF EvaluationFails, Stop, Continue
  <2> QED
    BY <1>1, <2>1 DEF RepairIsGrounded
<1>5. CASE Reject \/ Looking
  <2>1. policy' = NoPolicy
    <3>1. \E next : Return(next)
      BY <1>5 DEF Reject, Looking, AskForInformation, SearchRepo, ReadFile, ReadIssue
    <3> QED
      BY <3>1, ReturnLeaves
  <2> QED
    BY <1>1, <2>1 DEF RepairIsGrounded
<1>6. CASE RunTests \/ CallWorker
  BY <1>1, <1>6, RunTestsEffect, CallWorkerEffect DEF RepairIsGrounded
<1> QED
  BY <1>2, <1>3, <1>4, <1>5, <1>6 DEF Next, Looking

LEMMA InvInit == Init => Inv
<1> SUFFICES ASSUME Init PROVE Inv
  OBVIOUS
<1>1. Fields
  BY DEF Init, Fields
<1>2. ChecksOK /\ current(s) = {}
  BY DEF Init, ChecksOK, current
<1>3. VerifiedOK /\ RedOK
  BY <1>2, AboutNothing DEF VerifiedOK, RedOK, Init
<1>4. WorkersOK
  BY DEF Init, WorkersOK, Workers
<1>5. FailuresOK
  BY DEF Init, FailuresOK
<1>6. FinalChecksAgree /\ FinishVerified
  BY DEF Init, FinalChecksAgree, FinishVerified
<1>7. RepairIsGrounded /\ policy = NoPolicy
  BY DEF Init, RepairIsGrounded, NoPolicy, Workers
<1> QED
  BY <1>1, <1>2, <1>3, <1>4, <1>5, <1>6, <1>7 DEF Inv

\* The invariant, for every repository and every course of a task.
THEOREM InvHolds == Spec => []Inv
<1>1. Inv /\ [Next]_vars => Inv'
  <2> SUFFICES ASSUME Inv, [Next]_vars PROVE Inv'
    OBVIOUS
  <2>1. Fields' /\ ChecksOK' /\ VerifiedOK' /\ RedOK' /\ WorkersOK' /\ FailuresOK'
    BY FieldsStep, ChecksStep, VerifiedStep, RedStep, WorkersStep, FailuresStep DEF Inv
  <2>2. FinalChecksAgree' /\ FinishVerified'
    BY <2>1, FinalChecksStep, FinishStep DEF Inv
  <2>3. RepairIsGrounded' /\ (phase' \notin {"review", "finished"} => policy' = NoPolicy)
    BY <2>1, RepairStep DEF Inv
  <2> QED
    BY <2>1, <2>2, <2>3 DEF Inv
<1> QED
  BY <1>1, InvInit, PTL DEF Spec

\* The operator is never asked in vain: whatever policy selects from any
\* assessment, and whatever alternative is picked, the loop then executes
\* (policy.ts, candidate.ts against the checks of loop.ts).
THEOREM FinalChecksAgreeHolds == Spec => []FinalChecksAgree
<1>1. Inv => FinalChecksAgree
  BY DEF Inv
<1> QED
  BY <1>1, InvHolds, PTL

\* For every coverage of scripts: a task finishes only on a worktree all whose
\* required checks passed since the last worker and continuation
\* (validation.ts hasPassedValidation, resume.ts refreshResumeState).
THEOREM FinishVerifiedHolds == Spec => []FinishVerified
<1>1. Inv => FinishVerified
  BY DEF Inv
<1> QED
  BY <1>1, InvHolds, PTL

\* For every coverage that is closed over calls: a worker gets past a demand
\* for testing only as the first of a task, or to repair a check that failed on
\* what it left (policy.ts hasWorkerRepairEvidence, firstIssueWorker).
THEOREM RepairIsGroundedHolds == Spec => []RepairIsGrounded
<1>1. Inv => RepairIsGrounded
  BY DEF Inv
<1> QED
  BY <1>1, InvHolds, PTL

\* In runs of any length, over stops and continuations, what failed is proposed
\* again only once something relevant to it was learned (candidate.ts
\* proposalSignature, repeatedFailureProposal).
THEOREM NoBlindRetryHolds == Spec => []NoBlindRetry
<1>1. Inv => NoBlindRetry
  BY DEF Inv, FinalChecksAgree, Executable, failedBefore, FailuresOK, NoBlindRetry
<1> QED
  BY <1>1, InvHolds, PTL
=============================================================================

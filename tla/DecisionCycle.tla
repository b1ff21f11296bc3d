---------------------------- MODULE DecisionCycle ----------------------------
(***************************************************************************)
(* A task as a sequence of decisions: in each iteration the evaluator is   *)
(* asked, the policy and the candidate rules of DecisionRules make a       *)
(* proposal, the operator approves it, asks for an alternative or rejects  *)
(* it, and the result of what was approved becomes evidence                *)
(* (src/src/orchestration/loop.ts), also over a stop and a continuation    *)
(* (refreshResumeState, src/src/saved-runs/resume.ts).                     *)
(*                                                                         *)
(* Signals, crashes and storage are OrchestrationLoop's subject.  A worker *)
(* may change what the repository declares.                                *)
(***************************************************************************)
EXTENDS DecisionRules

CONSTANTS
  TaskScripts,    \* checks the text of the task names
  Repositories,   \* snapshots the repository may have
  IterationLimit, \* bound: MAX_ITERATIONS
  MaxStops        \* bound: stops that are continued

\* A repository is one that inspection returns, and what a script covers is
\* closed over its calls (validationWorkflow in src/src/repo/validation.ts, for
\* chains of up to eight calls).
ASSUME CycleAssumption ==
  /\ IterationLimit \in Nat /\ MaxStops \in Nat
  /\ \A r \in Repositories :
       /\ r = Snapshot(r.scripts, r.managed)
       /\ \A x \in r.scripts : \A y \in Calls[x] \cap r.scripts :
            Calls[y] \cap r.scripts \subseteq Calls[x]

VARIABLES
  s,         \* the agent state
  phase,     \* "evaluate", "review", "stopped", "finished" or "exhausted"
  policy,    \* what policy decided, and whether its testing rule applied
  proposal,  \* what is presented for approval
  stops,     \* stops so far
  \* history, read by properties only
  verified,  \* checks that passed on the present worktree
  red,       \* checks whose latest run on the present worktree failed
  kept,      \* checks required when the run was last continued
  spent      \* proposals that failed, and what was learned since

history == <<verified, red, kept, spent>>
vars == <<s, phase, policy, proposal, stops, history>>

NoPolicy == [selected |-> "none", review |-> "none", testing |-> FALSE]
NoProposal == Propose("none", "none")

Init ==
  /\ \E repo \in Repositories, linked \in BOOLEAN :
       s = [repo |-> repo, linked |-> linked, iteration |-> 0, read |-> {}, requiredFiles |-> {},
            tests |-> "not_run", calls |-> [w \in Workers |-> 0],
            failedApproaches |-> {}, revision |-> 0, generation |-> 0,
            issue |-> "unread", issueFailed |-> 0, clarifications |-> <<>>,
            validations |-> {}, lastCheck |-> <<>>,
            worker |-> [agent |-> "none", iteration |-> 0], refresh |-> FALSE]
  /\ phase = "evaluate" /\ policy = NoPolicy /\ proposal = NoProposal /\ stops = 0
  /\ verified = {} /\ red = {} /\ kept = {} /\ spent = {}

-----------------------------------------------------------------------------
(* The decision.                                                           *)

NextIteration == [s EXCEPT !.iteration = @ + 1]

Evaluate ==
  /\ phase = "evaluate"
  /\ s' = NextIteration
  /\ \E a \in Assessments :
       LET chosen == applyPolicy(s', a)
       IN  /\ policy' = [selected |-> chosen.selected, review |-> chosen.review,
                         testing |-> a.test /\ ~hasPassedValidation(s')]
           /\ proposal' = Candidate(chosen.selected, s')
  /\ phase' = "review"
  /\ UNCHANGED <<stops, history>>

\* After the last iteration the run is exhausted.
Return(next) ==
  /\ s' = next
  /\ phase' = IF s.iteration = IterationLimit THEN "exhausted" ELSE "evaluate"
  /\ policy' = NoPolicy /\ proposal' = NoProposal
  /\ UNCHANGED stops

EvaluationFails ==
  /\ phase = "evaluate"
  /\ s' = NextIteration
  /\ phase' = IF s'.iteration = IterationLimit THEN "exhausted" ELSE "evaluate"
  /\ UNCHANGED <<policy, proposal, stops, history>>

\* One more alternative ends in a rejection once MAX_APPROVAL_ALTERNATIVES
\* were asked for, and a rejection is always possible.
Alternative ==
  /\ phase = "review"
  /\ \E action \in allowedAlternatives(s, policy) : proposal' = Candidate(action, s)
  /\ UNCHANGED <<s, phase, policy, stops, history>>

Reject == phase = "review" /\ Return(s) /\ UNCHANGED history

\* Only a stop that leaves an iteration can be continued.
Stop ==
  /\ phase = "review" /\ s.iteration < IterationLimit /\ stops < MaxStops
  /\ phase' = "stopped" /\ stops' = stops + 1
  /\ policy' = NoPolicy /\ proposal' = NoProposal
  /\ UNCHANGED <<s, history>>

\* The final checks of the loop let an approved proposal through; that they
\* always do is FinalChecksAgree.
Approve(action) ==
  /\ phase = "review" /\ proposal.action = action
  /\ Executable(proposal, s, policy)

-----------------------------------------------------------------------------
(* What was learned since a proposal failed.                               *)

Learned(kinds) == {[f EXCEPT !.since = @ \cup kinds] : f \in spent}

\* The proposal failed, after kinds were learned from the attempt.
Failed(kinds) ==
  {f \in Learned(kinds) : f.proposal # proposal} \cup {[proposal |-> proposal, since |-> {}]}

Retry(ok, kinds) == spent' = IF ok THEN Learned(kinds) ELSE Failed(kinds)

\* applyToolResult and withToolEvidence: what every failed tool leaves.
Result(ok) ==
  IF ok THEN s ELSE [s EXCEPT !.failedApproaches = @ \cup {proposalSignature(proposal, s)}]

-----------------------------------------------------------------------------
(* What an approved proposal does.                                         *)

\* withClarification: an answer that was given before is not recorded again.
Answered(t) ==
  IF t = "none" \/ t \in answers(s) THEN s
  ELSE [s EXCEPT !.revision = @ + 1,
                 !.clarifications = Append(@, [iteration |-> s.iteration, text |-> t])]

\* An answer may end the wait for an inspection, if that succeeds.
AskForInformation ==
  /\ Approve("ASK_USER")
  /\ \E t \in Texts \cup {"none"} :
       LET next == Answered(t)
       IN  /\ \/ Return(next)
              \/ s.refresh /\ \E repo \in Repositories :
                   Return([next EXCEPT !.repo = repo, !.refresh = FALSE])
           /\ spent' = IF next = s THEN spent ELSE Learned({"answer"})
  /\ UNCHANGED <<verified, red, kept>>

Finish ==
  /\ Approve("FINISH")
  /\ phase' = "finished"
  /\ UNCHANGED <<s, policy, proposal, stops, history>>

\* A search may find nothing new.
SearchRepo ==
  /\ Approve("SEARCH_REPO")
  /\ \E ok, new \in BOOLEAN :
       /\ new => ok
       /\ Return([Result(ok) EXCEPT !.revision = IF new THEN @ + 1 ELSE @])
       /\ Retry(ok, IF new THEN {"finding"} ELSE {})
  /\ UNCHANGED <<verified, red, kept>>

ReadFile ==
  /\ Approve("READ_FILE")
  /\ \E ok \in BOOLEAN :
       /\ Return(IF ok THEN [s EXCEPT !.read = @ \cup {proposal.input}, !.revision = @ + 1]
                 ELSE Result(FALSE))
       /\ Retry(ok, IF ok THEN {"finding"} ELSE {})
  /\ UNCHANGED <<verified, red, kept>>

\* The first failure to read the issue is the one that counts.
ReadIssue ==
  /\ Approve("READ_ISSUE")
  /\ \/ /\ \E issue \in {"read", "truncated"} :
             Return([s EXCEPT !.issue = issue, !.revision = @ + 1])
        /\ Retry(TRUE, {"finding"})
     \/ /\ Return([Result(FALSE) EXCEPT !.issueFailed = IF @ = 0 THEN s.iteration ELSE @])
        /\ Retry(FALSE, {})
  /\ UNCHANGED <<verified, red, kept>>

\* tests is set from the checks of this generation, this one included.
RunTests ==
  /\ Approve("RUN_TESTS")
  /\ \E ok \in BOOLEAN :
       LET check == [script |-> proposal.input, iteration |-> s.iteration,
                     generation |-> s.generation, passed |-> ok]
           next == [Result(ok) EXCEPT
                      !.validations = {v \in current(s) : v.script # proposal.input} \cup {check},
                      !.lastCheck = <<s.generation, proposal.input, ok>>]
       IN  /\ Return([next EXCEPT !.tests =
                        IF hasFailedValidation(next) THEN "failed"
                        ELSE IF pendingValidationScripts(next) = {} THEN "passed" ELSE "partial"])
           /\ Retry(ok, {"check"})
           /\ IF ok THEN /\ verified' = verified \cup Covered(s, proposal.input)
                         /\ red' = red \ Covered(s, proposal.input)
              ELSE verified' = verified \ {proposal.input} /\ red' = red \cup {proposal.input}
  /\ UNCHANGED kept

\* Checks of the worktree before the attempt stay current.
SameGeneration_Bug(ok, repo, inspected) ==
  [Result(ok) EXCEPT !.calls[proposal.action] = @ + 1,
                     !.worker = [agent |-> proposal.action, iteration |-> s.iteration],
                     !.tests = "not_run",
                     !.repo = repo,
                     !.refresh = ~inspected]

\* A worker's attempt, and the repository as inspected afterwards.
Worker(ok, repo, inspected) ==
  [Result(ok) EXCEPT !.calls[proposal.action] = @ + 1,
                     !.generation = @ + 1,
                     !.worker = [agent |-> proposal.action, iteration |-> s.iteration],
                     !.tests = "not_run",
                     !.repo = repo,
                     !.refresh = ~inspected]

CallWorker ==
  /\ \E w \in Workers : Approve(w)
  /\ \/ \E ok \in BOOLEAN, repo \in Repositories : Return(Worker(ok, repo, TRUE)) /\ Retry(ok, {"change"})
     \/ Return(Worker(FALSE, s.repo, FALSE)) /\ Retry(FALSE, {"change"})
  /\ verified' = {} /\ red' = {}
  /\ UNCHANGED kept

\* refreshResumeState: the checks required so far stay required, reads and
\* checks start again, and every instruction file must be read.
Continue ==
  /\ phase = "stopped"
  /\ phase' = "evaluate"
  /\ \E repo \in Repositories :
       LET required == requiredValidationScripts(s) \cup TaskScripts \cup repo.required
       IN  /\ s' = [s EXCEPT !.repo = [repo EXCEPT !.required = required],
                             !.read = {}, !.requiredFiles = ToSet(Instructions),
                             !.tests = "not_run", !.revision = @ + 1, !.generation = @ + 1,
                             !.validations = {}, !.lastCheck = <<>>, !.refresh = FALSE]
           /\ kept' = required
  /\ verified' = {} /\ red' = {}
  /\ spent' = Learned({"answer", "change", "finding"})
  /\ UNCHANGED <<policy, proposal, stops>>

Next ==
  \/ Evaluate \/ EvaluationFails \/ Alternative \/ Reject \/ Stop \/ Continue
  \/ AskForInformation \/ Finish \/ SearchRepo \/ ReadFile \/ ReadIssue
  \/ RunTests \/ CallWorker

Spec == Init /\ [][Next]_vars

-----------------------------------------------------------------------------
ScriptSet == ToSet(Scripts)
Files == ToSet(Instructions) \cup ToSet(OtherFiles)

TypeOK ==
  /\ s.repo \in [scripts : SUBSET ScriptSet, required : SUBSET ScriptSet, managed : BOOLEAN]
  /\ s.iteration \in 0..IterationLimit
  /\ s.read \subseteq Files /\ s.requiredFiles \subseteq Files
  /\ s.tests \in {"not_run", "partial", "passed", "failed"}
  /\ s.calls \in [Workers -> 0..CallLimit]
  /\ s.issue \in {"unread", "read", "truncated"} /\ s.issueFailed \in 0..IterationLimit
  /\ answers(s) \subseteq Texts
  /\ s.worker \in [agent : Workers \cup {"none"}, iteration : 0..IterationLimit]
  /\ phase \in {"evaluate", "review", "stopped", "finished", "exhausted"}
  /\ proposal.action \in Actions \cup {"none"}

\* Whatever policy selects or the operator picks instead, the proposal shown
\* for approval is one the loop then executes: the final checks never turn an
\* approval into a rejection, so the operator is never asked in vain
\* (selectCandidate and allowedAlternatives against the loop's blocked* checks).
FinalChecksAgree == phase = "review" => Executable(proposal, s, policy)

\* A task is finished only on a worktree whose required checks all passed
\* since the last worker or continuation, with none of them failing later, and
\* with the issue and the instructions known (README.md: "Completion requires
\* all relevant independent checks since the latest worker attempt").
FinishVerified ==
  phase = "finished" =>
    /\ requiredValidationScripts(s) # {}
    /\ requiredValidationScripts(s) \subseteq verified
    /\ preparationAction(s) = "none" /\ ~s.refresh

\* Against a demand for testing only two workers are let through: the first of
\* a task, before any check, and the one that worked last, once a check failed
\* on what it left (docs/workflows/v0.4-repair-routing.md).
RepairIsGrounded ==
  policy.selected \in Workers /\ policy.testing =>
    \/ s.worker.agent = "none" /\ red = {} /\ s.linked
    \/ s.worker.agent = policy.selected /\ red # {}

\* What failed is not proposed again until something relevant to it is new
\* (README.md: "The same failed worker request or validation script cannot be
\* repeated without relevant new evidence or a new validation generation").
Relevant(action) ==
  IF action = "RUN_TESTS" THEN {"answer", "change"}
  ELSE IF action \in Workers THEN {"answer", "finding", "check"}
  ELSE {"answer", "finding"}

NoBlindRetry ==
  phase = "review" =>
    \A f \in spent : f.proposal = proposal => f.since \cap Relevant(proposal.action) # {}

\* PLAN.md: "Keep original required checks, including those named by the task,
\* issue, and clarifications; a removed script cannot silently remove its
\* requirement."  A continued run finishes only with those checks passed.
OriginalChecksDecide == phase = "finished" => kept \subseteq verified

=============================================================================

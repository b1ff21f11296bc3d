---------------------------- MODULE DecisionRules ----------------------------
(***************************************************************************)
(* How the next action is decided, as operators over the agent state s:    *)
(* the required checks and their results (src/src/repo/validation.ts), the *)
(* preparation of a task (src/src/repo/preparation.ts), the policy         *)
(* (src/src/policy.ts), the candidate of an action                         *)
(* (src/src/orchestration/candidate.ts) and what the loop offers and       *)
(* accepts around an approval (src/src/orchestration/loop.ts).             *)
(*                                                                         *)
(* SEARCH_REPO stands for RUN_COMMAND too: both look for a finding.  The   *)
(* state is one the loop builds, so evidence.validations is always there;   *)
(* s.linked says that the task is the address of an issue.  The eight       *)
(* answers, failures and checks that evidence keeps are as many as a run    *)
(* has iterations.                                                         *)
(***************************************************************************)
EXTENDS Naturals, FiniteSets, SequencesExt

CONSTANTS
  IssueScripts,    \* checks the issue of the task names
  Instructions,    \* instruction files of the repository, in reading order
  OtherFiles,      \* its other files, in reading order
  Unsafe,          \* those that resolveSafeRepoFile refuses
  Scripts,         \* names of validation scripts, by priority
  BaseNames,       \* those without a suffix
  Calls,           \* what the command of each script runs besides
  Texts,           \* answers of the operator
  TextScripts,     \* checks each answer names
  AllowedWorkers,  \* the worker selection
  CallLimit        \* MAX_CODEX_CALLS, MAX_CLAUDE_CALLS

Workers == {"CALL_CODEX", "CALL_CLAUDE"}
Actions == Workers \cup {"SEARCH_REPO", "READ_FILE", "READ_ISSUE", "RUN_TESTS", "ASK_USER", "FINISH"}

ASSUME RulesAssumption ==
  /\ AllowedWorkers \subseteq Workers
  /\ CallLimit \in Nat

-----------------------------------------------------------------------------
(* Validation.                                                             *)

\* A repository declares scripts; which of them are required by default.
Snapshot(declared, managed) ==
  [scripts  |-> declared,
   required |-> IF declared \cap BaseNames # {} THEN declared \cap BaseNames ELSE declared,
   managed  |-> managed]

\* validationScriptCoverage
Covered(s, script) ==
  IF script \in s.repo.scripts THEN {script} \cup (Calls[script] \cap s.repo.scripts) ELSE {script}

answers(s) == {c.text : c \in ToSet(s.clarifications)}

requiredValidationScripts(s) ==
  s.repo.required
    \cup (IF s.issue = "unread" THEN {} ELSE IssueScripts)
    \cup UNION {TextScripts[t] : t \in answers(s)}

\* More checks were named than the bounded context keeps.
hasOmittedValidationRequirements(s) == s.issue = "truncated"

current(s) == {v \in s.validations : v.generation = s.generation}

\* validationOutcomes: the latest record that says something of a script.  A
\* pass speaks for all the script covers, a failure for the script alone.
outcome(s, script) ==
  LET about == {v \in current(s) : script \in (IF v.passed THEN Covered(s, v.script) ELSE {v.script})}
  IN  IF about = {} THEN "none"
      ELSE IF (CHOOSE v \in about : \A w \in about : w.iteration <= v.iteration).passed
           THEN "passed" ELSE "failed"

pendingValidationScripts(s) == {x \in requiredValidationScripts(s) : outcome(s, x) # "passed"}

hasFailedValidation(s) == \E x \in requiredValidationScripts(s) : outcome(s, x) = "failed"

hasPassedValidation(s) ==
  /\ ~s.refresh
  /\ ~hasOmittedValidationRequirements(s)
  /\ s.tests = "passed"
  /\ requiredValidationScripts(s) # {}
  /\ pendingValidationScripts(s) = {}

\* The declared script that covers most of what is pending.
selectPendingValidation(s) ==
  LET score(x) == Cardinality(Covered(s, x) \cap pendingValidationScripts(s))
      useful == SelectSeq(Scripts, LAMBDA x : x \in s.repo.scripts /\ score(x) > 0)
  IN  IF useful = <<>> THEN "none"
      ELSE useful[CHOOSE i \in DOMAIN useful :
                    \A j \in DOMAIN useful :
                      score(useful[j]) < score(useful[i]) \/ (score(useful[j]) = score(useful[i]) /\ i <= j)]

-----------------------------------------------------------------------------
(* Preparation.                                                            *)

\* Of the issue: a failed read is made up for by a later answer.
issueContext(s) ==
  IF ~s.linked THEN "not_linked"
  ELSE IF s.issue # "unread" THEN "read"
  ELSE IF s.issueFailed # 0 /\ \E c \in ToSet(s.clarifications) : c.iteration > s.issueFailed
       THEN "provided" ELSE "pending"

unreadInstructions(s) ==
  SelectSeq(Instructions, LAMBDA f : (s.linked \/ f \in s.requiredFiles) /\ f \notin s.read)

preparationAction(s) ==
  IF issueContext(s) = "pending" THEN IF s.issueFailed = 0 THEN "READ_ISSUE" ELSE "ASK_USER"
  ELSE IF unreadInstructions(s) # <<>> THEN "READ_FILE" ELSE "none"

requiresTaskPreparation(action) == action \in Workers \cup {"RUN_TESTS", "FINISH"}

isWorkerActionAllowed(action) == action \in Workers => action \in AllowedWorkers

-----------------------------------------------------------------------------
(* Policy.  An assessment a says which action is requested and whether it  *)
(* is clear, and whether asking, completion and testing are over their     *)
(* thresholds.                                                             *)

Assessments == [requested : Actions, clear : BOOLEAN, ask : BOOLEAN, complete : BOOLEAN, test : BOOLEAN]

\* Checks after the attempt of the last worker, and before this iteration.
sinceWorker(s) ==
  {v \in s.validations : s.worker.iteration < v.iteration /\ v.iteration < s.iteration}

hasValidatedWorkerAttempt(s) ==
  /\ s.worker.agent # "none"
  /\ hasPassedValidation(s)
  /\ hasPassedValidation([s EXCEPT !.validations = sinceWorker(s)])

\* A failure from before the worker's attempt would do.
hasWorkerRepairEvidence_Bug(s, requested) ==
  /\ requested # "none" /\ s.worker.agent = requested
  /\ isWorkerActionAllowed(requested) /\ s.calls[requested] < CallLimit
  /\ ~hasOmittedValidationRequirements(s)
  /\ \E v \in s.validations : ~v.passed

hasWorkerRepairEvidence(s, requested) ==
  /\ requested # "none" /\ s.worker.agent = requested
  /\ isWorkerActionAllowed(requested) /\ s.calls[requested] < CallLimit
  /\ ~hasOmittedValidationRequirements(s) /\ hasFailedValidation(s)
  /\ \E v \in current(s) \cap sinceWorker(s) : ~v.passed

requireValidation(s) ==
  IF hasOmittedValidationRequirements(s) \/ s.repo.scripts = {} \/ hasFailedValidation(s)
  THEN "ASK_USER" ELSE "RUN_TESTS"

firstIssueWorker(s, a) ==
  /\ s.linked /\ a.clear /\ a.requested \in Workers
  /\ s.tests = "not_run" /\ ~hasFailedValidation(s)
  /\ \A w \in Workers : s.calls[w] = 0

Select(action) == [selected |-> action, review |-> "none"]
Review(action, kind) == [selected |-> action, review |-> kind]

\* The rules of applyPolicy, a condition and a decision each.
PolicyRules(s, a) ==
  LET passed == hasPassedValidation(s)
      next == preparationAction(s)
  IN  <<
    <<s.refresh \/ a.ask, Select("ASK_USER")>>,
    <<next # "none" /\ (~a.clear \/ a.requested = "ASK_USER"), Select("ASK_USER")>>,
    <<next # "none", Select(next)>>,
    <<a.complete /\ passed, Select("FINISH")>>,
    <<~isWorkerActionAllowed(a.requested), Select("ASK_USER")>>,
    <<a.test /\ ~passed /\ ~firstIssueWorker(s, a),
      Select(IF a.clear /\ hasWorkerRepairEvidence(s, a.requested) THEN a.requested ELSE requireValidation(s))>>,
    <<a.requested = "FINISH" /\ passed, Review("ASK_USER", IF a.clear THEN "jev_finish" ELSE "none")>>,
    <<a.requested = "FINISH", Select(requireValidation(s))>>,
    <<~a.clear, Select("ASK_USER")>>,
    <<a.requested = "RUN_TESTS" /\ passed, Review("ASK_USER", "validation_complete")>>,
    <<a.requested = "READ_FILE" /\ hasValidatedWorkerAttempt(s), Review("READ_FILE", "validated_inspection")>>,
    <<TRUE, Select(a.requested)>> >>

\* The first rule that applies decides.
applyPolicy(s, a) ==
  LET rules == PolicyRules(s, a)
  IN  rules[CHOOSE i \in DOMAIN rules : rules[i][1] /\ \A j \in 1..i-1 : ~rules[j][1]][2]

-----------------------------------------------------------------------------
(* Candidates.                                                             *)

Propose(action, input) == [action |-> action, input |-> input]
AskUser == Propose("ASK_USER", "none")

\* The next file: a required instruction or none, then whatever is unread.
readCandidate(s) ==
  LET unread == SelectSeq(Instructions \o OtherFiles, LAMBDA f : f \notin s.read /\ f \notin Unsafe)
  IN  IF unreadInstructions(s) # <<>>
      THEN IF Head(unreadInstructions(s)) \in Unsafe THEN "none" ELSE Head(unreadInstructions(s))
      ELSE IF unread = <<>> THEN "none" ELSE Head(unread)

selectCandidate(action, s) ==
  LET script == selectPendingValidation(s)
      possible ==
        /\ isWorkerActionAllowed(action)
        /\ requiresTaskPreparation(action) => preparationAction(s) = "none"
        /\ action = "READ_ISSUE" => s.linked /\ s.issue = "unread"
        /\ action = "READ_FILE" => readCandidate(s) # "none"
        /\ action = "RUN_TESTS" => script # "none" /\ s.repo.managed
        /\ action \in Workers => s.calls[action] < CallLimit
  IN  IF ~possible THEN AskUser
      ELSE Propose(action, IF action = "READ_FILE" THEN readCandidate(s)
                           ELSE IF action = "RUN_TESTS" THEN script ELSE "none")

\* The evidence of a worker is taken for the validation generation, which its
\* own attempt advances.
proposalSignature_Bug(p, s) ==
  [action     |-> p.action,
   input      |-> p.input,
   revision   |-> IF p.action \in Workers \cup {"RUN_TESTS"} THEN 0 ELSE s.revision,
   generation |-> IF p.action \in Workers \cup {"RUN_TESTS"} THEN s.generation ELSE 0,
   answers    |-> IF p.action = "RUN_TESTS" THEN answers(s) ELSE {},
   check      |-> <<>>]

\* What makes a proposal the same as one that failed.
proposalSignature(p, s) ==
  [action     |-> p.action,
   input      |-> p.input,
   revision   |-> IF p.action = "RUN_TESTS" THEN 0 ELSE s.revision,
   generation |-> IF p.action = "RUN_TESTS" THEN s.generation ELSE 0,
   answers    |-> IF p.action = "RUN_TESTS" THEN answers(s) ELSE {},
   check      |-> IF p.action \in Workers THEN s.lastCheck ELSE <<>>]

failedBefore(p, s) == proposalSignature(p, s) \in s.failedApproaches

\* The check for a repeated failure is left to the loop.
Candidate_Bug(action, s) == selectCandidate(action, s)

\* selectCandidate and repeatedFailureProposal
Candidate(action, s) ==
  LET p == selectCandidate(action, s) IN IF failedBefore(p, s) THEN AskUser ELSE p

-----------------------------------------------------------------------------
(* Around the approval.                                                    *)

completionAllowed(s, policy) ==
  /\ hasPassedValidation(s)
  /\ \/ policy.selected = "FINISH"
     \/ policy.selected = "ASK_USER" /\ policy.review # "none"
     \/ policy.review = "validated_inspection" /\ hasValidatedWorkerAttempt(s)

allowedAlternatives(s, policy) ==
  IF s.refresh THEN {"ASK_USER"}
  ELSE {action \in Actions :
          /\ isWorkerActionAllowed(action)
          /\ requiresTaskPreparation(action) => preparationAction(s) = "none"
          /\ action = "FINISH" => completionAllowed(s, policy)
          /\ action = "RUN_TESTS" => selectPendingValidation(s) # "none"
          /\ action = "READ_ISSUE" => s.linked /\ s.issue = "unread"
          /\ action \in Workers => s.calls[action] < CallLimit}

\* The checks of the loop on a proposal the operator approved.
Executable(p, s, policy) ==
  /\ ~failedBefore(p, s)
  /\ p.action \in Workers => s.calls[p.action] < CallLimit
  /\ p.action = "FINISH" => completionAllowed(s, policy)
  /\ p.action = "RUN_TESTS" => selectPendingValidation(s) # "none"
  /\ requiresTaskPreparation(p.action) => preparationAction(s) = "none"
  /\ isWorkerActionAllowed(p.action)
  /\ s.refresh => p.action = "ASK_USER"
=============================================================================

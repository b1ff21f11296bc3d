# A TLA+ model of jev-orchestrator (dev-agent)

`dev-agent` is a command line program that works on a programming task in a
local repository.  In each of at most eight iterations it asks an evaluator for
the next action, lets a deterministic policy choose among the permitted ones,
asks the operator to approve it, runs it (a read-only tool, the tests, or an
external coding worker) and feeds the observation into the next iteration.
With `--save-run` every step is recorded durably, so that a run that was
stopped can be continued and one that crashed is never replayed.

This directory holds TLA+ modules of that behaviour, the TLC configurations
that check them on small instances and TLAPS proofs.  `PROJECT.json` is the
index: components, runs, the mutants that show each property can fail, the
lines each definition stands for, hazards, findings and theorems.  Paths such
as `loop.ts` are below `src/src/`; documents are in `src/docs/`, `src/README.md`
and `src/PLAN.md`.

Run a check with `tlc -config LoopSaved.cfg MCOrchestrationLoop` (the runs and
their modules are listed in `PROJECT.json`), and the proofs of a module with
`tlapm SavedRunRecordProofs.tla`; the eight modules with proofs end in `Proofs`.

## 1. Inventory

| Component | Source | State it keeps | Operations | Correct means |
|---|---|---|---|---|
| Saved-run ledger rules | `saved-runs/store.ts` 170-386, `contract.ts` | the variables of `validateEventSequence`'s fold | accept the next event, derive status and calls | every dispatch was approved and every attempt settles once; budgets span continuations; an unresolved attempt closes the record |
| Saved-run files | `saved-runs/store.ts` 388-1000 | `events.jsonl`, `checkpoint.json`, `repository.json`, `locks/` | create, append, read, inspect, list, acquire and release locks | an acknowledged event survives; a torn record is never used; a reader never shows what was not committed |
| Orchestration loop | `orchestration/loop.ts` | agent state, iteration, segment, pending failure, attempt | iterate, evaluate, recover, approve, reserve, execute, observe, stop | reserve before use, approve before execution, no work after a signal, finish only when validated |
| Run continuation | `saved-runs/resume.ts`, `cli.ts` 470-560 | the review | resume position, snapshot comparison, state refresh | only a resumable record continues, with its counters kept and its observations dropped |
| CLI process | `cli.ts`, `cancellation.ts` | locks held, signal, exit | create, resume, run, release | what is reported is what is recorded |
| Ownership locks | `saved-runs/store.ts` 534-586, 692-707; `cli.ts` | lock files per run and worktree | acquire, release | one process works on a run and in a worktree |
| Validation evidence | `repo/validation.ts` | required, passed and pending checks | extract, select, apply a result, invalidate | an older pass never counts |
| Policy and candidates | `policy.ts`, `orchestration/candidate.ts`, `repo/preparation.ts`, `agents/selection.ts` | none between calls (stops, attempts and blocked candidates are in the agent state) | propose, select, alternatives | what is proposed is permitted, what failed is not repeated, evidence comes before repair and completion |
| Tool execution | `orchestration/execute.ts`, `loop.ts` (`safelyExecute`), `diagnostics.ts` | none | refuse, read, run a command or a worker | one result per approval, and success only when it was one |
| Process runner | `process.ts` | child, timers, group | spawn, collect, time out, cancel, kill | nothing runs on after the result |
| Evaluator | `ai/evaluate.ts`, `ai/errors.ts` | attempt counter, deadline | evaluate with a retry | bounded requests, no result after an abort |
| Evaluation transports | `ai/*.ts` | none | format and parse one request | - |
| Terminal prompts | `cli/terminal.ts`, prompts of `cli.ts` | the pending question, its timer, whether input ended | question, repeat, dispose | a decision is the answer to its own question; every question ends |
| Coding workers | `agents/context.ts`, `output.ts`, `codex.ts`, `claude.ts` | the output read so far | build the evidence packet and a prompt, run a program, read its report | the packet is within its bounds and serves the call; the report does not depend on chunks |
| Rename tool | `agents/rename.ts`, `claude-tools.ts` | protocol phase, messages, renames | answer a message, rename a file | no file loses its last name |
| Repository inspection | `repo/inspect.ts`, `repo/issue.ts` | none | list, read manifests, query issues | - |
| Repository snapshots | `saved-runs/snapshot.ts`, `cli.ts` 560-640 | none; the snapshot file belongs to the record | fingerprint, compare, validate the drift | what changed since the stop was shown before the run goes on |
| Run history | `saved-runs/history.ts`, `cli/history.ts` | none | summarise, list | what it says of a record is what a continuation and the store make of it |
| Trace and summary | `logging/trace.ts`, `orchestration/summary.ts` | the trace file | append, summarise | the last entry precedes the terminal event |
| Development scripts | `scripts/` | - | benchmarks and studies | not part of the program |

How they interact.  The CLI creates or resumes a record under two ownership
locks and calls `runOrchestration`, passing `persistence.record` as a callback
which calls `SavedRunStore.append`.  The loop awaits the evaluator, the
operator's prompt, tools, workers, trace writes and appends, one at a time:
the program is single threaded, and concurrency comes from what happens while
an await is pending: a signal, a time-out, a crash, another process.  Processes
share the files of `.dev-agent` and the worktree.

What is hard here: a crash between a reservation and its outcome; a write that
failed half way or whose confirmation was lost; a signal at each await; state
read before an await and used after it; limits that must hold over
continuations; two processes with one record; killing a process tree on time;
output cut anywhere; an editor at work on files that are read or renamed; an
answer that meets the end of input; retries against a deadline.
`PROJECT.json` lists each hazard at its line with the properties about it.

## 2. Modules

| Module | Models | Kind |
|---|---|---|
| `SavedRunLedger` | event types, `ValidNext`/`Apply` (the body of `validateEventSequence`), `Accepts` (the guards of `append`), `Resumable` | operators, no state |
| `RunHistory` | `resumePosition` and `summarizeRecord`, which search the events of a record again | operators, no state |
| `SavedRunRecord` | the record as its clients see it: `create` and `append`, whole or refused | abstract specification |
| `SavedRunRecordProofs` | theorems about histories of any length | proofs |
| `SavedRunStore` | `append` and `readForInspection` one system call at a time, with failing calls, killed processes and power loss | detailed, refines `SavedRunRecord` |
| `SavedRunStoreProofs` | theorems about the files, and the refinement | proofs |
| `OrchestrationLoop` | `runOrchestration` await by await, and the CLI around it | detailed, over the ledger rules |
| `OrchestrationLoopProofs` | theorems about the loop and its record | proofs |
| `RunOwnership` | several CLI processes, the run and worktree locks, the review of a continuation | detailed |
| `RunOwnershipProofs` | theorems for any number of processes, runs and worktrees | proofs |
| `ProcessRunner` | one call of `runProcess` and the processes it spawned | detailed |
| `WorkerContext` | the evidence packet of a worker call and the check its runner makes | operators, no state |
| `WorkerOutput` | the incremental reading of a worker's output | operators, no state |
| `ToolExecution` | one approved call: `safelyExecute`, the executors, the packet, the process and its output | composes the three, implements `ProcessRunner` |
| `ToolExecutionProofs` | theorems about the runner, that implementation, what a call inherits, the output it reports and its packet | proofs |
| `TerminalPrompts` | questions of a run on one input, and the prompts that repeat them | detailed |
| `WorkingTree` | names, inodes and time stamps, with an editor | shared state |
| `RenameTool` | the rename endpoint of the Claude worker, call by call | detailed, over `WorkingTree` |
| `RepositoryReview` | the captures at a stop and at a continuation, and the drift shown | composes `RenameTool` |
| `RepositoryReviewProofs` | theorems about the rename tool and the captures | proofs |
| `Evaluator` | one evaluation: requests, retry delay, deadline, signal | detailed |
| `AwaitedCallsProofs` | theorems about `TerminalPrompts` and `Evaluator` | proofs |
| `DecisionRules` | validation, preparation, policy, candidates, the checks around an approval | operators, no state |
| `DecisionCycle` | a task as a sequence of decisions and their results | detailed, over the decision rules |
| `DecisionCycleProofs` | theorems about it | proofs |
| `MC*` | constants for TLC | |

How they fit.  `SavedRunLedger` is shared: `SavedRunRecord` is the record as an
atomic object, `SavedRunStore` implements it in system calls, and
`OrchestrationLoop` is a client that has to follow the same rules.
`OrchestrationLoop` takes one process at a time for granted, which is what
`RunOwnership` shows of the locks; it assumes that tools and evaluations end,
which is what `ToolExecution`, `TerminalPrompts` and `Evaluator` show, as far as
it is true; and it lets any permitted action be proposed, which `DecisionCycle`
narrows to what policy and candidate rules propose, without signals and storage.
`RepositoryReview` is the part of a continuation that looks at files, below the
locks of `RunOwnership`, which keep other processes of the program out but no
editor; `ToolExecution` ends the rename tool together with its worker.

**SavedRunLedger.**  `validateEventSequence` folds the whole ledger on each read
and append; its loop variables are the fields of the *ledger summary*, `Apply`
is one turn of the loop and `ValidNext` its checks.  One constructor stands for
each member of `SavedRunEventData`.  `SEARCH_REPO` and `RUN_COMMAND` are treated
as `READ_FILE` is, and one tool stands for the three.  Hashes, times and byte
bounds are left out: a record that fails them is unreadable, which is what
*torn* means in the other modules.

**SavedRunRecord** keeps the whole history of events beside the summary, so the
rules that the fold checks locally can be stated about histories: every
dispatch has an approval in its own iteration, budgets hold over segments.
`RunHistory` is what two readers make of the events without that summary; it is
checked here, against the record of every history (`ReviewMatchesRecord`).

**SavedRunStore.**  `cache` is what processes see, `disk` what `fsync` has made
durable, and `PowerLossHappens` resets one to the other.  A checkpoint is the
list of events it vouches for, which is what its `ledgerHead`, `sequence` and
`stateHash` establish.  Each append runs under the update lock through
`reading`, `snapshot`, `syncSnapshot`, `append`, `line`, ... to `release`; any call may
fail and any process may be killed in between.  The refinement mapping
(`Record == INSTANCE SavedRunRecord WITH ...`) makes the checkpoint's history the
abstract one; the rename of the checkpoint is the step that appends.  A power
loss may take events back, but only at the end and only such as nobody was told
of (`TakenBack`).

**OrchestrationLoop.**  `pc` names the pending await.  A step begins when an await
returns and runs to the next one, as JavaScript does.  `ev` is the event being
recorded (or to be recorded after the trace entry), `agent` the part of
`AgentState` that control depends on: iteration, calls, refresh request, the
outcome of tests, the checks named by the task, those required and those
passed in the current validation generation, and whether some text of the state
is longer than the saved contract admits.  Which action is proposed is any one
the post-approval checks let through, so every choice of the policy is covered.
`launched`, `evals`, `fresh` and `lastWrite` are history for
properties; no guard reads them.

**RunOwnership.**  A lock file is free, owned, or stale, and a process that finds it
taken gives up; nobody waits.  A continuation takes the run lock before it reads
the record and the worktree lock after it, a new run the worktree lock first;
`releaseRun` and `releaseTree` are the nested `finally` blocks, and each removal
may fail.  A crash leaves locks, and `ClearStale` is the operator removing them.
`edits` and `outside` count changes of a worktree by the program and by others; a
review shows both, and only the first is protected by a lock.

**ProcessRunner.**  Handlers are actions; between two of them the processes of the
command fork, close their pipes, ignore `TERM`, leave the group or exit.
`Targets` is what a signal reaches: the group on POSIX, the child alone
elsewhere.  `SIGKILL` ends its targets at once.  `signalled` is history for
`StopIsReported`.  `close` is emitted when the child is dead and nobody holds the pipes.

**WorkerContext** measures texts in units: a text has a length and a factor by which
JSON escapes it, and a packet has a size, so that the halving of excerpts, the
list limits and the final size check are those of `context.ts`.  The halving finds
the longest prefix that fits; `addText` is that prefix.  `HasRoom` says of an agent
state that goal, title and the rest of the header leave room for the texts.
**WorkerOutput** reads symbols: a report, a usage event, an unusable event, plain
text, a newline; a frame that gets too long is dropped up to its newline.

**ToolExecution** adds to the runner's steps the action, the evidence the call was
proposed with, the packet, the exit code, the output written so far and how much
of it was delivered.  A call is refused, reads a file without a process, or runs
one; the signal can fire between the close of the process and the return of
`safelyExecute`.  `direct` stands for the other callers of `runProcess`, which
have no output to interpret.  Every step is a step of `ProcessRunner` or leaves
it alone, which is proved.

**TerminalPrompts.**  A question waits for its reader; between the line the reader
takes and the continuation of `question()`, end of input, the timer, a signal and
disposal may still happen, and the close of a reader may arrive during the next
question.  `windowsKeys` and `styled` are the consoles the code distinguishes.
`stops` lists what stopped the question, in order, for properties only.

**WorkingTree, RenameTool, RepositoryReview.**  A name leads to an inode or to none,
an inode has content, `mtime` and `ctime`; an editor writes in place, replaces,
removes, links, moves and sets times back.  The rename tool is `lstat`, `link`,
`lstat`, `unlink`, each its own step, within a protocol of initialize, list and
call that counts messages and attempts; its worker may be killed between any
two.  A capture lists the names, looks at each, opens, reads and compares it,
lists again and looks at each again.  `RepositoryReview` takes one at the stop, one
for the drift, which is shown, and one after the operator agreed.  `disturbed`,
`swapped`, `atRelist` and `atStop` are history for properties.

**Evaluator.**  Time is a number of ticks, and a timer that is due runs before
time goes on.  The provider answers anything at any time, or never; `request`
says whether the body of a response is being read.

**DecisionRules** is the arithmetic of a decision.  A probability is over or under
its threshold (`Assessments`), the policy is its list of rules in order, and a
signature is a record instead of its hash.  `SEARCH_REPO` stands for
`RUN_COMMAND` too.  Scripts, what the command of one calls and which texts name
which script are constants, instead of the patterns that extract them.  The unread
files are offered in a fixed order.  The worker selection of a run is that of its
state, Codex is not blocked for lack of a network, and a failed check is one of the
present generation (`validation.ts:111` falls back on a result without one, which
the loop resets whenever the generation advances).

**DecisionCycle.**  One iteration is `Evaluate` (policy and candidate), any number of
`Alternative`s, and a rejection, a stop or the approved action with its result.
`verified` and `red` say which checks passed or failed on the present worktree,
`kept` what was required at the last continuation, `spent` which proposals
failed and what was learned since: history for properties, never read by guards.

## 3. What the runs show

| Run | Bounds | Question |
|---|---|---|
| `SavedRunRecord` | 3 iterations, 1 worker, 8 events after creation, 2 attempt ids | Do the rules by which a single event is accepted imply the rules about whole histories, and do history and continuation read from the events what the store enforces? |
| `StorePowerLoss` | 2 writers, an inspector, 3 events after creation, power loss | Is an acknowledged event ever lost, a stop ever without its snapshot, an uncommitted event ever listed; does the file protocol implement the abstract record? |
| `LoopSaved` | 3 iterations, 1 call of 1 worker, 1 script, 18 events | The safety of a saved run through signals, crashes, failing writes and continuations, and does a process always end? |
| `LoopUnsaved` | 3 iterations, 1 call of each of 2 workers, 2 scripts | Is a finish validated without a record that checks it? |
| `RunOwnership` | 2 processes, 2 runs, 1 worktree, 2 segments, 1 edit of each kind | Do two processes ever share a record or a worktree, is a continued run the one that was reviewed, does a process leave locks behind? |
| `ToolExecution` | 1 descendant, 8 outputs in every chunking, 2 items per list, generations to 3 | Does anything survive the result, does a report conceal a stop, does it depend on chunks, does the packet serve its call, and does a call return? |
| `TerminalPrompts` | 3 questions | Is every decision the answer to its own question, is the first cause reported, does a question end? |
| `RepositoryReview` | 3 names, 3 inodes, 2 edits, 1 rename, 3 messages | Was every change since the stop shown before the run goes on; does the tool ever take the last name of a file? |
| `Evaluator` | 1 retry, deadline after 3 ticks, retry delays of 1, 3 and 5 | Nothing after a stop, the right outcome, and does it settle by its deadline? |
| `Decision` | 4 iterations, 2 calls of 1 worker, 1 continuation, 3 scripts, 3 repositories a worker may leave, linked and described tasks | Do the four places that state the same conditions agree; is a finish verified, a repair grounded, a retry new? |
| `LongObservation`, `OriginalChecks` | as `LoopSaved` (20 events), `Decision` (without instruction files) | Statements of the documents the program does not keep; section 6 |

The type invariants (`TypeOK`) document the state and are used by the proofs;
the runs spend their time on the properties above.

Why the bounds are enough.  Three iterations let a run fail an evaluation,
recover, use its worker and still finish or be exhausted; one call of a worker
is the smallest allowance that can be exceeded (the program's is two per
worker); two scripts distinguish *some* from *every* required check passed.
`EventLimit` is 128 in the program, where at most 8 iterations produce some
fifty events without continuations; a stop and a continuation before any
iteration adds two events each, so the limit is what makes histories finite,
and 18 allows several continuations.  Two writers are all the update lock can
tell apart, and all an ownership lock can: the third process behaves as the second.  In the store's runs, the
inputs are the events which differ in what `append` does with them (a stop
that carries a snapshot and others).  `WriterSymmetry` and `InodeSymmetry` are used only with safety
properties.  One descendant that may ignore `TERM`, hold the pipes or leave the
group is the smallest tree; the theorems about the runner hold for any.  The
packet has the code's 24 units of 250 characters, so texts and lists compete
as they do there, with two items per list instead of eight; the outputs are
short because a chunk can end anywhere in them.  A question can inherit
something from the one before it only, so three give every pair and what it
leaves.  Three inodes let a removed file's number be used again, two edits
let an editor undo or replace what it did; a third message is one more than
the tool needs for a rename.  Three ticks put a retry before, at and after the
deadline.  Four iterations are a worker, a failed check, a repair and its
check, or preparation, a worker, a check and a finish; the program has eight,
and what a ninth answer, failure or check would push out of the evidence
(`slice(-8)`) does not exist in a run.  The three repositories are one whose
script runs another, one with two independent scripts and one with none.

`CHECK_DEADLOCK FALSE` is set because the things modelled really end: nothing
happens after a finished or blocked record, a settled call or a finished task.

## 4. Fairness

`FairSpec` of the loop assumes `WF_vars(Progress)`: an await that is pending
returns.  Storage, trace and inspection calls return or fail; an evaluation
settles (`Evaluator`'s `SettlesInTime`); a prompt ends by its timer
(`TerminalPrompts`' `QuestionsEnd`), and `interruptible` (`cancellation.ts`) ends
the other waits after a signal.  A tool or a worker ends because `runProcess`
kills it, which `ToolExecution`'s `Returns` shows on POSIX for processes that stay
in their group: one that leaves it with the pipes open, or any grandchild on
Windows, can keep `close` away for ever, and the loop with it.  Nothing is
assumed of the operator, of signals or of faults.  Weak fairness of the
disjunction is enough, since exactly one await is pending.

`ToolExecution`, `TerminalPrompts` and `Evaluator` assume that timers fire, that
queued events are delivered and that the code goes on after them, each weakly
fair since nothing but the step itself disables it; the processes, the operator
and the provider owe nothing.  The other modules assume no fairness.

## 5. Proofs

Each module states an inductive invariant, checks it action by action and draws
the properties from it.  Every invariant and action property that a run checks
is proved.

**OrchestrationLoopProofs**, for all limits, worker selections and script sets, saved
or not, from `LimitsAssumption` (the limits are naturals, the workers allowed
are workers) and `SavedAssumption`.  `WorkerBudgetHolds`: no worker is started more
often than its allowance over all segments, crashes and continuations, and never
more often than the durable record says.  The limit is checked when the proposal
is approved, the call is charged two awaits later by the reservation, and in an
unsaved run only after the worker returned; so `Inv` adds to `TypeOK` what the
pending event says of the counters (`PendingOK`) and how launches and counters
relate at every await (`LaunchesCharged`).

The eight properties about the loop and its record need more, since the loop
decides from its own memory, which is ahead of the record while an event is on
its way and gone after a crash.  `Agreement` says of every await what the event on
its way may be (`EventOK`) and that the ledger's rules will take it (`OfferedOK`),
what a record at rest looks like (`RecordOK`), where memory and record agree
(`MemoryOK`, `ControlOK`) and which checks passed on the present worktree (`PassesOK`).
From it follow `ExecutionIsOnRecord`, `StopIsContinuable`,
`LoopFollowsLedgerRules`, `UncertainIsFinal`, `TraceBeforeTerminalEvent`,
`NoWorkAfterSignal`, `ResultMatchesRecord` and `FreshFinish`.  `LoopFollowsLedgerRules` is
the one that carries weight elsewhere: it is why the guards of `append` are never
met by surprise.

**SavedRunRecordProofs**, for all limits, attempt ids and callers, and histories of
any length, from `LimitsAssumption`: `EveryDispatchApprovedHolds`,
`FinishNeedsFreshApprovalHolds`, `BudgetsSpanSegmentsHolds` and
`ReviewMatchesRecordHolds`.  The rules look at the summary, the properties at the
history, so the invariants say what the one knows of the other: `Counted` (the
last iteration and the calls are cardinalities of sets of events), `Settled` (an
iteration without an evaluation is newer than every evaluation), `Approved` (an
approval in the summary is in the history with nothing but outcomes after it),
and `Readable` (the pending failure, the segment, the open attempts and the
status are what a search of the events finds).

**SavedRunStoreProofs**, for any writers, attempt ids, limits and set of events, with
failing calls, killed processes and power loss, from `StoreAssumption` (a writer is
not called `"free"` or `"stale"`) and `InputsAssumption` (what is appended is an event):
`AcknowledgedSurvivesHolds`, `StopHasItsSnapshotHolds`,
`InspectionShowsCommittedHolds`, and the refinement `RecordSpecHolds`.  There are
four versions of the ledger, the checkpoint and the events, each as cached and as
synced.  `Ordered` says that each is a prefix of the next, synced checkpoint first,
cached events last; a power loss replaces the cached by the synced ones and
keeps that.  `Locking` makes everything else a matter of the one process inside
`append`: until it renames the checkpoint it adds one event that the ledger's rules
allow to the history it read (`Writing`), from then on the checkpoint vouches for
an event that is already synced (`Committing`), so what a caller is told of is
durable (`Acknowledged`).  `Snapshotting` and `Snapshotted` place the sync of a snapshot
before the stop that needs it.  In the refinement, the rename of the checkpoint
is the abstract append, the reset of a power loss is `TakenBack`, and every other
step leaves the abstract record alone.  `Summary` is a recursive function; that it
exists, and that appending an event applies one `Apply`, is proved from the
well-foundedness of the naturals (a shortest history at which it fails), since
the library's theorems about recursion are out of the provers' reach.

**RunOwnershipProofs**, for any number of processes, runs and worktrees, from
`OwnershipAssumption`: `ExclusiveHolds`, `ReviewIsCurrentHolds` and
`NothingLeftBehindHolds`.  `Local` says of one process at each of its steps which
locks it holds (`Holds`), what stays true because it holds them (`Knows`) and what
it has already given up (`Left`); the steps of others cannot touch any of it.

**ToolExecutionProofs**, first about `ProcessRunner` for any set of descendants, on
POSIX and elsewhere, from `RunnerAssumption` (the child is none of its
descendants): `NoSurvivorsHolds` and `QuietAfterResultHolds`.  `NoSurvivors` speaks of
the moment of the result only.  `Escalating` says what makes it true from the first
`TERM` on, that a call timed out or cancelled has either nothing left in reach or
its second signal pending, and `Quiet` that timers and listeners exist between the
spawn and the result only; `Finish` keeps the promise open while an escalation is
pending.  Then about tool calls: `ToolsRunProcesses`, every behaviour of
`ToolExecution` is one of `ProcessRunner` (initial states and steps map by leaving
out what is added), with it `ToolsAreQuiet`, both properties of every tool call,
for every evidence, output and bound.  `StopIsReportedHolds` relates the signals
really sent to the report: `Remembered` says that whoever was signalled, or is about
to be, left a reason behind, that nothing of a closed call holds the pipes, and that
only a failed spawn is rejected; `Reported` that a result is that of a settled call
or of one that never spawned, after which nothing is signalled (`NothingFollows`).

The same module proves what a worker call reports and what it is sent.
`OutputMatchesStreamHolds`: for any output and however it is cut into chunks, the
message and the usage are those the lines of the whole output say.  The reader is
a fold over the lines of a chunk after a fold over chunks; the proof replaces both
by the positions of newlines (`Breaks`, numbered by `Rank`), between which lie the
parts of any text (`PartsOfText`).  The inductive invariant `ReadsOutput` says that the
reader is what `HasRead` says of the symbols delivered so far: counters, message and
usage are those of the complete lines, and the line that is incomplete is held, or
known to be too long.  `TakePartReads` and `EndLineReads` carry that over a part and a
newline, `ChunkReads` over a chunk, and `FinishMatches` gets the report from it.
`PacketServesTheCallHolds`: for any texts and lists, the packet is one that
`assertWorkerContext` accepts (up to the generation it admits), and holds some of the
latest answer and of the validation failure.  `AddTextFits` and `AddItemsFits` keep
the packet within its size at each step and say when a text is left out.  It rests on
`EvidenceAssumption`: the header leaves room for an answer of twice the excerpt and
one character of the failure.  With the code's limits the header takes some 3,400 of
the 3,994 characters there are then, so it holds unless JSON makes goal and issue
title together about twice as long.  For a goal and title made almost entirely of
characters that JSON escapes nothing is claimed; the comment at `context.ts:127`
makes no exception for them.  From the same assumption, `PacketFitsHolds`: the last check
of `buildWorkerContext` (`context.ts:209`) never throws.

**AwaitedCallsProofs**, the calls that a timer or a signal ends.  For any number of
questions: `DecisionsAreAnswersHolds` and `FirstReasonReportedHolds`, from an
invariant that a question's abort flag is set if and only if something stopped
it, and its reason is the first that did.  For any provider, retry limit and
delays: `NothingAfterStopHolds` and `InterruptionIsTheOperatorsHolds`, because a
stopped evaluation has settled before anything else happens (`Stopped`) and a
response that outlives it will be cancelled (`Unread`); and for any deadline
`WithinDeadlineHolds`, the half of `SettlesInTime` that is no liveness (`Timed`), from
`EvaluatorAssumption`.

**DecisionCycleProofs**, for every set of repositories, scripts, worker selection and
any number of iterations, calls and stops: `FinalChecksAgreeHolds`,
`FinishVerifiedHolds`, `RepairIsGroundedHolds` and `NoBlindRetryHolds`.  Decisions read
the agent state, the properties read the history of the worktree, and the
invariant relates them: a recorded check is of the present worktree unless the
generation or a refresh says otherwise (`ChecksOK`), a script without a pass has
a failure or nothing as its latest result (`VerifiedOK`), the reverse for failures
(`RedOK`), and what failed is remembered until something relevant to it was
learned (`FailuresOK`).  `CycleAssumption` says of the constants that a repository is
one `Snapshot` returns, and that what a script covers is closed over calls.  The
second part is needed.  `test` fails, `verify`, which runs it, passes and makes up
for that, then `verify` fails: its record replaces the pass, and the old failure of
`test` counts again.  A pass of a third script that covers `verify` without `test`
would clear the one and not the other, and `RepairIsGrounded` would be false with
nothing red.  The code follows chains of calls (`validationWorkflow`) up to eight
long, so the theorems speak of repositories without longer ones.

**RepositoryReviewProofs**, for any names, inodes, editors and limits, from
`TreeAssumption`: `ToolLosesNothingHolds`.  From the link on the new name leads to
the file that was looked at, and from the second look on the old one does too,
unless an editor changed them since.  And `DriftIsShownHolds`: a capture reads file
by file beside an editor, and still is the state of all its files at one moment,
when they were listed again.  No change takes back a `ctime` (`StampsOK`), so a
file with the `ctime` it was opened with has the content that was read
(`HandleOK`, `CollectedOK`), and a name that leads to it at the second look led
there at the listing (`RecheckOK`).  `ReviewOK` carries that to the snapshots kept at
the stop, shown and confirmed.

Model-checked only: all liveness (`ProcessEnds`, `Returns`, `QuestionsEnd`,
`SettlesInTime`), which is out of the prover's reach.  The library's induction theorems
take an operator, which no installed prover instantiates; where a proof counts, up to
the length of a text or the items of a list, it uses the least element of a set of
naturals instead (`Least`, `UpTo`).

## 6. Where the documents say otherwise

- **LongObservation** (`loop.ts:969`, 420-453).  The saved state is documented as
  bounded (`docs/saved-runs-v1.md:62`), but answers and observations are not cut to
  the bound `contract.ts:136` enforces, so the next append is refused and the run
  ends as a storage failure.
- **OriginalChecks** (`loop.ts:490`, 983).  `PLAN.md:563` and `README.md:1120` say
  that the checks required before a continuation stay required even if a script
  is removed.  `refreshResumeState` stores them in `repo.requiredValidationScripts`,
  and the inspection after the next worker replaces `repo`: when the worker
  removed the script, the run is finished without it.

Met on the way, and without a run of their own:

- When a signal arrives while `iteration_limit` is being recorded, the loop
  writes another trace entry and offers `run_stopped` to the exhausted record,
  which refuses it (`loop.ts:1127`); `docs/saved-runs-v1.md:128` says that required
  final trace writes complete before a terminal saved transition.
- A continuation clears the refresh request of a failed inspection
  (`resume.ts:72`) and inspects anew, where `README.md:730` wants an answer first;
  and a run that stops between the recovery of a failed evaluation and the next
  one asks for that recovery again (`resume.ts:19`, `PLAN.md:473`).
- A first line that is no JSON, followed by an event that is too long or cut,
  makes the reader return the raw output (`output.ts:79`), which its comment
  excludes.
- `contract.ts:91` admits a validation generation up to 1,000,000, the worker
  context one up to 8.  Worker calls and continuations raise it, so after many
  continuations a call is charged and then refused when its packet is checked.
  `PacketServesTheCall` leaves that case out by name.
- The rename tool compares before it unlinks, and the two are not one call.  An
  editor that replaces the source in between, or removes the new name, makes it
  take the last name of a file; `ToolLosesNothing` names that case.
- A snapshot looks at a name that git lists and that is absent only in passing:
  one that appears and vanishes between two looks is not seen.  The model lets
  no two edits share a time stamp, so it does not speak of changes below the
  clock's resolution.  The display of the drift ends after 20 paths.
- History lists a required refresh or omitted requirements as blockers of a run
  that `resumePosition` accepts; those lie outside the events (`Surroundings`).

## 7. Not modelled, and the plan

Left out for good: HTTP formats of the transports, prompt texts and argument
lists of workers, the parsing of the command line, terminal layout
(`cli/presentation.ts`, `cli/usage.ts`), redaction and the contents of traces
(they decide nothing that follows), the queries of `git`, `package.json` and
GitHub that an inspection makes, and the `scripts/` directory, which runs the
program from outside.

The order was: the ledger rules and the record; the loop over them; the store
below; ownership, processes and evaluation, which the loop relies on; the
decision, which narrows it; then one tool call as a whole, the prompts, the
files under a continuation, and the readers of a record.  That much is here.
Next:

1. `create` of the store, its directory, and the listing of several runs.
2. The system calls of the ownership locks as those of the update lock are.

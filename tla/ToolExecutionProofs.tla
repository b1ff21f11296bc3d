------------------------- MODULE ToolExecutionProofs -------------------------
(***************************************************************************)
(* Proofs about ProcessRunner for any set of descendants, on every         *)
(* platform, whether or not a descendant may leave the group, and about    *)
(* the tool calls that use it.                                             *)
(*                                                                         *)
(* NoSurvivors speaks of the moment the call returns.  What makes it so    *)
(* holds from the first TERM on: as long as something in reach may still   *)
(* run, an escalation is pending, and a pending escalation keeps the       *)
(* promise open (Escalating, Quiet).                                       *)
(*                                                                         *)
(* A tool call is a call of runProcess: every step of ToolExecution is one *)
(* of ProcessRunner or leaves the runner alone, so that what is proved of  *)
(* the runner holds for every worker, command, evidence and output.        *)
(*                                                                         *)
(* What a worker reports (OutputMatchesStream) is read in chunks cut       *)
(* anywhere.  A text is described by the positions of its newlines, its    *)
(* breaks, rather than by a recursion: the parts of a chunk are what lies  *)
(* between its breaks (PartsOfText), and the state of the reader after the *)
(* first n symbols of the output says what the complete lines among them   *)
(* say and holds the incomplete one (HasRead).  Every chunk keeps that     *)
(* (ChunkReads), and from it finish makes what the lines of the whole      *)
(* output say (FinishMatches).                                             *)
(*                                                                         *)
(* The evidence packet (PacketServesTheCall) is built by steps that each   *)
(* keep it within its size; that the answer and the failure find room      *)
(* rests on EvidenceAssumption.                                            *)
(***************************************************************************)
EXTENDS ToolExecution, FiniteSetTheorems, SequenceTheorems, WellFoundedInduction, TLAPS

-----------------------------------------------------------------------------
(* The process runner by itself.                                           *)

\* Whoever was told to stop is gone, or will be killed.
Escalating == timedOut \/ cancelled => grace \/ Targets = {}

\* Nothing is registered before the spawn, and nothing after the result.
Quiet ==
  /\ phase = "called" =>
       alive = {} /\ ~timeout /\ ~grace /\ ~listening /\ ~timedOut
       /\ (cancelled \/ outcome # "pending" => aborted)
  /\ phase = "unspawned" => alive = {} /\ ~grace
  /\ outcome # "pending" => ~timeout /\ ~grace /\ ~listening

\* Whoever was signalled, or is about to be, was stopped for a reason that is
\* remembered; close comes last; only a spawn that failed is rejected.
Remembered ==
  /\ signalled \/ grace => timedOut \/ cancelled
  /\ cancelled => aborted
  /\ signalled => phase = "spawned"
  /\ closed => phase = "spawned" /\ "child" \notin alive /\ holding = {}
  /\ outcome = "rejected" => phase = "unspawned"

Inv == TypeOK /\ Quiet /\ Escalating /\ Remembered

LEMMA InvInit == Init => Inv
BY DEF Init, Inv, TypeOK, Quiet, Escalating, Remembered, Procs

LEMMA TypeOKStep == TypeOK /\ [Next]_vars => TypeOK'
<1> SUFFICES ASSUME TypeOK, [Next]_vars PROVE TypeOK'
  OBVIOUS
<1> USE DEF TypeOK, Procs
<1>1. CASE CancelledBeforeSpawn
  BY <1>1 DEF CancelledBeforeSpawn, processes
<1>2. CASE Spawn
  BY <1>2 DEF Spawn, flags
<1>3. CASE SpawnFails
  BY <1>3 DEF SpawnFails, processes, flags
<1>4. CASE ErrorEvent
  BY <1>4 DEF ErrorEvent, processes, flags
<1>5. CASE TimeoutFires
  BY <1>5 DEF TimeoutFires, Terminate, SendTerm, Signal, Survive, processes
<1>6. CASE GraceEnds
  BY <1>6 DEF GraceEnds, SendKill, Signal, Survive, Finish, flags
<1>7. CASE CloseEvent
  BY <1>7 DEF CloseEvent, Finish, processes
<1>8. CASE Abort
  BY <1>8 DEF Abort, Terminate, SendTerm, Signal, Survive, processes
<1>9. CASE ProcessStep
  <2>1. CASE \E p \in Procs : CloseOutput(p)
    BY <1>9, <2>1 DEF ProcessStep, CloseOutput, flags
  <2>2. CASE \E p \in Procs : LeaveGroup(p)
    <3>1. group' \subseteq alive' /\ UNCHANGED <<alive, holding>>
      BY <2>2 DEF LeaveGroup
    <3> QED
      BY <1>9, <3>1 DEF ProcessStep, flags
  <2>3. CASE \E p \in Procs : Exit(p)
    BY <1>9, <2>3 DEF ProcessStep, Exit, Survive, flags
  <2>4. CASE \E p \in Procs, d \in Descendants : Fork(p, d)
    <3>1. alive' \subseteq Procs /\ group' \subseteq alive' /\ holding' \subseteq alive'
      BY <2>4 DEF Fork
    <3> QED
      BY <1>9, <3>1 DEF ProcessStep, flags
  <2> QED
    BY <1>9, <2>1, <2>2, <2>3, <2>4 DEF ProcessStep
<1>10. CASE UNCHANGED vars
  BY <1>10 DEF vars, processes, flags
<1> QED
  BY <1>1, <1>2, <1>3, <1>4, <1>5, <1>6, <1>7, <1>8, <1>9, <1>10 DEF Next, Runner

LEMMA QuietStep == Inv /\ [Next]_vars => Quiet'
<1> SUFFICES ASSUME TypeOK, Quiet, [Next]_vars PROVE Quiet'
  BY DEF Inv
<1> USE DEF TypeOK, Quiet, Procs
<1>1. CASE CancelledBeforeSpawn
  BY <1>1 DEF CancelledBeforeSpawn, processes
<1>2. CASE Spawn
  BY <1>2 DEF Spawn, flags
<1>3. CASE SpawnFails
  BY <1>3 DEF SpawnFails, processes, flags
<1>4. CASE ErrorEvent
  BY <1>4 DEF ErrorEvent, processes, flags
<1>5. CASE TimeoutFires
  BY <1>5 DEF TimeoutFires, Terminate, SendTerm, Signal, Survive, processes
<1>6. CASE GraceEnds
  BY <1>6 DEF GraceEnds, SendKill, Signal, Survive, Finish, flags
<1>7. CASE CloseEvent
  BY <1>7 DEF CloseEvent, Finish, processes
<1>8. CASE Abort
  BY <1>8 DEF Abort, Terminate, SendTerm, Signal, Survive, processes
<1>9. CASE ProcessStep
  BY <1>9 DEF ProcessStep, Fork, CloseOutput, LeaveGroup, Exit, Survive, flags
<1>10. CASE UNCHANGED vars
  BY <1>10 DEF vars, processes, flags
<1> QED
  BY <1>1, <1>2, <1>3, <1>4, <1>5, <1>6, <1>7, <1>8, <1>9, <1>10 DEF Next, Runner

LEMMA EscalatingStep == Inv /\ [Next]_vars => Escalating'
<1> SUFFICES ASSUME TypeOK, Quiet, Escalating, [Next]_vars PROVE Escalating'
  BY DEF Inv
<1> USE DEF TypeOK, Quiet, Escalating, Targets, Procs
<1>1. CASE CancelledBeforeSpawn
  BY <1>1 DEF CancelledBeforeSpawn, processes
<1>2. CASE Spawn
  BY <1>2 DEF Spawn, flags
<1>3. CASE SpawnFails
  BY <1>3 DEF SpawnFails, processes, flags
<1>4. CASE ErrorEvent
  BY <1>4 DEF ErrorEvent, processes, flags
<1>5. CASE TimeoutFires
  BY <1>5 DEF TimeoutFires, Terminate, SendTerm, Signal, Survive, processes
<1>6. CASE GraceEnds
  BY <1>6, RunnerAssumption DEF GraceEnds, SendKill, Signal, Survive, flags
<1>7. CASE CloseEvent
  BY <1>7 DEF CloseEvent, Finish, processes
<1>8. CASE Abort
  BY <1>8 DEF Abort, Terminate, SendTerm, Signal, Survive, processes
<1>9. CASE ProcessStep
  BY <1>9, RunnerAssumption DEF ProcessStep, Fork, CloseOutput, LeaveGroup, Exit, Survive, flags
<1>10. CASE UNCHANGED vars
  BY <1>10 DEF vars, processes, flags
<1> QED
  BY <1>1, <1>2, <1>3, <1>4, <1>5, <1>6, <1>7, <1>8, <1>9, <1>10 DEF Next, Runner

LEMMA RememberedStep == Inv /\ [Next]_vars => Remembered'
<1> SUFFICES ASSUME TypeOK, Quiet, Remembered, [Next]_vars PROVE Remembered'
  BY DEF Inv
<1> USE DEF TypeOK, Quiet, Remembered
<1>1. CASE CancelledBeforeSpawn
  BY <1>1 DEF CancelledBeforeSpawn, processes
<1>2. CASE Spawn
  BY <1>2 DEF Spawn, flags
<1>3. CASE SpawnFails
  BY <1>3 DEF SpawnFails, processes, flags
<1>4. CASE ErrorEvent
  BY <1>4 DEF ErrorEvent, processes, flags
<1>5. CASE TimeoutFires
  BY <1>5 DEF TimeoutFires, Terminate, SendTerm, Signal, Survive, processes
<1>6. CASE GraceEnds
  BY <1>6 DEF GraceEnds, SendKill, Signal, Survive, Finish, flags
<1>7. CASE CloseEvent
  BY <1>7 DEF CloseEvent, Finish, processes
<1>8. CASE Abort
  BY <1>8 DEF Abort, Terminate, SendTerm, Signal, Survive, processes
<1>9. CASE ProcessStep
  BY <1>9, RunnerAssumption DEF ProcessStep, Fork, CloseOutput, LeaveGroup, Exit, Survive, flags
<1>10. CASE UNCHANGED vars
  BY <1>10 DEF vars, processes, flags
<1> QED
  BY <1>1, <1>2, <1>3, <1>4, <1>5, <1>6, <1>7, <1>8, <1>9, <1>10 DEF Next, Runner

\* Type correctness, the escalation, the reasons and the silence after the result
\* hold in every reachable state.
THEOREM InvHolds == Spec => []Inv
<1>1. Inv /\ [Next]_vars => Inv'
  BY TypeOKStep, QuietStep, EscalatingStep, RememberedStep DEF Inv
<1> QED
  BY InvInit, <1>1, PTL DEF Spec

\* No call of runProcess that timed out or was cancelled returns while a
\* process in its reach still runs (terminate and finish in process.ts).
THEOREM NoSurvivorsHolds == Spec => []NoSurvivors
<1>1. Inv => NoSurvivors
  BY DEF Inv, Quiet, Escalating, NoSurvivors
<1> QED
  BY <1>1, InvHolds, PTL

\* Nothing of a settled call is left that could send a signal.
THEOREM QuietAfterResultHolds == Spec => []QuietAfterResult
<1>1. Inv => QuietAfterResult
  BY DEF Inv, Quiet, QuietAfterResult
<1> QED
  BY <1>1, InvHolds, PTL

-----------------------------------------------------------------------------
(* Tool calls.                                                             *)

LEMMA ToolStepIsRunnerStep == [ToolNext]_toolVars => [Next]_vars
<1> SUFFICES ASSUME [ToolNext]_toolVars PROVE [Next]_vars
  OBVIOUS
<1>1. CASE Executor
  BY <1>1 DEF Executor, Refused, ReadReturns, StartProcess, DirectCall, Return, Next, Runner
<1>2. CASE ProcessActs
  BY <1>2 DEF ProcessActs, Next
<1>3. CASE ErrorReported \/ Closed
  BY <1>3 DEF ErrorReported, Closed, Next, Runner
<1>4. CASE Signalling(Abort) \/ Signalling(TimeoutFires) \/ Signalling(GraceEnds)
  BY <1>4 DEF Signalling, Next, Runner
<1>5. CASE (\E symbol \in Symbols : Write(symbol)) \/ Data
  BY <1>5 DEF Write, Data, Deliver
<1>6. CASE UNCHANGED toolVars
  BY <1>6 DEF toolVars
<1> QED
  BY <1>1, <1>2, <1>3, <1>4, <1>5, <1>6 DEF ToolNext

\* Tool execution implements the process runner.
THEOREM ToolsRunProcesses == ToolSpec => Spec
<1>1. ToolInit => Init
  BY DEF ToolInit
<1> QED
  BY <1>1, ToolStepIsRunnerStep, PTL DEF ToolSpec, Spec

\* No tool call reports a result while a process it had to kill still runs, and
\* none leaves a timer or listener that could signal another process.
THEOREM ToolsAreQuiet == ToolSpec => []NoSurvivors /\ []QuietAfterResult
BY ToolsRunProcesses, NoSurvivorsHolds, QuietAfterResultHolds, PTL

\* A runner that has settled, or has not begun and does not begin now, signals
\* nobody, and lets nobody in.
LEMMA NothingFollows ==
  ASSUME Inv, [Next]_vars, phase = "called" \/ outcome # "pending", ~Spawn, ~SpawnFails
  PROVE  /\ signalled' = signalled /\ phase' = phase
         /\ aborted => aborted'
         /\ outcome # "pending" => outcome' = outcome
         /\ "child" \notin alive /\ holding = {} => "child" \notin alive' /\ holding' = {}
<1> USE DEF Inv, TypeOK, Quiet
<1>1. CASE CancelledBeforeSpawn \/ ErrorEvent
  BY <1>1 DEF CancelledBeforeSpawn, ErrorEvent, processes, flags
<1>2. CASE TimeoutFires \/ GraceEnds
  BY <1>2 DEF TimeoutFires, GraceEnds
<1>3. CASE CloseEvent
  BY <1>3 DEF CloseEvent, Finish, processes
<1>4. CASE Abort
  BY <1>4 DEF Abort, processes
<1>5. CASE ProcessStep
  BY <1>5, RunnerAssumption DEF ProcessStep, Fork, CloseOutput, LeaveGroup, Exit, Survive, flags
<1>6. CASE UNCHANGED vars
  BY <1>6 DEF vars, processes, flags
<1> QED
  BY <1>1, <1>2, <1>3, <1>4, <1>5, <1>6 DEF Next, Runner

\* The promise of a process that was spawned resolves after its close.
LEMMA ResolvedAfterClose ==
  ASSUME Inv, [Next]_vars, outcome = "resolved" => closed, ~CancelledBeforeSpawn
  PROVE  outcome' = "resolved" => closed'
<1> USE DEF Inv, TypeOK
<1>1. CASE Spawn \/ SpawnFails \/ ErrorEvent
  BY <1>1 DEF Spawn, SpawnFails, ErrorEvent, flags
<1>2. CASE TimeoutFires
  BY <1>2 DEF TimeoutFires
<1>3. CASE GraceEnds
  BY <1>3 DEF GraceEnds, Finish, flags
<1>4. CASE CloseEvent
  BY <1>4 DEF CloseEvent
<1>5. CASE Abort
  BY <1>5 DEF Abort
<1>6. CASE ProcessStep
  BY <1>6 DEF ProcessStep, flags
<1>7. CASE UNCHANGED vars
  BY <1>7 DEF vars, flags
<1> QED
  BY <1>1, <1>2, <1>3, <1>4, <1>5, <1>6, <1>7 DEF Next, Runner

LEMMA FieldsOfReport ==
  ASSUME NEW r, NEW ok, NEW killed, NEW late, NEW text, NEW usage,
         r = [ok |-> ok, cancelled |-> killed, timedOut |-> late, text |-> text, usage |-> usage]
  PROVE  r.ok = ok /\ r.cancelled = killed /\ r.timedOut = late
OBVIOUS

\* A report is made once, and leaves the processes alone.
LEMMA ResultIsReport ==
  ASSUME [ToolNext]_toolVars, result' # result
  PROVE  /\ UNCHANGED <<vars, callVars>> /\ result = Nothing /\ call # "direct"
         /\ phase = "called" \/ outcome # "pending"
         /\ result'.cancelled = (cancelled \/ aborted)
         /\ result'.timedOut = timedOut
         /\ result'.ok => phase = "called" \/ (outcome \notin {"pending", "rejected"} /\ Succeeded)
<1>1. Refused \/ ReadReturns \/ Return
  BY DEF ToolNext, toolVars, Executor, StartProcess, DirectCall, ProcessActs, ErrorReported,
         Closed, Signalling, Write, Data, Deliver
<1>2. ASSUME NEW ok, NEW text, NEW usage, Report(ok, text, usage)
      PROVE  /\ result'.ok = (ok /\ ~aborted)
             /\ result'.cancelled = (cancelled \/ aborted)
             /\ result'.timedOut = timedOut
  BY <1>2, FieldsOfReport DEF Report
<1>3. Threw => /\ ~result'.ok
               /\ result'.cancelled = (cancelled \/ aborted)
               /\ result'.timedOut = timedOut
  BY <1>2 DEF Threw
<1>4. CASE Refused
  BY <1>3, <1>4 DEF Refused
<1>5. CASE ReadReturns
  <2>1. call # "direct"
    BY <1>5 DEF ReadReturns, Reads
  <2>2. Report(TRUE, "raw", FALSE) => /\ result'.cancelled = (cancelled \/ aborted)
                                      /\ result'.timedOut = timedOut
    BY <1>2
  <2> QED
    BY <1>3, <1>5, <2>1, <2>2 DEF ReadReturns
<1>6. CASE Return
  <2>1. call # "direct" /\ outcome # "pending"
    BY <1>6 DEF Return, Workers, ProcessTools
  <2>2. CASE Threw
    BY <1>3, <1>6, <2>1, <2>2 DEF Return
  <2>3. CASE ~Threw
    <3>1. outcome # "rejected" /\ \E text, usage : Report(Succeeded, text, usage)
      BY <1>6, <2>3 DEF Return
    <3>2. /\ result'.ok = (Succeeded /\ ~aborted)
          /\ result'.cancelled = (cancelled \/ aborted)
          /\ result'.timedOut = timedOut
      BY <1>2, <3>1
    <3> QED
      BY <1>6, <2>1, <3>1, <3>2 DEF Return
  <2> QED
    BY <2>2, <2>3
<1> QED
  BY <1>1, <1>4, <1>5, <1>6

\* Results are those of settled processes, or of calls that need none.
Reported ==
  /\ outcome = "resolved" /\ call # "direct" => closed
  /\ result # Nothing => call # "direct" /\ (phase = "called" \/ outcome # "pending")
  /\ StopIsReported

LEMMA ReportedStep == Inv /\ Reported /\ [ToolNext]_toolVars => Reported'
<1> SUFFICES ASSUME Inv, Reported, [ToolNext]_toolVars PROVE Reported'
  OBVIOUS
<1>1. [Next]_vars
  BY ToolStepIsRunnerStep
<1>2. call' = call
  BY DEF ToolNext, toolVars, callVars, Executor, Refused, ReadReturns, StartProcess, DirectCall,
         Return, ProcessActs, ErrorReported, Closed, Signalling, Write, Data, Deliver
<1>3. outcome' = "resolved" /\ call' # "direct" => closed'
  <2>1. CASE CancelledBeforeSpawn
    <3>1. phase = "called" /\ phase' = "called" /\ outcome' # outcome /\ outcome = "pending"
      BY <2>1 DEF CancelledBeforeSpawn
    <3>2. call = "direct"
      BY <3>1 DEF ToolNext, toolVars, vars, Executor, Refused, ReadReturns, StartProcess, Spawn,
             SpawnFails, DirectCall, Return, ProcessActs, ProcessStep, ErrorReported, ErrorEvent,
             Closed, CloseEvent, Signalling, Abort, TimeoutFires, GraceEnds, Write, Data, Deliver,
             Inv, Quiet
    <3> QED
      BY <1>2, <3>2
  <2>2. CASE ~CancelledBeforeSpawn
    BY <1>1, <1>2, <2>2, ResolvedAfterClose DEF Reported
  <2> QED
    BY <2>1, <2>2
<1>4. CASE result' = result
  <2>1. CASE result = Nothing
    BY <1>3, <1>4, <2>1 DEF Reported, StopIsReported
  <2>2. CASE result # Nothing
    <3>1. ~Spawn /\ ~SpawnFails
      <4>1. phase' = phase
        <5>1. phase = "called" => ~StartProcess
          BY <2>2 DEF StartProcess
        <5> QED
          BY <2>2, <5>1 DEF ToolNext, toolVars, vars, Executor, Refused, ReadReturns, StartProcess,
             DirectCall, CancelledBeforeSpawn, Return, ProcessActs, ProcessStep, ErrorReported,
             ErrorEvent, Closed, CloseEvent, Signalling, Abort, TimeoutFires, GraceEnds, Write,
             Data, Deliver
      <4> QED
        BY <4>1 DEF Spawn, SpawnFails
    <3>2. phase = "called" \/ outcome # "pending"
      BY <2>2 DEF Reported
    <3>3. /\ signalled' = signalled /\ phase' = phase
          /\ aborted => aborted'
          /\ outcome # "pending" => outcome' = outcome
          /\ "child" \notin alive /\ holding = {} => "child" \notin alive' /\ holding' = {}
      BY <1>1, <3>1, <3>2, NothingFollows
    <3> QED
      BY <1>2, <1>3, <1>4, <2>2, <3>2, <3>3 DEF Reported, StopIsReported
  <2> QED
    BY <2>1, <2>2
<1>5. CASE result' # result
  <2>1. /\ UNCHANGED <<signalled, aborted, alive, holding, phase, outcome>>
        /\ call # "direct" /\ (phase = "called" \/ outcome # "pending")
    BY <1>5, ResultIsReport DEF vars, processes
  <2>2. signalled => phase = "spawned" /\ outcome \notin {"pending", "rejected"} /\ (timedOut \/ cancelled)
    BY <2>1 DEF Inv, Remembered
  <2>3. signalled => ~result'.ok /\ (result'.timedOut \/ result'.cancelled)
    BY <1>5, <2>2, ResultIsReport DEF Succeeded
  <2>4. result'.cancelled => aborted
    BY <1>5, ResultIsReport DEF Inv, Remembered
  <2>5. result'.ok => "child" \notin alive /\ holding = {}
    <3>1. CASE phase = "called"
      BY <3>1 DEF Inv, Quiet, TypeOK
    <3>2. CASE phase # "called"
      <4>1. result'.ok => closed
        BY <1>5, <2>1, <3>2, ResultIsReport DEF Inv, TypeOK, Reported
      <4> QED
        BY <4>1 DEF Inv, Remembered
    <3> QED
      BY <3>1, <3>2
  <2> QED
    BY <1>2, <1>3, <2>1, <2>3, <2>4, <2>5 DEF Reported, StopIsReported
<1> QED
  BY <1>4, <1>5

\* Whatever its processes do with a signal, a call in which one was sent says that
\* it was stopped and is no success, no signal follows a success, and no process
\* is left that could write to a successful call (process.ts 64-131, execute.ts
\* 264-268, safelyExecute), for any descendants and on every platform.
THEOREM StopIsReportedHolds == ToolSpec => []StopIsReported
<1>1. ToolInit => Reported
  BY DEF ToolInit, Init, Reported, StopIsReported
<1>2. Inv /\ Reported /\ [ToolNext]_toolVars => Reported'
  BY ReportedStep
<1>3. Reported => StopIsReported
  BY DEF Reported
<1> QED
  BY <1>1, <1>2, <1>3, ToolsRunProcesses, InvHolds, PTL DEF ToolSpec

-----------------------------------------------------------------------------
(* Numbers.                                                                *)

\* The order of the naturals, as a relation.
Less == {ss \in Nat \X Nat : ss[1] < ss[2]}

\* Every set of naturals has a least element.
LEMMA Least ==
  ASSUME NEW T, T \subseteq Nat, T # {}
  PROVE  \E x \in T : \A y \in T : x <= y
<1>1. IsWellFoundedOn(Less, Nat)
  BY NatLessThanWellFounded DEF OpToRel, Less
<1>2. PICK x \in T : \A y \in T : ~(<<y, x>> \in Less)
  BY <1>1, WFMin
<1>3. \A y \in T : x <= y
  <2> SUFFICES ASSUME NEW y \in T, y < x PROVE FALSE
    BY <1>2
  <2>1. <<y, x>> \in Less
    BY DEF Less
  <2> QED
    BY <1>2, <2>1
<1> QED
  BY <1>3

\* What holds of 0 and of the successor of every number below n holds up to n.
LEMMA UpTo ==
  ASSUME NEW n \in Nat, NEW S, 0 \in S, \A k \in 0..(n - 1) : k \in S => k + 1 \in S
  PROVE  0..n \subseteq S
<1> SUFFICES ASSUME (0..n) \ S # {} PROVE FALSE
  OBVIOUS
<1>1. PICK x \in (0..n) \ S : \A y \in (0..n) \ S : x <= y
  <2> DEFINE T == (0..n) \ S
  <2>1. T \subseteq Nat /\ T # {}
    OBVIOUS
  <2> HIDE DEF T
  <2>2. \E x \in T : \A y \in T : x <= y
    BY <2>1, Least
  <2> QED
    BY <2>2 DEF T
<1>2. x # 0 /\ x - 1 \in 0..(n - 1)
  BY <1>1
<1>3. x - 1 \in S
  BY <1>1, <1>2
<1> QED
  BY <1>1, <1>2, <1>3

\* Every set of numbers up to n has a greatest element.
LEMMA Greatest ==
  ASSUME NEW n \in Nat, NEW T, T \subseteq 0..n, T # {}
  PROVE  Max(T) \in T /\ \A y \in T : Max(T) >= y
<1> DEFINE U == {k \in 0..n : n - k \in T}
<1>1. U \subseteq Nat /\ U # {}
  <2>1. PICK x \in T : TRUE
    OBVIOUS
  <2>2. n - x \in 0..n /\ n - (n - x) = x
    BY <2>1
  <2>3. n - x \in U
    BY <2>1, <2>2
  <2>4. U \subseteq Nat
    OBVIOUS
  <2> HIDE DEF U
  <2> QED
    BY <2>3, <2>4
<1>2. PICK k \in U : \A y \in U : k <= y
  <2> HIDE DEF U
  <2> QED
    BY <1>1, Least
<1>3. n - k \in T /\ \A y \in T : n - k >= y
  <2> SUFFICES ASSUME NEW y \in T PROVE n - k >= y
    OBVIOUS
  <2>1. y \in 0..n /\ n - y \in 0..n /\ n - (n - y) = y
    OBVIOUS
  <2>2. k <= n - y
    BY <2>1, <1>2
  <2> QED
    BY <2>1, <2>2
<1>4. \E x \in T : \A y \in T : x >= y
  BY <1>3
<1> QED
  BY <1>4 DEF Max

LEMMA MaxOfTwo ==
  ASSUME NEW a \in Int, NEW b \in Int
  PROVE  Max({a, b}) = IF a >= b THEN a ELSE b
BY DEF Max

LEMMA MinOfTwo ==
  ASSUME NEW a \in Int, NEW b \in Int
  PROVE  Min({a, b}) = IF a <= b THEN a ELSE b
BY DEF Min

-----------------------------------------------------------------------------
(* Lines.                                                                  *)

\* The positions of the newlines of a text, and those before and after it.
Breaks(text) == {i \in DOMAIN text : text[i] = "nl"} \cup {0, Len(text) + 1}

\* A lists the breaks of the text in their order.
InOrder(text, n, A) ==
  /\ n \in Nat /\ A \in [0..n -> Breaks(text)]
  /\ A[0] = 0 /\ A[n] = Len(text) + 1
  /\ \A k \in 1..n : A[k - 1] < A[k] /\ \A i \in Breaks(text) : i <= A[k - 1] \/ A[k] <= i

\* How many breaks are before i.
Rank(text, i) == Cardinality({j \in Breaks(text) : j < i})

LEMMA BreaksType ==
  ASSUME NEW text \in Seq(Symbols)
  PROVE  /\ Len(text) \in Nat /\ DOMAIN text = 1..Len(text)
         /\ Breaks(text) \subseteq 0..(Len(text) + 1)
         /\ 0 \in Breaks(text) /\ Len(text) + 1 \in Breaks(text)
         /\ IsFiniteSet(Breaks(text)) /\ Cardinality(Breaks(text)) \in Nat
<1>1. Len(text) \in Nat /\ DOMAIN text = 1..Len(text)
  BY LenProperties
<1>2. Breaks(text) \subseteq 0..(Len(text) + 1)
  BY <1>1 DEF Breaks
<1>3. IsFiniteSet(0..(Len(text) + 1))
  BY <1>1, FS_Interval
<1>4. IsFiniteSet(Breaks(text))
  BY <1>2, <1>3, FS_Subset
<1> QED
  BY <1>1, <1>2, <1>4, FS_CardinalityType DEF Breaks

LEMMA RankType ==
  ASSUME NEW text \in Seq(Symbols), NEW i \in Nat
  PROVE  /\ Rank(text, i) \in Nat /\ IsFiniteSet({j \in Breaks(text) : j < i})
         /\ Rank(text, i) <= Cardinality(Breaks(text))
<1> DEFINE B == {j \in Breaks(text) : j < i}
<1>1. B \in SUBSET Breaks(text)
  OBVIOUS
<1>2. IsFiniteSet(B) /\ Cardinality(B) <= Cardinality(Breaks(text))
  <2> HIDE DEF B
  <2> QED
    BY <1>1, BreaksType, FS_Subset
<1>3. Cardinality(B) \in Nat
  BY <1>2, FS_CardinalityType
<1> QED
  BY <1>2, <1>3 DEF Rank

\* The next break after a break has the next rank.
LEMMA RankOfNext ==
  ASSUME NEW text \in Seq(Symbols), NEW i \in Breaks(text), NEW j \in Breaks(text),
         i < j, \A x \in Breaks(text) : x <= i \/ j <= x
  PROVE  Rank(text, j) = Rank(text, i) + 1
<1> DEFINE below == {x \in Breaks(text) : x < i}
<1>1. i \in Nat /\ j \in Nat /\ Breaks(text) \subseteq Nat
  BY BreaksType
<1>2. {x \in Breaks(text) : x < j} = below \cup {i}
  BY <1>1
<1>3. IsFiniteSet(below) /\ i \notin below
  BY <1>1, RankType
<1>4. Cardinality(below \cup {i}) = Cardinality(below) + 1
  <2> HIDE DEF below
  <2> QED
    BY <1>3, FS_AddElement
<1> QED
  BY <1>2, <1>4 DEF Rank

\* A later break has a higher rank.
LEMMA RankIsMonotonic ==
  ASSUME NEW text \in Seq(Symbols), NEW i \in Breaks(text), NEW j \in Breaks(text), i < j
  PROVE  Rank(text, i) < Rank(text, j)
<1> DEFINE below == {x \in Breaks(text) : x < i}
           upto == {x \in Breaks(text) : x < j}
<1>1. i \in Nat /\ j \in Nat /\ Breaks(text) \subseteq Nat
  BY BreaksType
<1>2. IsFiniteSet(below) /\ i \notin below /\ IsFiniteSet(upto) /\ below \cup {i} \subseteq upto
  BY <1>1, RankType
<1>3. Cardinality(below \cup {i}) = Cardinality(below) + 1
  <2> HIDE DEF below, upto
  <2> QED
    BY <1>2, FS_AddElement
<1>4. Cardinality(below \cup {i}) <= Cardinality(upto)
  <2> HIDE DEF below, upto
  <2> QED
    BY <1>2, FS_Subset
<1>5. Cardinality(below) \in Nat /\ Cardinality(upto) \in Nat
  BY <1>2, FS_CardinalityType
<1>6. Rank(text, i) = Cardinality(below) /\ Rank(text, j) = Cardinality(upto)
  BY DEF Rank
<1> QED
  BY <1>3, <1>4, <1>5, <1>6

\* Every break but the last has a next one.
LEMMA NextBreak ==
  ASSUME NEW text \in Seq(Symbols), NEW i \in Breaks(text), i # Len(text) + 1
  PROVE  \E j \in Breaks(text) : i < j /\ \A x \in Breaks(text) : x <= i \/ j <= x
<1> DEFINE T == {j \in Breaks(text) : i < j}
<1>1. T \subseteq Nat /\ Len(text) + 1 \in T /\ Breaks(text) \subseteq Nat
  BY BreaksType
<1>2. PICK j \in T : \A x \in T : j <= x
  <2>1. T # {} /\ T \subseteq Nat
    BY <1>1
  <2> HIDE DEF T
  <2> QED
    BY <2>1, Least
<1> QED
  BY <1>1, <1>2

\* Every number below that of the breaks is the rank of one of them.
LEMMA EveryRank ==
  ASSUME NEW text \in Seq(Symbols)
  PROVE  /\ Cardinality(Breaks(text)) - 1 \in Nat
         /\ Rank(text, 0) = 0
         /\ Rank(text, Len(text) + 1) = Cardinality(Breaks(text)) - 1
         /\ \A k \in 0..(Cardinality(Breaks(text)) - 1) : \E i \in Breaks(text) : Rank(text, i) = k
<1> DEFINE n == Cardinality(Breaks(text)) - 1
           last == Len(text) + 1
           S == {k \in 0..n : \E i \in Breaks(text) : Rank(text, i) = k}
<1>1. Breaks(text) \subseteq 0..last /\ 0 \in Breaks(text) /\ last \in Breaks(text) /\ last \in Nat
  BY BreaksType
<1>2. Rank(text, 0) = 0
  <2>1. {j \in Breaks(text) : j < 0} = {}
    BY <1>1
  <2> QED
    BY <2>1, FS_EmptySet DEF Rank
<1>3. Rank(text, last) = n /\ n \in Nat
  <2> DEFINE below == {j \in Breaks(text) : j < last}
  <2>1. Breaks(text) = below \cup {last} /\ last \notin below /\ IsFiniteSet(below)
    BY <1>1, RankType
  <2>2. Cardinality(below \cup {last}) = Cardinality(below) + 1 /\ Cardinality(below) \in Nat
    <3> HIDE DEF below, last
    <3> QED
      BY <2>1, FS_AddElement, FS_CardinalityType
  <2>3. Rank(text, last) = Cardinality(below)
    BY DEF Rank
  <2>4. Cardinality(Breaks(text)) = Cardinality(below) + 1
    <3> HIDE DEF below, last
    <3> QED
      BY <2>1, <2>2
  <2> QED
    BY <2>2, <2>3, <2>4
<1>4. 0 \in S
  BY <1>1, <1>2, <1>3
<1>5. \A k \in 0..(n - 1) : k \in S => k + 1 \in S
  <2> SUFFICES ASSUME NEW k \in 0..(n - 1), k \in S PROVE k + 1 \in S
    OBVIOUS
  <2>1. PICK i \in Breaks(text) : Rank(text, i) = k
    OBVIOUS
  <2>2. i # last
    BY <2>1, <1>3
  <2>3. PICK j \in Breaks(text) : i < j /\ \A x \in Breaks(text) : x <= i \/ j <= x
    BY <2>2, NextBreak
  <2>4. Rank(text, j) = k + 1
    BY <2>1, <2>3, RankOfNext
  <2> QED
    BY <2>4, <1>3
<1>6. 0..n \subseteq S
  <2> HIDE DEF S, n
  <2> QED
    BY <1>3, <1>4, <1>5, UpTo
<1> QED
  BY <1>2, <1>3, <1>6

\* The parts are what lies between the breaks A.
Parts(text, parts, A) ==
  /\ Len(parts) # 0 /\ DOMAIN parts = 1..Len(parts) /\ InOrder(text, Len(parts), A)
  /\ \A i \in Breaks(text) : \E k \in 0..Len(parts) : A[k] = i
  /\ \A k \in 1..Len(parts) : parts[k] = SubSeq(text, A[k - 1] + 1, A[k] - 1)

\* Where the lines of a text begin and end.
LEMMA PartsOfText ==
  ASSUME NEW text \in Seq(Symbols)
  PROVE  \E A : Parts(text, LineParts(text), A)
<1> DEFINE n == Cardinality(Breaks(text)) - 1
           A == [k \in 0..n |-> CHOOSE i \in Breaks(text) : Rank(text, i) = k]
<1>1. LineParts(text) = [k \in 1..n |-> SubSeq(text, A[k - 1] + 1, A[k] - 1)]
  <2>1. LineParts(text) =
          [k \in 1..n |-> SubSeq(text, (CHOOSE i \in Breaks(text) : Rank(text, i) = k - 1) + 1,
                                       (CHOOSE i \in Breaks(text) : Rank(text, i) = k) - 1)]
    BY DEF LineParts, Breaks, Rank
  <2>2. n \in Nat
    BY EveryRank
  <2>3. \A k \in 1..n : k \in 0..n /\ k - 1 \in 0..n
    BY <2>2
  <2> HIDE DEF n
  <2> QED
    BY <2>1, <2>3
<1>2. n \in Nat /\ \A k \in 0..n : \E i \in Breaks(text) : Rank(text, i) = k
  BY EveryRank
<1>3. Len(LineParts(text)) = n /\ DOMAIN LineParts(text) = 1..n
  <2> HIDE DEF A, n
  <2> QED
    BY <1>1, <1>2
<1>4. \A k \in 0..n : A[k] \in Breaks(text) /\ Rank(text, A[k]) = k
  <2> HIDE DEF n
  <2> QED
    BY <1>2
<1>5. \A i, j \in Breaks(text) : Rank(text, i) = Rank(text, j) => i = j
  <2> SUFFICES ASSUME NEW i \in Breaks(text), NEW j \in Breaks(text), i # j
               PROVE  Rank(text, i) # Rank(text, j)
    OBVIOUS
  <2>1. i \in Nat /\ j \in Nat
    BY BreaksType
  <2>2. Rank(text, i) \in Nat /\ Rank(text, j) \in Nat
    BY <2>1, RankType
  <2>3. i < j \/ j < i
    BY <2>1
  <2> QED
    BY <2>2, <2>3, RankIsMonotonic
<1> HIDE DEF A
<1>6. \A i \in Breaks(text) : Rank(text, i) \in 0..n /\ A[Rank(text, i)] = i
  <2> SUFFICES ASSUME NEW i \in Breaks(text)
               PROVE  Rank(text, i) \in 0..n /\ A[Rank(text, i)] = i
    OBVIOUS
  <2>1. i \in 0..(Len(text) + 1) /\ i \in Nat /\ Len(text) + 1 \in Breaks(text)
    BY BreaksType
  <2>2. Rank(text, i) \in Nat /\ Rank(text, Len(text) + 1) = n
    BY <2>1, RankType, EveryRank
  <2>3. Rank(text, i) <= n
    <3>1. CASE i = Len(text) + 1
      BY <3>1, <2>2
    <3>2. CASE i # Len(text) + 1
      <4>1. i < Len(text) + 1
        BY <2>1, <3>2, BreaksType
      <4>2. Rank(text, i) < Rank(text, Len(text) + 1)
        BY <4>1, <2>1, RankIsMonotonic
      <4> HIDE DEF n
      <4> QED
        BY <4>2, <2>2, <1>2
    <3> QED
      BY <3>1, <3>2
  <2> HIDE DEF n
  <2>4. Rank(text, i) \in 0..n
    BY <2>2, <2>3, <1>2
  <2> QED
    BY <2>4, <1>4, <1>5
<1>7. A[0] = 0 /\ A[n] = Len(text) + 1
  BY <1>6, EveryRank, BreaksType
<1>8. \A k \in 1..n : A[k - 1] < A[k] /\ \A i \in Breaks(text) : i <= A[k - 1] \/ A[k] <= i
  <2> HIDE DEF n
  <2> SUFFICES ASSUME NEW k \in 1..n
               PROVE  /\ A[k - 1] < A[k]
                      /\ \A i \in Breaks(text) : i <= A[k - 1] \/ A[k] <= i
    OBVIOUS
  <2>1. k \in 0..n /\ k - 1 \in 0..n
    BY <1>2
  <2>2. A[k] \in Breaks(text) /\ A[k - 1] \in Breaks(text) /\ Breaks(text) \subseteq Nat
        /\ Rank(text, A[k]) = k /\ Rank(text, A[k - 1]) = k - 1
    BY <1>4, <2>1, BreaksType
  <2>3. \A i, j \in Breaks(text) : Rank(text, i) < Rank(text, j) => i < j
    <3> SUFFICES ASSUME NEW i \in Breaks(text), NEW j \in Breaks(text),
                        Rank(text, i) < Rank(text, j), ~(i < j)
                 PROVE  FALSE
      OBVIOUS
    <3>1. i \in Nat /\ j \in Nat
      BY BreaksType
    <3>2. Rank(text, i) \in Nat /\ Rank(text, j) \in Nat
      BY <3>1, RankType
    <3>3. i = j \/ j < i
      BY <3>1
    <3>4. j < i => Rank(text, j) < Rank(text, i)
      BY RankIsMonotonic
    <3> QED
      BY <3>2, <3>3, <3>4
  <2>4. A[k - 1] < A[k]
    BY <2>2, <2>3, <1>2
  <2>5. ASSUME NEW i \in Breaks(text) PROVE i <= A[k - 1] \/ A[k] <= i
    <3>1. Rank(text, i) \in 0..n
      BY <1>6
    <3>2. Rank(text, i) = k \/ Rank(text, i) = k - 1 \/ k < Rank(text, i) \/ Rank(text, i) < k - 1
      BY <3>1, <1>2
    <3>3. i = A[k] \/ i = A[k - 1] \/ A[k] < i \/ i < A[k - 1]
      BY <3>2, <2>2, <2>3, <1>5
    <3>4. i \in Nat /\ A[k] \in Nat /\ A[k - 1] \in Nat
      BY <2>2
    <3> QED
      BY <3>3, <3>4
  <2> QED
    BY <2>4, <2>5
<1>9. A \in [0..n -> Breaks(text)]
  BY <1>4 DEF A
<1>10. n # 0
  BY <1>7, BreaksType
<1>11. InOrder(text, n, A)
  <2> HIDE DEF n
  <2> QED
    BY <1>2, <1>7, <1>8, <1>9 DEF InOrder
<1>12. \A k \in 1..n : LineParts(text)[k] = SubSeq(text, A[k - 1] + 1, A[k] - 1)
  <2> HIDE DEF n
  <2> QED
    BY <1>1
<1>13. \A i \in Breaks(text) : \E k \in 0..n : A[k] = i
  BY <1>6
<1>14. Parts(text, LineParts(text), A)
  <2> HIDE DEF n
  <2> QED
    BY <1>3, <1>10, <1>11, <1>12, <1>13 DEF Parts
<1> QED
  BY <1>14

-----------------------------------------------------------------------------
(* The state of createWorkerOutput and the output it has read.             *)

\* The states of the reader.
OutputType ==
  [pending : Seq(Symbols), dropping : BOOLEAN, structured : BOOLEAN,
   message : Messages \cup Reports \cup {"none"}, usage : BOOLEAN, reports : Nat]

\* The positions among the first n symbols of s that are a line of one symbol.
Events(s, n) ==
  {i \in 1..(n - 1) : s[i] # "nl" /\ s[i + 1] = "nl" /\ (i = 1 \/ s[i - 1] = "nl")}

\* The events of E that report usage, and those whose text the report takes.
ReportsOf(s, E) == {i \in E : s[i] \in Reports}
TextsOf(agent, s, E) == {i \in E : s[i] \in Messages \/ (agent = "CALL_CLAUDE" /\ s[i] \in Reports)}

\* out says of the complete lines of s, among them the events E, what they say.
Says(agent, out, s, E) ==
  /\ out.structured <=> \E i \in E : s[i] # "plain"
  /\ TextsOf(agent, s, E) = {} => out.message = "none"
  /\ TextsOf(agent, s, E) # {} =>
       \E i \in TextsOf(agent, s, E) : out.message = s[i] /\ \A j \in TextsOf(agent, s, E) : j <= i
  /\ out.reports = 0 <=> ReportsOf(s, E) = {}
  /\ out.reports = 1 <=> \E i \in E : ReportsOf(s, E) = {i}
  /\ \A i \in E : ReportsOf(s, E) = {i} => (out.usage <=> s[i] = "usage")

\* out holds the last, incomplete line of the first n symbols of s.
Holds(out, s, n) ==
  \E b \in 0..n :
    /\ b = 0 \/ s[b] = "nl"
    /\ \A i \in (b + 1)..n : s[i] # "nl"
    /\ IF n - b > MaxEvent THEN out.dropping /\ out.pending = <<>>
       ELSE ~out.dropping /\ out.pending = SubSeq(s, b + 1, n)

\* out is what reading the first n symbols of s leads to.
HasRead(agent, out, s, n) ==
  out \in OutputType /\ Says(agent, out, s, Events(s, n)) /\ Holds(out, s, n)

LEMMA HasReadNothing ==
  ASSUME NEW agent, NEW s PROVE HasRead(agent, NewOutput, s, 0)
<1>1. NewOutput \in OutputType
  BY DEF NewOutput, OutputType
<1>2. Events(s, 0) = {}
  BY DEF Events
<1>3. Says(agent, NewOutput, s, {})
  BY DEF Says, TextsOf, ReportsOf, NewOutput
<1>4. Holds(NewOutput, s, 0)
  <2>1. SubSeq(s, 1, 0) = <<>>
    BY SubSeqEmpty
  <2> QED
    BY <2>1, OutputAssumption DEF Holds, NewOutput
<1> QED
  BY <1>1, <1>2, <1>3, <1>4 DEF HasRead

\* Only the symbols that were read matter.
LEMMA HasReadAgrees ==
  ASSUME NEW agent, NEW out, NEW s \in Seq(Symbols), NEW t \in Seq(Symbols), NEW n \in Nat,
         n <= Len(s), n <= Len(t), \A i \in 1..n : s[i] = t[i], HasRead(agent, out, s, n)
  PROVE  HasRead(agent, out, t, n)
<1>1. Events(s, n) = Events(t, n)
  BY DEF Events
<1> DEFINE E == Events(s, n)
<1>2. E \subseteq 1..n
  BY DEF Events
<1>3. Says(agent, out, t, E)
  <2> HIDE DEF E
  <2>1. \A i \in E : s[i] = t[i]
    BY <1>2
  <2>2. TextsOf(agent, s, E) = TextsOf(agent, t, E) /\ ReportsOf(s, E) = ReportsOf(t, E)
    BY <2>1 DEF TextsOf, ReportsOf
  <2>3. TextsOf(agent, s, E) \subseteq E /\ ReportsOf(s, E) \subseteq E
    BY DEF TextsOf, ReportsOf
  <2>4. Says(agent, out, s, E)
    BY DEF HasRead, E
  <2> QED
    BY <2>1, <2>2, <2>3, <2>4 DEF Says
<1>4. Holds(out, t, n)
  <2>1. PICK b \in 0..n :
          /\ b = 0 \/ s[b] = "nl"
          /\ \A i \in (b + 1)..n : s[i] # "nl"
          /\ IF n - b > MaxEvent THEN out.dropping /\ out.pending = <<>>
             ELSE ~out.dropping /\ out.pending = SubSeq(s, b + 1, n)
    BY DEF HasRead, Holds
  <2>2. SubSeq(s, b + 1, n) = SubSeq(t, b + 1, n)
    <3>1. \A i \in (b + 1)..n : s[i] = t[i] /\ s[i] \in Symbols
      BY ElementOfSeq, LenProperties
    <3>2. b + 1 \in Int /\ n \in Int
      OBVIOUS
    <3> DEFINE u == SubSeq(s, b + 1, n)
               v == SubSeq(t, b + 1, n)
    <3>3. u \in Seq(Symbols) /\ Len(u) = (IF b + 1 <= n THEN n - (b + 1) + 1 ELSE 0)
          /\ \A i \in 1..(n - (b + 1) + 1) : u[i] = s[b + 1 + i - 1]
      BY <3>1, <3>2, SubSeqProperties
    <3>4. v \in Seq(Symbols) /\ Len(v) = (IF b + 1 <= n THEN n - (b + 1) + 1 ELSE 0)
          /\ \A i \in 1..(n - (b + 1) + 1) : v[i] = t[b + 1 + i - 1]
      BY <3>1, <3>2, SubSeqProperties
    <3> HIDE DEF u, v
    <3>5. ASSUME NEW i \in 1..Len(u) PROVE u[i] = v[i]
      <4>1. i \in 1..(n - (b + 1) + 1)
        BY <3>3
      <4>2. b + 1 + i - 1 \in (b + 1)..n
        BY <4>1
      <4> QED
        BY <4>1, <4>2, <3>1, <3>3, <3>4
    <3>6. u = v
      <4>1. Len(u) = Len(v)
        BY <3>3, <3>4
      <4> QED
        BY <3>3, <3>4, <3>5, <4>1, SeqEqual
    <3> QED
      BY <3>6 DEF u, v
  <2>3. \A i \in (b + 1)..n : t[i] # "nl"
    BY <2>1
  <2>4. b = 0 \/ t[b] = "nl"
    BY <2>1
  <2> QED
    BY <2>1, <2>2, <2>3, <2>4 DEF Holds
<1> QED
  BY <1>1, <1>3, <1>4 DEF HasRead

\* A part of a line adds to the line that is incomplete and to nothing else.
LEMMA TakePartReads ==
  ASSUME NEW agent, NEW out, NEW s \in Seq(Symbols), NEW m \in Nat, NEW n \in Nat,
         m <= n, n <= Len(s), \A i \in (m + 1)..n : s[i] # "nl", HasRead(agent, out, s, m)
  PROVE  HasRead(agent, TakePart(out, SubSeq(s, m + 1, n)), s, n)
<1> DEFINE part == SubSeq(s, m + 1, n)
           next == TakePart(out, part)
<1>1. out \in OutputType /\ Says(agent, out, s, Events(s, m)) /\ Holds(out, s, m)
  BY DEF HasRead
<1>2. \A i \in 1..n : s[i] \in Symbols
  BY ElementOfSeq, LenProperties
<1>3. part \in Seq(Symbols) /\ Len(part) = n - m
  <2>1. \A i \in (m + 1)..n : s[i] \in Symbols
    BY <1>2
  <2> QED
    BY <2>1, SubSeqProperties
<1>4. PICK b \in 0..m :
        /\ b = 0 \/ s[b] = "nl"
        /\ \A i \in (b + 1)..m : s[i] # "nl"
        /\ IF m - b > MaxEvent THEN out.dropping /\ out.pending = <<>>
           ELSE ~out.dropping /\ out.pending = SubSeq(s, b + 1, m)
  BY <1>1 DEF Holds
<1>5. \A i \in (b + 1)..n : s[i] # "nl"
  BY <1>4
<1>6. Events(s, n) = Events(s, m)
  BY DEF Events
<1>7. MaxEvent \in Nat
  BY OutputAssumption
<1> HIDE DEF part
<1>8. CASE out.dropping
  <2>1. next = out
    BY <1>8 DEF TakePart
  <2>2. m - b > MaxEvent /\ out.pending = <<>>
    BY <1>4, <1>8
  <2>3. n - b > MaxEvent
    BY <2>2, <1>7
  <2>4. Holds(out, s, n)
    BY <2>2, <2>3, <1>4, <1>5, <1>8 DEF Holds
  <2> QED
    BY <2>1, <2>4, <1>1, <1>6 DEF HasRead, part
<1>9. CASE ~out.dropping
  <2>1. m - b <= MaxEvent /\ out.pending = SubSeq(s, b + 1, m)
    BY <1>4, <1>9, <1>7
  <2>2. out.pending \in Seq(Symbols) /\ Len(out.pending) = m - b
    <3>1. \A i \in (b + 1)..m : s[i] \in Symbols
      BY <1>2
    <3> QED
      BY <2>1, <3>1, SubSeqProperties
  <2>3. CASE Len(out.pending) + Len(part) > MaxEvent
    <3>1. next = [out EXCEPT !.pending = <<>>, !.dropping = TRUE]
      BY <1>9, <2>3 DEF TakePart
    <3>6. <<>> \in Seq(Symbols)
      OBVIOUS
    <3>2. /\ next \in OutputType /\ next.dropping = TRUE /\ next.pending = <<>>
          /\ next.structured = out.structured /\ next.message = out.message
          /\ next.usage = out.usage /\ next.reports = out.reports
      BY <3>1, <3>6, <1>1 DEF OutputType
    <3> HIDE DEF next
    <3>3. n - b > MaxEvent
      BY <2>2, <2>3, <1>3
    <3>4. Holds(next, s, n)
      BY <3>2, <3>3, <1>4, <1>5 DEF Holds
    <3>5. Says(agent, next, s, Events(s, m))
      BY <3>2, <1>1 DEF Says
    <3> QED
      BY <3>2, <3>4, <3>5, <1>6 DEF HasRead, next, part
  <2>4. CASE Len(out.pending) + Len(part) <= MaxEvent
    <3>1. next = [out EXCEPT !.pending = @ \o part]
      BY <1>9, <2>4, <1>3, <1>7, <2>2 DEF TakePart
    <3>2. out.pending \o part \in Seq(Symbols)
      BY <2>2, <1>3, ConcatProperties
    <3>3. out.pending \o part = SubSeq(s, b + 1, n)
      BY <2>1, <1>2, ConcatAdjacentSubSeq DEF part
    <3>4. /\ next \in OutputType /\ next.dropping = out.dropping
          /\ next.pending = SubSeq(s, b + 1, n)
          /\ next.structured = out.structured /\ next.message = out.message
          /\ next.usage = out.usage /\ next.reports = out.reports
      BY <3>1, <3>2, <3>3, <1>1 DEF OutputType
    <3> HIDE DEF next
    <3>5. n - b <= MaxEvent
      BY <2>2, <2>4, <1>3
    <3>6. Holds(next, s, n)
      <4>1. b \in 0..n /\ ~(n - b > MaxEvent)
        BY <3>5, <1>7
      <4> QED
        BY <4>1, <3>4, <1>4, <1>5, <1>9 DEF Holds
    <3>7. Says(agent, next, s, Events(s, m))
      BY <3>4, <1>1 DEF Says
    <3> QED
      BY <3>4, <3>6, <3>7, <1>6 DEF HasRead, next, part
  <2> QED
    BY <2>2, <2>3, <2>4, <1>3, <1>7
<1> QED
  BY <1>1, <1>8, <1>9 DEF OutputType

\* What reading a line of one symbol adds to what the lines say.
LEMMA OneMoreEvent ==
  ASSUME NEW agent, NEW out \in OutputType, NEW s, NEW E, NEW x \in Nat,
         E \subseteq Nat, \A i \in E : i < x /\ s[i] \in Symbols, s[x] \in Symbols \ {"nl"},
         Says(agent, out, s, E)
  PROVE  LET next == ReadLine(agent, out, <<s[x]>>)
         IN  /\ next \in OutputType /\ next.pending = out.pending /\ next.dropping = out.dropping
             /\ Says(agent, next, s, E \cup {x})
<1> DEFINE event == s[x]
           next == ReadLine(agent, out, <<event>>)
           said == event \in Messages \/ (agent = "CALL_CLAUDE" /\ event \in Reports)
<1>1. x \notin E
  OBVIOUS
<1>2. ReportsOf(s, E \cup {x}) = IF event \in Reports THEN ReportsOf(s, E) \cup {x} ELSE ReportsOf(s, E)
  BY DEF ReportsOf
<1>3. TextsOf(agent, s, E \cup {x}) = IF said THEN TextsOf(agent, s, E) \cup {x} ELSE TextsOf(agent, s, E)
  BY DEF TextsOf
<1>4. ReportsOf(s, E) \subseteq E /\ TextsOf(agent, s, E) \subseteq E
  BY DEF ReportsOf, TextsOf
<1>5. CASE event = "plain"
  <2>1. next = out
    BY <1>5 DEF ReadLine
  <2>2. ~said /\ event \notin Reports
    BY <1>5, OutputAssumption DEF Reports
  <2>3. Says(agent, out, s, E \cup {x})
    <3>1. ReportsOf(s, E \cup {x}) = ReportsOf(s, E) /\ TextsOf(agent, s, E \cup {x}) = TextsOf(agent, s, E)
      BY <2>2, <1>2, <1>3
    <3>2. \A i : ReportsOf(s, E) = {i} => i \in E
      BY <1>4
    <3> QED
      BY <3>1, <3>2, <1>5 DEF Says
  <2> QED
    BY <2>1, <2>3
<1>6. CASE event # "plain"
  <2>1. next = [out EXCEPT !.structured = TRUE,
                           !.message = IF said THEN event ELSE @,
                           !.usage = IF event \in Reports THEN event = "usage" ELSE @,
                           !.reports = IF event \in Reports THEN @ + 1 ELSE @]
    BY <1>6 DEF ReadLine
  <2>2. said => event \in Messages \cup Reports
    OBVIOUS
  <2>3. /\ next \in OutputType /\ next.pending = out.pending /\ next.dropping = out.dropping
        /\ next.structured = TRUE /\ next.message = IF said THEN event ELSE out.message
        /\ next.usage = IF event \in Reports THEN event = "usage" ELSE out.usage
        /\ next.reports = IF event \in Reports THEN out.reports + 1 ELSE out.reports
    <3> DEFINE m == IF said THEN event ELSE out.message
               u == IF event \in Reports THEN event = "usage" ELSE out.usage
               r == IF event \in Reports THEN out.reports + 1 ELSE out.reports
    <3>1. next = [out EXCEPT !.structured = TRUE, !.message = m, !.usage = u, !.reports = r]
      BY <2>1
    <3>2. m \in Messages \cup Reports \cup {"none"}
      BY <2>2 DEF OutputType
    <3>3. u \in BOOLEAN
      BY DEF OutputType
    <3>4. r \in Nat
      BY DEF OutputType
    <3> HIDE DEF m, u, r, next
    <3>5. /\ next \in OutputType /\ next.pending = out.pending /\ next.dropping = out.dropping
          /\ next.structured = TRUE /\ next.message = m /\ next.usage = u /\ next.reports = r
      BY <3>1, <3>2, <3>3, <3>4 DEF OutputType
    <3> QED
      BY <3>5 DEF m, u, r
  <2> HIDE DEF next
  <2>4. next.structured <=> \E i \in E \cup {x} : s[i] # "plain"
    BY <2>3, <1>6
  <2>5. TextsOf(agent, s, E \cup {x}) = {} => next.message = "none"
    BY <2>3, <1>3 DEF Says
  <2>6. TextsOf(agent, s, E \cup {x}) # {} =>
          \E i \in TextsOf(agent, s, E \cup {x}) :
             next.message = s[i] /\ \A j \in TextsOf(agent, s, E \cup {x}) : j <= i
    <3>1. CASE said
      <4>1. x \in TextsOf(agent, s, E \cup {x}) /\ \A j \in TextsOf(agent, s, E \cup {x}) : j <= x
        <5>1. TextsOf(agent, s, E \cup {x}) = TextsOf(agent, s, E) \cup {x}
          BY <3>1, <1>3
        <5>2. ASSUME NEW j \in TextsOf(agent, s, E) PROVE j <= x
          <6>1. j \in E /\ j \in Nat /\ j < x
            BY <1>4
          <6> QED
            BY <6>1
        <5> QED
          BY <5>1, <5>2
      <4> QED
        BY <4>1, <3>1, <2>3
    <3>2. CASE ~said
      BY <3>2, <1>3, <2>3 DEF Says
    <3> QED
      BY <3>1, <3>2
  <2>7. /\ next.reports = 0 <=> ReportsOf(s, E \cup {x}) = {}
        /\ next.reports = 1 <=> \E i \in E \cup {x} : ReportsOf(s, E \cup {x}) = {i}
        /\ \A i \in E \cup {x} : ReportsOf(s, E \cup {x}) = {i} => (next.usage <=> s[i] = "usage")
    <3>1. CASE event \in Reports
      <4>1. ReportsOf(s, E \cup {x}) = ReportsOf(s, E) \cup {x} /\ x \notin ReportsOf(s, E)
        BY <3>1, <1>1, <1>2, <1>4
      <4>2. next.reports = out.reports + 1 /\ (next.usage <=> s[x] = "usage") /\ out.reports \in Nat
        BY <3>1, <2>3 DEF OutputType
      <4>3. next.reports # 0 /\ (next.reports = 1 <=> out.reports = 0)
        BY <4>2
      <4>4. out.reports = 0 <=> ReportsOf(s, E) = {}
        BY DEF Says
      <4>5. \A i : ReportsOf(s, E \cup {x}) = {i} <=> ReportsOf(s, E) = {} /\ i = x
        BY <4>1
      <4> QED
        BY <4>1, <4>2, <4>3, <4>4, <4>5
    <3>2. CASE event \notin Reports
      <4>1. ReportsOf(s, E \cup {x}) = ReportsOf(s, E)
        BY <3>2, <1>2
      <4>2. next.reports = out.reports /\ next.usage = out.usage
        BY <3>2, <2>3
      <4> QED
        <5>1. \A i : ReportsOf(s, E) = {i} => i \in E
          BY <1>4
        <5> QED
          BY <4>1, <4>2, <5>1 DEF Says
    <3> QED
      BY <3>1, <3>2
  <2>8. Says(agent, next, s, E \cup {x})
    BY <2>4, <2>5, <2>6, <2>7 DEF Says
  <2> QED
    BY <2>3, <2>8 DEF next
<1> QED
  BY <1>5, <1>6

\* A newline completes the line that is held.
LEMMA EndLineReads ==
  ASSUME NEW agent, NEW out, NEW s \in Seq(Symbols), NEW n \in Nat,
         n + 1 <= Len(s), s[n + 1] = "nl", HasRead(agent, out, s, n)
  PROVE  HasRead(agent, EndLine(agent, out), s, n + 1)
<1> DEFINE line == IF out.dropping \/ out.pending = <<>> THEN out
                   ELSE ReadLine(agent, out, out.pending)
           next == EndLine(agent, out)
<1>1. out \in OutputType /\ Says(agent, out, s, Events(s, n)) /\ Holds(out, s, n)
  BY DEF HasRead
<1>2. Len(s) \in Nat /\ \A i \in 1..(n + 1) : s[i] \in Symbols
  BY ElementOfSeq, LenProperties
<1>3. PICK b \in 0..n :
        /\ b = 0 \/ s[b] = "nl"
        /\ \A i \in (b + 1)..n : s[i] # "nl"
        /\ IF n - b > MaxEvent THEN out.dropping /\ out.pending = <<>>
           ELSE ~out.dropping /\ out.pending = SubSeq(s, b + 1, n)
  BY <1>1 DEF Holds
<1>4. MaxEvent \in Nat /\ MaxEvent >= 1
  BY OutputAssumption
<1>5. line \in OutputType /\ Says(agent, line, s, Events(s, n + 1))
  <2>1. CASE n - b = 1
    <3>1. ~out.dropping /\ out.pending = SubSeq(s, n, n)
      <4>1. b + 1 = n /\ ~(n - b > MaxEvent)
        BY <2>1, <1>4
      <4> QED
        BY <4>1, <1>3
    <3>2. out.pending = <<s[n]>>
      <4>1. s[n] \in Symbols /\ n \in Int
        BY <2>1, <1>2
      <4> DEFINE u == SubSeq(s, n, n)
      <4>2. u \in Seq(Symbols) /\ Len(u) = 1 /\ \A i \in 1..1 : u[i] = s[n + i - 1]
        BY <4>1, SubSeqProperties
      <4> HIDE DEF u
      <4>3. u[1] = s[n]
        BY <4>2
      <4>4. u = <<s[n]>>
        BY <4>1, <4>2, <4>3
      <4> QED
        BY <4>4, <3>1 DEF u
    <3>3. Events(s, n + 1) = Events(s, n) \cup {n}
      <4>1. s[n] # "nl" /\ (n = 1 \/ s[n - 1] = "nl") /\ n >= 1
        BY <1>3, <2>1
      <4> QED
        BY <4>1 DEF Events
    <3>4. line = ReadLine(agent, out, <<s[n]>>)
      BY <3>1, <3>2
    <3>5. n \in 1..(n + 1) /\ s[n] \in Symbols \ {"nl"}
      BY <1>2, <1>3, <2>1
    <3> DEFINE E == Events(s, n)
    <3>6. E \subseteq Nat /\ \A i \in E : i < n /\ s[i] \in Symbols
      BY <1>2 DEF Events
    <3> HIDE DEF E
    <3>7. ReadLine(agent, out, <<s[n]>>) \in OutputType
          /\ Says(agent, ReadLine(agent, out, <<s[n]>>), s, E \cup {n})
      BY <3>5, <3>6, <1>1, OneMoreEvent DEF E
    <3> QED
      BY <3>3, <3>4, <3>7 DEF E
  <2>2. CASE n - b # 1
    <3>1. line = out \/ (Len(out.pending) # 1 /\ line = ReadLine(agent, out, out.pending))
      <4>1. CASE n - b > MaxEvent
        BY <4>1, <1>3
      <4>2. CASE ~(n - b > MaxEvent)
        <5>1. out.pending = SubSeq(s, b + 1, n) /\ \A i \in (b + 1)..n : s[i] \in Symbols
          BY <4>2, <1>2, <1>3
        <5>2. Len(out.pending) = n - b
          BY <5>1, SubSeqProperties
        <5> QED
          BY <5>2, <2>2
      <4> QED
        BY <4>1, <4>2
    <3>2. line = out
      BY <3>1 DEF ReadLine
    <3>3. Events(s, n + 1) = Events(s, n)
      <4>1. ~(s[n] # "nl" /\ n >= 1 /\ (n = 1 \/ s[n - 1] = "nl"))
        <5>1. CASE b = n
          BY <5>1, <1>3
        <5>2. CASE b # n
          <6>1. n - 1 \in (b + 1)..n /\ n # 1
            BY <5>2, <2>2
          <6> QED
            BY <6>1, <1>3
        <5> QED
          BY <5>1, <5>2
      <4> QED
        BY <4>1 DEF Events
    <3> QED
      BY <3>2, <3>3, <1>1
  <2> QED
    BY <2>1, <2>2
<1>6. next = [line EXCEPT !.pending = <<>>, !.dropping = FALSE]
  BY DEF EndLine
<1> HIDE DEF line, next
<1>7. <<>> \in Seq(Symbols)
  OBVIOUS
<1>8. /\ next \in OutputType /\ next.pending = <<>> /\ next.dropping = FALSE
      /\ next.structured = line.structured /\ next.message = line.message
      /\ next.usage = line.usage /\ next.reports = line.reports
  BY <1>5, <1>6, <1>7 DEF OutputType
<1>9. Says(agent, next, s, Events(s, n + 1))
  BY <1>5, <1>8 DEF Says
<1>10. Holds(next, s, n + 1)
  <2>1. SubSeq(s, (n + 1) + 1, n + 1) = <<>>
    BY SubSeqEmpty
  <2>2. ~((n + 1) - (n + 1) > MaxEvent) /\ n + 1 \in 0..(n + 1)
        /\ \A i \in ((n + 1) + 1)..(n + 1) : s[i] # "nl"
    BY <1>4
  <2> QED
    BY <2>1, <2>2, <1>8 DEF Holds
<1> QED
  BY <1>8, <1>9, <1>10 DEF HasRead, next

\* after holds the states of createWorkerOutput after each of n lines.
ReadStates(agent, out, parts, n, after) ==
  after = [k \in 0..n |-> IF k = 0 THEN out ELSE EndLine(agent, TakePart(after[k - 1], parts[k]))]

LEMMA ReadsExist ==
  ASSUME NEW agent, NEW out, NEW parts, NEW n \in Nat
  PROVE  \E g : ReadStates(agent, out, parts, n, g)
<1> DEFINE S == {m \in Nat : \E g : ReadStates(agent, out, parts, m, g)}
<1>1. 0 \in S
  <2> DEFINE g == [k \in 0..0 |-> out]
  <2>1. g = [k \in 0..0 |-> IF k = 0 THEN out ELSE EndLine(agent, TakePart(g[k - 1], parts[k]))]
    OBVIOUS
  <2>2. ReadStates(agent, out, parts, 0, g)
    BY <2>1 DEF ReadStates
  <2> QED
    BY <2>2
<1>2. ASSUME NEW m \in 0..(n - 1), m \in S PROVE m + 1 \in S
  <2>1. PICK g : ReadStates(agent, out, parts, m, g)
    BY <1>2
  <2>2. \A k \in 0..m : g[k] = IF k = 0 THEN out ELSE EndLine(agent, TakePart(g[k - 1], parts[k]))
    BY <2>1 DEF ReadStates
  <2> DEFINE h == [k \in 0..(m + 1) |-> IF k = m + 1 THEN EndLine(agent, TakePart(g[m], parts[m + 1]))
                                        ELSE g[k]]
  <2>3. \A k \in 0..(m + 1) :
          h[k] = IF k = 0 THEN out ELSE EndLine(agent, TakePart(h[k - 1], parts[k]))
    <3> SUFFICES ASSUME NEW k \in 0..(m + 1)
                 PROVE  h[k] = IF k = 0 THEN out ELSE EndLine(agent, TakePart(h[k - 1], parts[k]))
      OBVIOUS
    <3>1. CASE k = m + 1
      <4>1. h[m] = g[m] /\ h[m + 1] = EndLine(agent, TakePart(g[m], parts[m + 1])) /\ k - 1 = m /\ k # 0
        BY <3>1
      <4> QED
        BY <4>1, <3>1
    <3>2. CASE k # m + 1
      <4>1. k \in 0..m /\ h[k] = g[k] /\ (k # 0 => h[k - 1] = g[k - 1])
        BY <3>2
      <4>2. g[k] = IF k = 0 THEN out ELSE EndLine(agent, TakePart(g[k - 1], parts[k]))
        BY <2>2, <4>1
      <4> QED
        BY <4>1, <4>2
    <3> QED
      BY <3>1, <3>2
  <2>4. h = [k \in 0..(m + 1) |-> h[k]]
    OBVIOUS
  <2> HIDE DEF h
  <2>5. ReadStates(agent, out, parts, m + 1, h)
    BY <2>3, <2>4 DEF ReadStates
  <2> QED
    BY <2>5
<1>3. 0..n \subseteq S
  <2> HIDE DEF S
  <2> QED
    BY <1>1, <1>2, UpTo
<1> QED
  BY <1>3

\* The result of consume, in terms of the states in between.
LEMMA ConsumeReads ==
  ASSUME NEW agent, NEW out, NEW text, Len(LineParts(text)) - 1 \in Nat
  PROVE  \E after : /\ ReadStates(agent, out, LineParts(text), Len(LineParts(text)) - 1, after)
                    /\ Consume(agent, out, text) =
                         TakePart(after[Len(LineParts(text)) - 1],
                                  LineParts(text)[Len(LineParts(text))])
<1> DEFINE parts == LineParts(text)
           n == Len(parts) - 1
           after == CHOOSE g : g = [k \in 0..n |-> IF k = 0 THEN out
                                                  ELSE EndLine(agent, TakePart(g[k - 1], parts[k]))]
<1>1. Consume(agent, out, text) = TakePart(after[n], parts[Len(parts)])
  BY DEF Consume
<1>2. \E g : ReadStates(agent, out, parts, n, g)
  <2>1. n \in Nat
    OBVIOUS
  <2> HIDE DEF parts, n
  <2> QED
    BY <2>1, ReadsExist
<1>3. after = CHOOSE g : ReadStates(agent, out, parts, n, g)
  BY DEF ReadStates
<1>4. ReadStates(agent, out, parts, n, after)
  <2> HIDE DEF after
  <2> QED
    BY <1>2, <1>3
<1> QED
  BY <1>1, <1>4

\* A chunk: consume reads the symbols of the output from the m-th to the n-th.
LEMMA ChunkReads ==
  ASSUME NEW agent, NEW out, NEW s \in Seq(Symbols), NEW m \in Nat, NEW n \in Nat,
         m <= n, n <= Len(s), HasRead(agent, out, s, m)
  PROVE  HasRead(agent, Consume(agent, out, SubSeq(s, m + 1, n)), s, n)
<1> DEFINE text == SubSeq(s, m + 1, n)
           parts == LineParts(text)
<1>1. Len(s) \in Nat /\ \A i \in 1..n : s[i] \in Symbols
  BY ElementOfSeq, LenProperties
<1>2. text \in Seq(Symbols) /\ Len(text) = n - m /\ \A i \in 1..(n - m) : text[i] = s[m + i]
  <2>1. \A i \in (m + 1)..n : s[i] \in Symbols
    BY <1>1
  <2>2. /\ text \in Seq(Symbols) /\ Len(text) = IF m + 1 <= n THEN n - (m + 1) + 1 ELSE 0
        /\ \A i \in 1..(n - (m + 1) + 1) : text[i] = s[m + 1 + i - 1]
    BY <2>1, SubSeqProperties
  <2> HIDE DEF text
  <2>3. Len(text) = n - m
    BY <2>2
  <2>4. ASSUME NEW i \in 1..(n - m) PROVE text[i] = s[m + i]
    <3>1. i \in 1..(n - (m + 1) + 1) /\ m + 1 + i - 1 = m + i
      OBVIOUS
    <3> QED
      BY <3>1, <2>2
  <2> QED
    BY <2>2, <2>3, <2>4
<1>3. PICK A : Parts(text, parts, A)
  <2>1. text \in Seq(Symbols)
    BY <1>2
  <2> HIDE DEF text
  <2> QED
    BY <2>1, PartsOfText
<1> HIDE DEF parts
<1>4. /\ Len(parts) \in Nat \ {0} /\ A[0] = 0 /\ A[Len(parts)] = n - m + 1
      /\ \A k \in 0..Len(parts) : A[k] \in 0..(n - m + 1)
      /\ \A k \in 1..Len(parts) : A[k - 1] < A[k]
  <2>1. Breaks(text) \subseteq 0..(n - m + 1)
    <3> HIDE DEF text
    <3> QED
      BY <1>2, BreaksType
  <2> QED
    BY <2>1, <1>2, <1>3 DEF Parts, InOrder
<1>5. \A k \in 1..Len(parts) :
        /\ \A i \in (m + A[k - 1] + 1)..(m + A[k] - 1) : s[i] # "nl"
        /\ parts[k] = SubSeq(s, m + A[k - 1] + 1, m + A[k] - 1)
        /\ k < Len(parts) => A[k] <= n - m /\ s[m + A[k]] = "nl"
  <2> SUFFICES ASSUME NEW k \in 1..Len(parts)
               PROVE  /\ \A i \in (m + A[k - 1] + 1)..(m + A[k] - 1) : s[i] # "nl"
                      /\ parts[k] = SubSeq(s, m + A[k - 1] + 1, m + A[k] - 1)
                      /\ k < Len(parts) => A[k] <= n - m /\ s[m + A[k]] = "nl"
    OBVIOUS
  <2>1. /\ k \in 0..Len(parts) /\ k - 1 \in 0..Len(parts)
        /\ A[k] \in 0..(n - m + 1) /\ A[k - 1] \in 0..(n - m + 1) /\ A[k - 1] < A[k]
    BY <1>4
  <2>2. DOMAIN text = 1..(n - m)
    <3> HIDE DEF text
    <3> QED
      BY <1>2, LenProperties
  <2>3. ASSUME NEW i \in (m + A[k - 1] + 1)..(m + A[k] - 1) PROVE s[i] # "nl"
    <3> DEFINE p == A[k - 1]
               q == A[k]
    <3>1. i - m \in 1..(n - m) /\ p < i - m /\ i - m < q /\ m + (i - m) = i
      <4>1. p \in 0..(n - m + 1) /\ q \in 0..(n - m + 1) /\ i \in (m + p + 1)..(m + q - 1)
        BY <2>1, <2>3
      <4> HIDE DEF p, q
      <4> QED
        BY <4>1
    <3>2. i - m \notin Breaks(text)
      <4>1. \A j \in Breaks(text) : j <= p \/ q <= j
        BY <1>3 DEF Parts, InOrder
      <4>2. p \in 0..(n - m + 1) /\ q \in 0..(n - m + 1)
        BY <2>1
      <4> HIDE DEF p, q
      <4>3. ~(i - m <= p \/ q <= i - m)
        BY <3>1, <4>2
      <4> QED
        BY <4>1, <4>3
    <3> QED
      BY <1>2, <2>2, <3>1, <3>2 DEF Breaks
  <2>4. parts[k] = SubSeq(s, m + A[k - 1] + 1, m + A[k] - 1)
    <3> DEFINE from == A[k - 1] + 1
               to == A[k] - 1
    <3>1. parts[k] = SubSeq(text, from, to)
      BY <1>3 DEF Parts
    <3>2. from \in Nat \ {0} /\ to \in Nat /\ to <= n - m /\ from <= to + 1
          /\ m + A[k - 1] + 1 = m + from /\ m + A[k] - 1 = m + to
      <4> DEFINE p == A[k - 1]
                 q == A[k]
      <4>1. p \in 0..(n - m + 1) /\ q \in 0..(n - m + 1) /\ p < q
        BY <2>1
      <4>2. from = p + 1 /\ to = q - 1
        OBVIOUS
      <4> HIDE DEF p, q, from, to
      <4>3. /\ from \in Nat \ {0} /\ to \in Nat /\ to <= n - m /\ from <= to + 1
            /\ m + p + 1 = m + from /\ m + q - 1 = m + to
        BY <4>1, <4>2
      <4> QED
        BY <4>3 DEF p, q
    <3> HIDE DEF from, to
    <3>3. SubSeq(text, from, to) = SubSeq(s, m + from, m + to)
      <4>1. CASE from > to
        <5>1. m + from > m + to /\ m + from \in Int /\ m + to \in Int /\ from \in Int /\ to \in Int
          BY <3>2, <4>1
        <5> QED
          BY <5>1, <4>1, SubSeqEmpty
      <4>2. CASE from <= to
        <5>1. /\ m + 1 \in 1..Len(s) /\ n \in 1..Len(s)
              /\ from \in 1..(n - (m + 1) + 1) /\ to \in 1..(n - (m + 1) + 1)
              /\ m + 1 + from - 1 = m + from /\ m + 1 + to - 1 = m + to
          BY <3>2, <4>2, <1>1
        <5>2. SubSeq(SubSeq(s, m + 1, n), from, to) = SubSeq(s, m + 1 + from - 1, m + 1 + to - 1)
          BY <5>1, SubSeqOfSubSeq
        <5> QED
          BY <5>1, <5>2
      <4> QED
        BY <4>1, <4>2, <3>2
    <3> QED
      BY <3>1, <3>2, <3>3
  <2>5. ASSUME k < Len(parts) PROVE A[k] <= n - m /\ s[m + A[k]] = "nl"
    <3>1. k + 1 \in 1..Len(parts) /\ k + 1 \in 0..Len(parts) /\ (k + 1) - 1 = k
      BY <2>5
    <3>2. A[k] < A[k + 1] /\ A[k + 1] \in 0..(n - m + 1)
      BY <1>4, <3>1
    <3>3. A[k] \in 1..(n - m)
      BY <2>1, <3>2
    <3>4. A[k] \in Breaks(text)
      BY <1>3, <2>1 DEF Parts, InOrder
    <3>5. text[A[k]] = "nl"
      BY <3>3, <3>4, <1>2 DEF Breaks
    <3> QED
      BY <3>3, <3>5, <1>2
  <2> QED
    BY <2>3, <2>4, <2>5
<1>6. PICK after : /\ ReadStates(agent, out, parts, Len(parts) - 1, after)
                   /\ Consume(agent, out, text) = TakePart(after[Len(parts) - 1], parts[Len(parts)])
  <2>1. Len(parts) - 1 \in Nat
    BY <1>4
  <2> HIDE DEF text
  <2> QED
    BY <2>1, ConsumeReads DEF parts
<1> DEFINE last == Len(parts) - 1
           S == {k \in 0..last : HasRead(agent, after[k], s, m + A[k])}
<1>7. \A k \in 0..last : after[k] = IF k = 0 THEN out ELSE EndLine(agent, TakePart(after[k - 1], parts[k]))
  BY <1>6 DEF ReadStates
<1>8. 0 \in S
  BY <1>4, <1>7
<1>9. ASSUME NEW k \in 0..(last - 1), k \in S PROVE k + 1 \in S
  <2>1. /\ k + 1 \in 1..Len(parts) /\ k + 1 < Len(parts) /\ (k + 1) - 1 = k /\ k + 1 \in 0..last
        /\ k \in 0..Len(parts) /\ k + 1 \in 0..Len(parts)
    BY <1>4
  <2>2. A[k] \in 0..(n - m + 1) /\ A[k + 1] \in 0..(n - m + 1) /\ A[k] < A[k + 1]
    BY <1>4, <2>1
  <2>3. /\ \A i \in (m + A[k] + 1)..(m + A[k + 1] - 1) : s[i] # "nl"
        /\ parts[k + 1] = SubSeq(s, m + A[k] + 1, m + A[k + 1] - 1)
        /\ A[k + 1] <= n - m /\ s[m + A[k + 1]] = "nl"
    BY <1>5, <2>1
  <2>4. HasRead(agent, after[k], s, m + A[k])
    BY <1>9
  <2> DEFINE p == A[k]
             q == A[k + 1]
             from == m + p
             to == m + q - 1
             next == TakePart(after[k], parts[k + 1])
  <2>5. from \in Nat /\ to \in Nat /\ from <= to /\ to + 1 <= Len(s) /\ to <= Len(s)
        /\ to + 1 = m + A[k + 1]
    <3>1. p \in 0..(n - m + 1) /\ q \in 0..(n - m + 1) /\ p < q /\ q <= n - m
      BY <2>2, <2>3
    <3> HIDE DEF p, q
    <3>2. from \in Nat /\ to \in Nat /\ from <= to /\ to + 1 <= Len(s) /\ to <= Len(s)
          /\ to + 1 = m + q
      BY <3>1, <1>1
    <3> QED
      BY <3>2 DEF q
  <2> HIDE DEF from
  <2>6. HasRead(agent, next, s, to)
    <3>1. HasRead(agent, after[k], s, from) /\ parts[k + 1] = SubSeq(s, from + 1, to)
          /\ \A i \in (from + 1)..to : s[i] # "nl"
      BY <2>3, <2>4 DEF from
    <3> HIDE DEF to
    <3>2. HasRead(agent, TakePart(after[k], SubSeq(s, from + 1, to)), s, to)
      BY <2>5, <3>1, TakePartReads
    <3> QED
      BY <3>1, <3>2
  <2> HIDE DEF next, to
  <2>7. HasRead(agent, EndLine(agent, next), s, to + 1)
    BY <2>3, <2>5, <2>6, EndLineReads
  <2>8. after[k + 1] = EndLine(agent, next)
    BY <1>7, <2>1 DEF next
  <2> QED
    BY <2>1, <2>5, <2>7, <2>8
<1>10. last \in S
  <2>1. last \in Nat
    BY <1>4
  <2> HIDE DEF S, last
  <2>2. 0..last \subseteq S
    BY <2>1, <1>8, <1>9, UpTo
  <2> QED
    BY <2>1, <2>2
<1>11. HasRead(agent, TakePart(after[last], parts[Len(parts)]), s, n)
  <2>1. /\ Len(parts) \in 1..Len(parts) /\ last \in 0..Len(parts) /\ A[last] \in 0..(n - m + 1)
        /\ A[last] < n - m + 1
    BY <1>4
  <2>2. /\ \A i \in (m + A[last] + 1)..(m + A[Len(parts)] - 1) : s[i] # "nl"
        /\ parts[Len(parts)] = SubSeq(s, m + A[last] + 1, m + A[Len(parts)] - 1)
    BY <1>5, <2>1
  <2> DEFINE from == m + A[last]
  <2>3. from \in Nat /\ from <= n /\ m + A[Len(parts)] - 1 = n
    BY <2>1, <1>4
  <2>4. HasRead(agent, after[last], s, from)
    BY <1>10
  <2> HIDE DEF from, last
  <2>5. (\A i \in (from + 1)..n : s[i] # "nl") /\ parts[Len(parts)] = SubSeq(s, from + 1, n)
    BY <2>2, <2>3 DEF from
  <2>6. HasRead(agent, TakePart(after[last], SubSeq(s, from + 1, n)), s, n)
    BY <2>3, <2>4, <2>5, TakePartReads
  <2> QED
    BY <2>5, <2>6
<1> QED
  BY <1>6, <1>11

\* p lists the positions E in their order.
Enumerates(lines, p, E) ==
  /\ p \in [lines -> E] /\ E \subseteq Nat /\ lines \subseteq Nat
  /\ \A i \in E : \E k \in lines : p[k] = i
  /\ \A k, l \in lines : k < l => p[k] < p[l]

\* The lines that report usage, and those whose text the report takes.
ReportLines(s, lines, p) == {k \in lines : s[p[k]] \in Reports}
TextLines(agent, s, lines, p) ==
  {k \in lines : s[p[k]] \in Messages} \cup
  (IF agent = "CALL_CLAUDE" THEN ReportLines(s, lines, p) ELSE {})

\* out says what the lines say.
SaidIn(agent, out, s, lines, p) ==
  LET reports == ReportLines(s, lines, p)
      texts == TextLines(agent, s, lines, p)
  IN  /\ out.structured <=> \E k \in lines : s[p[k]] # "plain"
      /\ texts # {} => /\ Max(texts) \in texts /\ out.structured
                      /\ out.message = s[p[Max(texts)]]
      /\ texts = {} => out.message = "none"
      /\ out.reports = 1 /\ out.usage <=> \E k \in reports : reports = {k} /\ s[p[k]] = "usage"

\* What is said of the events at positions E is what their lines say, p being
\* the position of a line of one symbol.
LEMMA SaidByLines ==
  ASSUME NEW agent, NEW out \in OutputType, NEW s, NEW E, NEW lines, NEW p,
         Enumerates(lines, p, E), Says(agent, out, s, E)
  PROVE  SaidIn(agent, out, s, lines, p)
<1> DEFINE reports == ReportLines(s, lines, p)
           texts == TextLines(agent, s, lines, p)
<1> USE DEF Enumerates
<1>1. out.structured <=> \E k \in lines : s[p[k]] # "plain"
  <2>1. out.structured <=> \E i \in E : s[i] # "plain"
    BY DEF Says
  <2>2. (\E i \in E : s[i] # "plain") <=> \E k \in lines : s[p[k]] # "plain"
    OBVIOUS
  <2> QED
    BY <2>1, <2>2
<1>2. \A k \in lines : /\ k \in reports <=> p[k] \in ReportsOf(s, E)
                       /\ k \in texts <=> p[k] \in TextsOf(agent, s, E)
  BY DEF ReportsOf, TextsOf, ReportLines, TextLines
<1>3. /\ reports \subseteq lines /\ texts \subseteq lines
      /\ ReportsOf(s, E) \subseteq E /\ TextsOf(agent, s, E) \subseteq E
  BY DEF ReportsOf, TextsOf, ReportLines, TextLines
<1> HIDE DEF reports, texts
<1>4. \A k, l \in lines : p[k] = p[l] => k = l
  <2> SUFFICES ASSUME NEW k \in lines, NEW l \in lines, k # l PROVE p[k] # p[l]
    OBVIOUS
  <2>1. k \in Nat /\ l \in Nat /\ p[k] \in Nat /\ p[l] \in Nat
    OBVIOUS
  <2>2. k < l \/ l < k
    BY <2>1
  <2> QED
    BY <2>1, <2>2
<1>5. texts = {} => out.message = "none"
  <2>1. texts = {} => TextsOf(agent, s, E) = {}
    BY <1>2, <1>3
  <2> QED
    BY <2>1 DEF Says
<1>6. ASSUME texts # {}
      PROVE  Max(texts) \in texts /\ out.structured /\ out.message = s[p[Max(texts)]]
  <2>1. TextsOf(agent, s, E) # {}
    BY <1>2, <1>3, <1>6
  <2>2. PICK i \in TextsOf(agent, s, E) :
          out.message = s[i] /\ \A j \in TextsOf(agent, s, E) : j <= i
    BY <2>1 DEF Says
  <2>3. PICK k \in lines : p[k] = i
    BY <1>3
  <2>4. k \in texts
    BY <1>2, <2>3
  <2>5. ASSUME NEW y \in texts PROVE k >= y
    <3>1. y \in lines /\ p[y] <= i
      BY <1>2, <1>3, <2>2
    <3>2. y \in Nat /\ k \in Nat /\ p[y] \in Nat /\ p[k] \in Nat
      BY <3>1
    <3>3. ~(k < y)
      BY <3>1, <3>2, <2>3
    <3> QED
      BY <3>2, <3>3
  <2>6. \A x \in texts : (\A y \in texts : x >= y) => x = k
    <3> SUFFICES ASSUME NEW x \in texts, \A y \in texts : x >= y PROVE x = k
      OBVIOUS
    <3>1. x >= k /\ k >= x /\ x \in Nat /\ k \in Nat
      BY <1>3, <2>4, <2>5
    <3> QED
      BY <3>1
  <2>7. Max(texts) = k
    BY <2>4, <2>5, <2>6 DEF Max
  <2>8. s[i] # "plain"
    BY <2>2, OutputAssumption DEF TextsOf, Reports
  <2> QED
    BY <2>2, <2>3, <2>4, <2>7, <2>8, <1>1
<1>7. ASSUME out.reports = 1, out.usage
      PROVE  \E k \in reports : reports = {k} /\ s[p[k]] = "usage"
  <2>1. PICK i \in E : ReportsOf(s, E) = {i}
    BY <1>7 DEF Says
  <2>2. s[i] = "usage"
    BY <2>1, <1>7 DEF Says
  <2>3. PICK k \in lines : p[k] = i
    BY <2>1, <1>3
  <2>4. reports = {k}
    <3>1. k \in reports
      BY <2>1, <2>3, <1>2
    <3>2. ASSUME NEW l \in reports PROVE l = k
      <4>1. l \in lines /\ p[l] \in {i}
        BY <2>1, <1>2, <1>3
      <4> QED
        BY <4>1, <2>3, <1>4
    <3> QED
      BY <3>1, <3>2
  <2> QED
    BY <2>2, <2>3, <2>4
<1>8. ASSUME NEW k \in reports, reports = {k}, s[p[k]] = "usage" PROVE out.reports = 1 /\ out.usage
  <2>1. ReportsOf(s, E) = {p[k]}
    <3>1. p[k] \in ReportsOf(s, E)
      BY <1>2, <1>3
    <3>2. ASSUME NEW i \in ReportsOf(s, E) PROVE i = p[k]
      <4>1. PICK l \in lines : p[l] = i
        BY <1>3
      <4> QED
        BY <4>1, <1>2, <1>8
    <3> QED
      BY <3>1, <3>2
  <2> QED
    <3>1. p[k] \in E
      BY <2>1, <1>3
    <3> QED
      BY <2>1, <3>1, <1>8 DEF Says
<1> QED
  BY <1>1, <1>5, <1>6, <1>7, <1>8 DEF reports, texts, SaidIn

\* The breaks increase.
LEMMA InOrderIncreases ==
  ASSUME NEW text \in Seq(Symbols), NEW n, NEW A, InOrder(text, n, A)
  PROVE  \A l \in 0..n : \A k \in 0..(l - 1) : A[k] < A[l]
<1> DEFINE S == {l \in 0..n : \A k \in 0..(l - 1) : A[k] < A[l]}
<1>1. n \in Nat /\ \A k \in 0..n : A[k] \in Nat
  BY BreaksType DEF InOrder
<1>2. 0 \in S
  BY <1>1
<1>3. ASSUME NEW l \in 0..(n - 1), l \in S PROVE l + 1 \in S
  <2>1. l \in 0..n /\ l + 1 \in 1..n /\ (l + 1) - 1 = l /\ l + 1 \in 0..n
    BY <1>1
  <2>2. A[l] < A[l + 1]
    BY <2>1 DEF InOrder
  <2>3. ASSUME NEW k \in 0..((l + 1) - 1) PROVE A[k] < A[l + 1]
    <3>1. k = l \/ k \in 0..(l - 1)
      BY <2>1
    <3>2. k = l \/ A[k] < A[l]
      BY <3>1, <1>3
    <3>3. A[k] \in Nat /\ A[l] \in Nat /\ A[l + 1] \in Nat
      BY <1>1, <2>1
    <3> QED
      BY <3>2, <3>3, <2>2
  <2> QED
    BY <2>1, <2>3
<1>4. 0..n \subseteq S
  <2> HIDE DEF S
  <2> QED
    BY <1>1, <1>2, <1>3, UpTo
<1> QED
  BY <1>4

\* The parts of one symbol, and where in the text these symbols are.
SingleLines(parts) == {k \in 1..Len(parts) : Len(parts[k]) = 1}
Positions(parts, A) == [k \in SingleLines(parts) |-> A[k] - 1]

\* p gives the lines of one symbol their places among the first n symbols of t.
Located(parts, p, t, n) ==
  /\ Enumerates(SingleLines(parts), p, Events(t, n))
  /\ \A k \in SingleLines(parts) : parts[k][1] = t[p[k]]

\* The lines of one symbol of a text and the positions of these symbols, when a
\* newline follows the text.
LEMMA PositionsOfLines ==
  ASSUME NEW s \in Seq(Symbols), NEW parts, NEW A, Parts(s, parts, A)
  PROVE  Located(parts, Positions(parts, A), Append(s, "nl"), Len(s) + 1)
<1> DEFINE L == Len(s)
           n == Len(parts)
           lines == SingleLines(parts)
           p == Positions(parts, A)
           t == Append(s, "nl")
           E == Events(t, Len(s) + 1)
<1>0. /\ lines = {k \in 1..Len(parts) : Len(parts[k]) = 1}
      /\ p = [k \in lines |-> A[k] - 1] /\ t = Append(s, "nl") /\ E = Events(t, Len(s) + 1)
  BY DEF SingleLines, Positions
<1> HIDE DEF lines, p, t, E
<1>1. L \in Nat /\ DOMAIN s = 1..L /\ (\A i \in 1..L : s[i] \in Symbols) /\ Breaks(s) \subseteq 0..(L + 1)
  BY ElementOfSeq, LenProperties, BreaksType
<1>2. (\A i \in 1..L : t[i] = s[i]) /\ t[L + 1] = "nl"
  BY <1>0, <1>1, AppendProperties DEF Symbols
<1>3. \A i \in 0..(L + 1) : i \in Breaks(s) <=> i = 0 \/ t[i] = "nl"
  BY <1>1, <1>2 DEF Breaks
<1> HIDE DEF L
<1>4. n \in Nat /\ n # 0 /\ (\A k \in 0..n : A[k] \in Breaks(s)) /\ A[0] = 0 /\ A[n] = L + 1
  BY DEF Parts, InOrder, L
<1>5. E = {i \in 1..L : t[i] # "nl" /\ t[i + 1] = "nl" /\ (i = 1 \/ t[i - 1] = "nl")}
  BY <1>0, <1>1 DEF Events, L
<1> HIDE DEF n
<1>6. ASSUME NEW k \in 1..n
      PROVE  /\ A[k - 1] \in 0..(L + 1) /\ A[k] \in 0..(L + 1) /\ A[k - 1] < A[k]
             /\ A[k] \in Breaks(s) /\ A[k - 1] \in Breaks(s)
             /\ \A i \in Breaks(s) : i <= A[k - 1] \/ A[k] <= i
             /\ Len(parts[k]) = A[k] - A[k - 1] - 1
             /\ Len(parts[k]) = 1 => parts[k][1] = s[A[k] - 1]
  <2>1. k \in 0..n /\ k - 1 \in 0..n
    BY <1>4
  <2>2. /\ A[k - 1] \in 0..(L + 1) /\ A[k] \in 0..(L + 1) /\ A[k - 1] < A[k]
        /\ A[k] \in Breaks(s) /\ A[k - 1] \in Breaks(s)
        /\ \A i \in Breaks(s) : i <= A[k - 1] \/ A[k] <= i
    BY <2>1, <1>1, <1>4 DEF Parts, InOrder, n
  <2> DEFINE a == A[k - 1]
             b == A[k]
             part == SubSeq(s, a + 1, b - 1)
  <2>3. parts[k] = part
    BY DEF Parts, n
  <2>4. a \in 0..(L + 1) /\ b \in 0..(L + 1) /\ a < b
    BY <2>2
  <2> HIDE DEF a, b
  <2>5. a + 1 \in Int /\ b - 1 \in Int /\ \A i \in (a + 1)..(b - 1) : s[i] \in Symbols
    BY <2>4, <1>1
  <2>6. /\ Len(part) = IF a + 1 <= b - 1 THEN (b - 1) - (a + 1) + 1 ELSE 0
        /\ \A i \in 1..((b - 1) - (a + 1) + 1) : part[i] = s[a + 1 + i - 1]
    BY <2>5, SubSeqProperties
  <2> HIDE DEF part
  <2>7. Len(part) = b - a - 1
    BY <2>4, <2>6
  <2>8. ASSUME Len(part) = 1 PROVE part[1] = s[b - 1]
    <3>1. 1 \in 1..((b - 1) - (a + 1) + 1) /\ a + 1 + 1 - 1 = b - 1
      <4>1. b - a - 1 = 1
        BY <2>7, <2>8
      <4> QED
        BY <4>1, <2>4
    <3> QED
      BY <3>1, <2>6
  <2> QED
    BY <2>2, <2>3, <2>7, <2>8 DEF a, b
<1>7. ASSUME NEW k \in lines PROVE p[k] \in E /\ parts[k][1] = t[p[k]] /\ p[k] = A[k] - 1
  <2>1. k \in 1..n /\ Len(parts[k]) = 1 /\ p[k] = A[k] - 1
    BY <1>0 DEF n
  <2> DEFINE a == A[k - 1]
             b == A[k]
  <2>2. /\ a \in 0..(L + 1) /\ b \in 0..(L + 1) /\ a \in Breaks(s) /\ b \in Breaks(s)
        /\ b - a - 1 = 1 /\ parts[k][1] = s[b - 1] /\ p[k] = b - 1
        /\ \A i \in Breaks(s) : i <= a \/ b <= i
    BY <2>1, <1>6
  <2> HIDE DEF a, b
  <2>3. b - 1 \in 1..L /\ b - 1 \notin Breaks(s) /\ b - 2 = a /\ (b - 1) + 1 = b /\ (b - 1) - 1 = a
        /\ (a = 0 => b - 1 = 1) /\ b # 0
    <3>1. b - 1 \in 1..L /\ b - 2 = a /\ (b - 1) + 1 = b /\ (b - 1) - 1 = a
          /\ (a = 0 => b - 1 = 1) /\ b # 0
      <4>1. a \in 0..(L + 1) /\ b \in 0..(L + 1) /\ b - a - 1 = 1 /\ L \in Nat
        BY <2>2, <1>1
      <4>2. b = a + 2
        BY <4>1
      <4> QED
        BY <4>1, <4>2
    <3>2. ~(b - 1 <= a \/ b <= b - 1)
      <4>1. a \in Nat /\ b = a + 2
        BY <2>2, <3>1, <1>1
      <4> QED
        BY <4>1
    <3> QED
      BY <2>2, <3>1, <3>2
  <2>4. t[b - 1] # "nl" /\ t[b] = "nl" /\ (b - 1 = 1 \/ t[a] = "nl")
    BY <2>2, <2>3, <1>1, <1>3
  <2>5. b - 1 \in E
    BY <2>3, <2>4, <1>5
  <2> QED
    BY <2>2, <2>3, <2>5, <1>2 DEF b
<1>8. ASSUME NEW i \in E PROVE \E k \in lines : p[k] = i
  <2>1. i \in 1..L /\ t[i] # "nl" /\ t[i + 1] = "nl" /\ (i = 1 \/ t[i - 1] = "nl")
    BY <1>5
  <2>2. i + 1 \in Breaks(s) /\ i - 1 \in Breaks(s) /\ i \notin Breaks(s)
    BY <2>1, <1>1, <1>3
  <2>3. PICK k \in 0..n : A[k] = i + 1
    BY <2>2 DEF Parts, n
  <2>4. k \in 1..n
    BY <2>1, <2>3, <1>1, <1>4
  <2> DEFINE a == A[k - 1]
  <2>5. /\ a \in 0..(L + 1) /\ a < i + 1 /\ a \in Breaks(s) /\ (i - 1 <= a \/ i + 1 <= i - 1)
        /\ Len(parts[k]) = (i + 1) - a - 1
    <3>1. \A j \in Breaks(s) : j <= a \/ i + 1 <= j
      BY <2>3, <2>4, <1>6
    <3>2. i - 1 <= a \/ i + 1 <= i - 1
      BY <3>1, <2>2
    <3> QED
      BY <3>2, <2>3, <2>4, <1>6
  <2> HIDE DEF a
  <2>6. a # i /\ a \in Nat /\ i \in Nat
    BY <2>1, <2>2, <2>5, <1>1
  <2>7. a = i - 1
    BY <2>5, <2>6
  <2>8. Len(parts[k]) = 1
    BY <2>5, <2>6, <2>7
  <2>9. k \in lines /\ (i + 1) - 1 = i
    BY <1>0, <2>4, <2>6, <2>8 DEF n
  <2> QED
    BY <1>0, <2>3, <2>9
<1>9. ASSUME NEW k \in lines, NEW l \in lines, k < l PROVE p[k] < p[l]
  <2>1. k \in 1..n /\ l \in 1..n
    BY <1>0 DEF n
  <2>2. l \in 0..n /\ k \in 0..(l - 1)
    BY <2>1, <1>4, <1>9
  <2>3. A[k] < A[l]
    BY <2>2, InOrderIncreases DEF Parts, n
  <2>4. A[k] \in Nat /\ A[l] \in Nat
    BY <2>1, <1>1, <1>6
  <2>5. p[k] = A[k] - 1 /\ p[l] = A[l] - 1
    BY <1>0
  <2> QED
    BY <2>3, <2>4, <2>5
<1>10. E \subseteq Nat /\ lines \subseteq Nat
  BY <1>0, <1>1, <1>4, <1>5 DEF n
<1>11. p \in [lines -> E]
  BY <1>0, <1>7
<1>12. Enumerates(lines, p, E)
  BY <1>8, <1>9, <1>10, <1>11 DEF Enumerates
<1> QED
  BY <1>7, <1>12 DEF lines, p, t, E, L, Located

\* What finish makes of the whole output is what its lines say, however the
\* output was cut into chunks.
LEMMA FinishMatches ==
  ASSUME NEW agent, NEW out, NEW s \in Seq(Symbols), HasRead(agent, out, s, Len(s))
  PROVE  FinishOutput(agent, out, s) = WholeOutput(agent, s)
<1> DEFINE parts == LineParts(s)
           t == Append(s, "nl")
           final == EndLine(agent, out)
           E == Events(t, Len(s) + 1)
           lines == SingleLines(parts)
<1>1. PICK A : Parts(s, parts, A)
  BY PartsOfText
<1> DEFINE p == Positions(parts, A)
           reports == ReportLines(t, lines, p)
           texts == TextLines(agent, t, lines, p)
<1>2. /\ t \in Seq(Symbols) /\ Len(t) = Len(s) + 1 /\ t[Len(s) + 1] = "nl" /\ Len(s) \in Nat
      /\ \A i \in 1..Len(s) : s[i] = t[i]
  BY AppendProperties, LenProperties DEF Symbols
<1>3. HasRead(agent, final, t, Len(s) + 1)
  <2> HIDE DEF t, final
  <2>1. HasRead(agent, out, t, Len(s))
    BY <1>2, HasReadAgrees
  <2> QED
    BY <1>2, <2>1, EndLineReads DEF final
<1> HIDE DEF parts
<1>4. Enumerates(lines, p, E) /\ \A k \in lines : parts[k][1] = t[p[k]]
  <2>1. Located(parts, p, t, Len(s) + 1)
    BY <1>1, PositionsOfLines
  <2> QED
    BY <2>1 DEF Located
<1>5. final \in OutputType /\ Says(agent, final, t, E)
  BY <1>3 DEF HasRead
<1> HIDE DEF p, lines, t, E, final
<1>6. /\ final.structured <=> \E k \in lines : t[p[k]] # "plain"
      /\ texts # {} => /\ Max(texts) \in texts /\ final.structured
                      /\ final.message = t[p[Max(texts)]]
      /\ texts = {} => final.message = "none"
      /\ final.reports = 1 /\ final.usage <=> \E k \in reports : reports = {k} /\ t[p[k]] = "usage"
  <2>1. SaidIn(agent, final, t, lines, p)
    BY <1>4, <1>5, SaidByLines
  <2> QED
    BY <2>1 DEF SaidIn
<1> DEFINE structured == LooksStructured(s) \/ \E k \in lines : parts[k][1] # "plain"
           wholeReports == {k \in lines : parts[k][1] \in Reports}
           wholeTexts == {k \in lines : parts[k][1] \in Messages} \cup
                         (IF agent = "CALL_CLAUDE" THEN wholeReports ELSE {})
<1>7. WholeOutput(agent, s) =
        [text |-> IF wholeTexts # {} THEN parts[Max(wholeTexts)][1]
                  ELSE IF structured THEN "none" ELSE "raw",
         usage |-> \E k \in wholeReports : wholeReports = {k} /\ parts[k][1] = "usage"]
  <2>1. DOMAIN parts = 1..Len(parts)
    BY <1>1 DEF Parts
  <2> QED
    BY <2>1 DEF WholeOutput, parts, lines, SingleLines
<1>8. wholeReports = reports /\ wholeTexts = texts /\ texts \subseteq lines
  BY <1>4 DEF ReportLines, TextLines
<1>9. (\E k \in lines : parts[k][1] # "plain") <=> final.structured
  BY <1>4, <1>6
<1>10. FinishOutput(agent, out, s) =
         [text |-> IF final.structured \/ LooksStructured(s) THEN final.message ELSE "raw",
          usage |-> final.reports = 1 /\ final.usage]
  BY DEF FinishOutput, FinishedText, final
<1> DEFINE text == IF final.structured \/ LooksStructured(s) THEN final.message ELSE "raw"
           wholeText == IF wholeTexts # {} THEN parts[Max(wholeTexts)][1]
                        ELSE IF structured THEN "none" ELSE "raw"
           usage == final.reports = 1 /\ final.usage
           wholeUsage == \E k \in wholeReports : wholeReports = {k} /\ parts[k][1] = "usage"
<1>11. structured <=> final.structured \/ LooksStructured(s)
  BY <1>9
<1>12. text = wholeText
  <2>1. CASE texts # {}
    <3>1. wholeText = t[p[Max(texts)]]
      <4> HIDE DEF texts, wholeTexts, structured
      <4> QED
        BY <2>1, <1>4, <1>6, <1>8
    <3> QED
      BY <3>1, <2>1, <1>6
  <2>2. CASE texts = {}
    <3>1. wholeText = IF structured THEN "none" ELSE "raw"
      BY <2>2, <1>8
    <3> HIDE DEF texts, wholeTexts, structured, wholeText
    <3> QED
      BY <2>2, <3>1, <1>6, <1>11
  <2> QED
    BY <2>1, <2>2
<1>13. usage <=> wholeUsage
  <2>1. wholeUsage <=> \E k \in reports : reports = {k} /\ t[p[k]] = "usage"
    <3>1. reports \subseteq lines
      BY DEF ReportLines
    <3> HIDE DEF reports, wholeReports
    <3> QED
      BY <3>1, <1>4, <1>8
  <2> QED
    BY <2>1, <1>6
<1>14. usage = wholeUsage
  <2>1. usage \in BOOLEAN /\ wholeUsage \in BOOLEAN
    OBVIOUS
  <2> QED
    BY <1>13, <2>1
<1>15. WholeOutput(agent, s) = [text |-> wholeText, usage |-> wholeUsage]
  BY <1>7
<1>16. FinishOutput(agent, out, s) = [text |-> text, usage |-> usage]
  BY <1>10
<1> HIDE DEF text, wholeText, usage, wholeUsage
<1> QED
  BY <1>12, <1>14, <1>15, <1>16

-----------------------------------------------------------------------------
(* The calls of the coding workers.                                        *)

\* The state of the reader is that of what was delivered, nothing is written or
\* delivered after the close, and only then is there anything to report.
ReadsOutput ==
  call \in Workers =>
    /\ stream \in Seq(Symbols) /\ read \in 0..Len(stream)
    /\ HasRead(call, output, stream, read)
    /\ closed => phase = "spawned" /\ holding = {} /\ read = Len(stream)
    /\ outcome = "resolved" => closed
    /\ result # Nothing /\ result.text # "error" =>
         /\ outcome = "resolved"
         /\ [text |-> result.text, usage |-> result.usage] = WholeOutput(call, stream)

LEMMA ReadsOutputInit == ToolInit => ReadsOutput
<1> SUFFICES ASSUME ToolInit, call \in Workers PROVE ReadsOutput
  BY DEF ReadsOutput
<1>1. stream = <<>> /\ read = 0 /\ output = NewOutput /\ result = Nothing
      /\ ~closed /\ outcome = "pending"
  BY DEF ToolInit, Init
<1>2. stream \in Seq(Symbols) /\ read \in 0..Len(stream)
  BY <1>1, EmptySeq
<1>3. HasRead(call, output, stream, read)
  BY <1>1, HasReadNothing
<1> QED
  BY <1>1, <1>2, <1>3 DEF ReadsOutput

LEMMA TextOfReport ==
  ASSUME NEW r, NEW ok, NEW killed, NEW late, NEW text, NEW usage,
         r = [ok |-> ok, cancelled |-> killed, timedOut |-> late, text |-> text, usage |-> usage]
  PROVE  r.text = text /\ r.usage = usage
OBVIOUS

\* Of the steps that leave the call and its output alone.
LEMMA ReadsOutputKept ==
  ASSUME ReadsOutput, UNCHANGED <<call, streamVars, result>>,
         call \in Workers =>
           /\ closed' => phase' = "spawned" /\ holding' = {} /\ read = Len(stream)
           /\ outcome' = "resolved" => closed'
           /\ outcome = "resolved" => outcome' = "resolved"
  PROVE  ReadsOutput'
<1>1. call' = call /\ stream' = stream /\ read' = read /\ output' = output /\ result' = result
  BY DEF streamVars
<1> SUFFICES ASSUME call \in Workers PROVE ReadsOutput'
  BY <1>1 DEF ReadsOutput
<1>2. HasRead(call, output, stream, read)'
  BY <1>1 DEF ReadsOutput
<1>3. (result # Nothing /\ result.text # "error" =>
         /\ outcome = "resolved"
         /\ [text |-> result.text, usage |-> result.usage] = WholeOutput(call, stream))'
  BY <1>1 DEF ReadsOutput
<1> QED
  BY <1>1, <1>2, <1>3 DEF ReadsOutput

LEMMA ReadsOutputStep == Inv /\ ReadsOutput /\ [ToolNext]_toolVars => ReadsOutput'
<1> SUFFICES ASSUME Inv, ReadsOutput, [ToolNext]_toolVars PROVE ReadsOutput'
  OBVIOUS
<1>0. call' = call
  BY DEF ToolNext, toolVars, callVars, Executor, Refused, ReadReturns, StartProcess, DirectCall, Return,
         ProcessActs, ErrorReported, Closed, Signalling, Write, Data, Deliver
<1> SUFFICES ASSUME call \in Workers PROVE ReadsOutput'
  BY <1>0 DEF ReadsOutput
<1>1. /\ stream \in Seq(Symbols) /\ read \in 0..Len(stream) /\ HasRead(call, output, stream, read)
      /\ closed => phase = "spawned" /\ holding = {} /\ read = Len(stream)
      /\ outcome = "resolved" => closed
      /\ result # Nothing /\ result.text # "error" =>
           /\ outcome = "resolved"
           /\ [text |-> result.text, usage |-> result.usage] = WholeOutput(call, stream)
  BY DEF ReadsOutput
<1>2. call \notin Reads /\ call # "direct"
  BY DEF Workers, Reads
<1>3. Len(stream) \in Nat /\ read \in Nat
  BY <1>1, LenProperties
<1> USE DEF streamVars, callVars
<1>4. CASE Threw /\ UNCHANGED <<vars, callVars, exit, streamVars>>
  <2>1. result'.text = "error"
    BY <1>4, TextOfReport DEF Threw, Report
  <2>2. UNCHANGED <<call, stream, read, output, closed, phase, holding, outcome>>
    BY <1>4 DEF vars, processes, flags
  <2>3. HasRead(call, output, stream, read)'
    BY <1>1, <2>2
  <2> QED
    BY <1>1, <2>1, <2>2, <2>3 DEF ReadsOutput
<1>5. CASE Refused
  BY <1>4, <1>5 DEF Refused
<1>6. CASE StartProcess
  <2>1. UNCHANGED <<call, streamVars, result, closed, outcome>> /\ phase = "called"
    BY <1>6 DEF StartProcess, Spawn, SpawnFails, flags
  <2> QED
    BY <1>1, <2>1, ReadsOutputKept
<1>7. CASE Return
  <2>1. CASE outcome = "rejected"
    BY <1>4, <1>7, <2>1 DEF Return
  <2>2. CASE outcome # "rejected"
    <3> DEFINE finished == FinishOutput(call, output, stream)
    <3>1. outcome = "resolved"
      BY <1>7, <2>2 DEF Return, Inv, TypeOK
    <3>2. read = Len(stream)
      BY <1>1, <3>1
    <3>3. finished = WholeOutput(call, stream)
      BY <1>1, <3>2, FinishMatches
    <3>4. Report(Succeeded, finished.text, finished.usage) /\ UNCHANGED <<vars, callVars, exit, streamVars>>
      BY <1>7, <2>2 DEF Return
    <3>5. result'.text = finished.text /\ result'.usage = finished.usage
      <4> HIDE DEF finished
      <4> QED
        BY <3>4, TextOfReport DEF Report
    <3>6. [text |-> finished.text, usage |-> finished.usage] = finished
      BY DEF FinishOutput
    <3>7. UNCHANGED <<call, stream, read, output, closed, phase, holding, outcome>>
      BY <3>4 DEF vars, processes, flags
    <3> HIDE DEF finished
    <3>8. [text |-> result'.text, usage |-> result'.usage] = WholeOutput(call', stream')
      BY <3>3, <3>5, <3>6, <3>7
    <3>9. HasRead(call, output, stream, read)'
      BY <1>1, <3>7
    <3> QED
      BY <1>1, <3>1, <3>7, <3>8, <3>9 DEF ReadsOutput
  <2> QED
    BY <2>1, <2>2
<1>8. CASE ProcessActs
  <2>1. UNCHANGED <<call, streamVars, result, phase, closed, outcome>>
    BY <1>8 DEF ProcessActs, ProcessStep, flags
  <2>2. holding = {} => holding' = {}
    BY <1>8 DEF ProcessActs, ProcessStep, CloseOutput, LeaveGroup, Exit, Survive, Fork
  <2> QED
    BY <1>1, <2>1, <2>2, ReadsOutputKept
<1>9. CASE ErrorReported
  <2>1. UNCHANGED <<call, streamVars, result, phase, holding, closed>> /\ outcome' = "rejected"
        /\ outcome = "pending"
    BY <1>9 DEF ErrorReported, ErrorEvent, processes, flags
  <2> QED
    BY <1>1, <2>1, ReadsOutputKept
<1>10. CASE Closed
  <2>1. UNCHANGED <<call, streamVars, result>> /\ phase' = "spawned" /\ holding' = {}
        /\ closed' = TRUE /\ read = Len(stream) /\ (outcome = "resolved" => outcome' = "resolved")
    BY <1>10 DEF Closed, CloseEvent, Finish, processes
  <2> QED
    BY <2>1, ReadsOutputKept
<1>11. CASE Signalling(Abort) \/ Signalling(TimeoutFires) \/ Signalling(GraceEnds)
  <2>1. UNCHANGED <<call, streamVars, result>>
    BY <1>11 DEF Signalling
  <2>2. UNCHANGED <<phase, closed>> /\ (holding = {} => holding' = {})
    BY <1>11 DEF Signalling, Abort, TimeoutFires, GraceEnds, Terminate, SendTerm, SendKill, Signal, Survive,
                 processes, flags
  <2>3. outcome' = outcome \/ (outcome' = "resolved" /\ closed)
    BY <1>11 DEF Signalling, Abort, TimeoutFires, GraceEnds, Finish
  <2> QED
    BY <1>1, <2>1, <2>2, <2>3, ReadsOutputKept
<1>12. ASSUME NEW symbol \in Symbols, Write(symbol) PROVE ReadsOutput'
  <2>1. /\ stream' = Append(stream, symbol) /\ "child" \in holding
        /\ UNCHANGED <<call, read, output, result, closed, outcome>>
    BY <1>12 DEF Write, vars, flags
  <2>2. ~closed /\ outcome # "resolved"
    BY <1>1, <2>1
  <2>3. /\ stream' \in Seq(Symbols) /\ Len(stream') = Len(stream) + 1
        /\ \A i \in 1..Len(stream) : stream[i] = stream'[i]
    BY <1>1, <2>1, AppendProperties
  <2>4. read <= Len(stream) /\ read <= Len(stream') /\ \A i \in 1..read : stream[i] = stream'[i]
    BY <1>1, <1>3, <2>3
  <2>5. HasRead(call, output, stream', read)
    BY <1>1, <1>3, <2>3, <2>4, HasReadAgrees
  <2>6. HasRead(call, output, stream, read)'
    BY <2>1, <2>5
  <2>7. read' \in 0..Len(stream')
    BY <1>3, <2>1, <2>4, <2>3
  <2>8. ~(result' # Nothing /\ result'.text # "error")
    BY <1>1, <2>1, <2>2
  <2> QED
    BY <2>1, <2>2, <2>3, <2>6, <2>7, <2>8 DEF ReadsOutput
<1>13. ASSUME NEW n \in (read + 1)..Len(stream), Deliver(n) PROVE ReadsOutput'
  <2>1. /\ read' = n /\ output' = Consume(call, output, SubSeq(stream, read + 1, n)) /\ outcome = "pending"
        /\ UNCHANGED <<call, stream, result, closed, outcome>>
    BY <1>13 DEF Deliver, vars, flags
  <2>2. n \in Nat /\ read <= n /\ n <= Len(stream) /\ read # Len(stream)
    BY <1>3
  <2>3. HasRead(call, Consume(call, output, SubSeq(stream, read + 1, n)), stream, n)
    BY <1>1, <1>3, <2>2, ChunkReads
  <2>4. HasRead(call, output, stream, read)'
    BY <2>1, <2>3
  <2>5. ~closed /\ ~(result # Nothing /\ result.text # "error")
    BY <1>1, <2>1, <2>2
  <2>6. n \in 0..Len(stream)
    BY <1>3, <2>2
  <2> QED
    BY <1>1, <2>1, <2>4, <2>5, <2>6 DEF ReadsOutput
<1>14. CASE UNCHANGED toolVars
  <2>1. UNCHANGED <<call, streamVars, result, closed, outcome, phase, holding>>
    BY <1>14 DEF toolVars, vars, flags, processes
  <2> QED
    BY <1>1, <2>1, ReadsOutputKept
<1>15. CASE Executor
  BY <1>2, <1>5, <1>6, <1>7, <1>15 DEF Executor, ReadReturns, DirectCall
<1>16. CASE Data
  BY <1>13, <1>16 DEF Data
<1> QED
  BY <1>8, <1>9, <1>10, <1>11, <1>12, <1>14, <1>15, <1>16 DEF ToolNext

\* What a worker call reports is what its whole output says, wherever the output
\* was cut into chunks: createWorkerOutput (agents/output.ts) loses, repeats and
\* merges no event at the end of a chunk, and a line above the limit says nothing
\* even if it arrives in parts that are below it.
THEOREM OutputMatchesStreamHolds == ToolSpec => []OutputMatchesStream
<1>1. ReadsOutput => OutputMatchesStream
  BY DEF ReadsOutput, OutputMatchesStream
<1>2. ToolSpec => []Inv
  BY ToolsRunProcesses, InvHolds, PTL
<1> QED
  BY <1>1, <1>2, ReadsOutputInit, ReadsOutputStep, PTL DEF ToolSpec

-----------------------------------------------------------------------------
(* The evidence packet.                                                    *)

\* The packets under construction.
PacketType ==
  [generation : Nat, header : Nat,
   latest : TextType, validation : TextType, issue : TextType, worker : TextType,
   files : Seq(Nat), findings : Seq(Nat), clarifications : Seq(Nat), failures : Seq(Nat),
   truncated : BOOLEAN]

LEMMA TotalOfNone == Total(<<>>) = 0
<1> DEFINE g == [k \in 0..0 |-> IF k = 0 THEN 0 ELSE 0]
<1>1. Total(<<>>) = (CHOOSE f : f = [k \in 0..0 |-> IF k = 0 THEN 0 ELSE f[k - 1] + <<>>[k]])[0]
  BY DEF Total
<1>2. \A f : f = [k \in 0..0 |-> IF k = 0 THEN 0 ELSE f[k - 1] + <<>>[k]] => f[0] = 0
  OBVIOUS
<1>3. \E f : f = [k \in 0..0 |-> IF k = 0 THEN 0 ELSE f[k - 1] + <<>>[k]]
  <2>1. g = [k \in 0..0 |-> IF k = 0 THEN 0 ELSE g[k - 1] + <<>>[k]]
    OBVIOUS
  <2> QED
    BY <2>1
<1> QED
  BY <1>1, <1>2, <1>3

\* What the texts may take of a packet that has no lists yet.
Used(c) == c.header + TextLength(c)

LEMMA LengthOfTexts ==
  ASSUME NEW c, c.files = <<>>, c.findings = <<>>, c.clarifications = <<>>, c.failures = <<>>,
         c.header \in Nat, TextLength(c) \in Nat
  PROVE  Length(c) = Used(c)
BY TotalOfNone DEF Length, ListLength, Used

LEMMA SerializedType ==
  ASSUME NEW text \in TextType
  PROVE  /\ Serialized(text) \in Nat
         /\ text.length = 0 => Serialized(text) = 0
BY DEF Serialized, TextType

\* The lists are filled after the texts.
NoLists(c) == c.files = <<>> /\ c.findings = <<>> /\ c.clarifications = <<>> /\ c.failures = <<>>

\* r is c with text t no longer than the code admits.
TextAdded(c, r, t, text) ==
  /\ r \in PacketType /\ NoLists(r) /\ fits(r)
  /\ r.header = c.header /\ r.generation = c.generation
  /\ \A u \in Texts \ {t} : r[u] = c[u]
  /\ r[t].length <= TextLimit[t] /\ Serialized(r[t]) <= 2 * TextLimit[t]
  /\ text.length > 0 /\ text.escape <= 2 * TextLimit[t] /\ Used(c) + text.escape <= MaxContext
       => r[t].length > 0

LEMMA LimitType == \A t \in Texts : TextLimit[t] \in Nat \ {0}
BY ContextAssumption DEF Texts, TextLimit

\* The packet with another text t.
SetText(c, t, text, b) == [c EXCEPT ![t] = text, !.truncated = b]

\* r is c but for text t.
OnlyText(c, r, t, text) ==
  /\ r \in PacketType /\ r.header = c.header /\ r.generation = c.generation
  /\ r[t] = text /\ \A u \in Texts \ {t} : r[u] = c[u]
  /\ \A l \in Lists : r[l] = c[l]

LEMMA PacketFields ==
  ASSUME NEW c \in PacketType, NEW t \in Texts, NEW text \in TextType, NEW b \in BOOLEAN
  PROVE  OnlyText(c, SetText(c, t, text, b), t, text)
<1> USE DEF PacketType, Texts, Lists, SetText, OnlyText
<1>1. CASE t = "latest"
  BY <1>1
<1>2. CASE t = "validation"
  BY <1>2
<1>3. CASE t = "issue"
  BY <1>3
<1>4. CASE t = "worker"
  BY <1>4
<1> QED
  BY <1>1, <1>2, <1>3, <1>4

\* The length of the packet when only text t changes.
LEMMA UsedChange ==
  ASSUME NEW c \in PacketType, NEW r \in PacketType, NEW t \in Texts, r.header = c.header,
         \A u \in Texts \ {t} : r[u] = c[u]
  PROVE  /\ Used(c) \in Nat /\ TextLength(c) \in Nat /\ Used(r) \in Nat
         /\ Used(r) = Used(c) - Serialized(c[t]) + Serialized(r[t])
<1>1. /\ Serialized(c.latest) \in Nat /\ Serialized(c.validation) \in Nat
      /\ Serialized(c.issue) \in Nat /\ Serialized(c.worker) \in Nat /\ c.header \in Nat
      /\ Serialized(r.latest) \in Nat /\ Serialized(r.validation) \in Nat
      /\ Serialized(r.issue) \in Nat /\ Serialized(r.worker) \in Nat
  BY SerializedType DEF PacketType
<1> USE DEF Used, TextLength, Texts
<1>2. CASE t = "latest"
  BY <1>1, <1>2
<1>3. CASE t = "validation"
  BY <1>1, <1>3
<1>4. CASE t = "issue"
  BY <1>1, <1>4
<1>5. CASE t = "worker"
  BY <1>1, <1>5
<1> QED
  BY <1>2, <1>3, <1>4, <1>5

LEMMA FitsIsUsed ==
  ASSUME NEW c \in PacketType, NoLists(c)
  PROVE  Length(c) = Used(c) /\ Used(c) \in Nat /\ (fits(c) <=> Used(c) <= MaxContext)
<1>1. TextLength(c) \in Nat /\ Used(c) \in Nat
  <2>1. "latest" \in Texts
    BY DEF Texts
  <2> QED
    BY <2>1, UsedChange
<1>2. Length(c) = Used(c)
  <2>1. c.header \in Nat
    BY DEF PacketType
  <2> QED
    BY <1>1, <2>1, LengthOfTexts DEF NoLists
<1> QED
  BY <1>1, <1>2 DEF fits

\* addText keeps the packet within its size, and leaves some of a text out only
\* where the packet has no room for its first character.
LEMMA AddTextFits ==
  ASSUME NEW c \in PacketType, NoLists(c), fits(c), NEW t \in Texts, c[t] = NoText,
         NEW text \in TextType
  PROVE  TextAdded(c, addText(c, t, text), t, text)
<1> DEFINE cut(n) == [text EXCEPT !.length = n]
           with(n) == [c EXCEPT ![t] = cut(n)]
           limit == TextLimit[t]
           admitted == {n \in 0..Min({text.length, limit}) :
                          n * text.escape <= 2 * limit /\ fits(with(n))}
           kept == Max(admitted \cup {0})
           r == addText(c, t, text)
<1>1. limit \in Nat \ {0} /\ text.length \in Nat /\ text.escape \in Nat \ {0}
  BY LimitType DEF TextType
<1>2. Min({text.length, limit}) = IF text.length <= limit THEN text.length ELSE limit
  <2> HIDE DEF limit
  <2> QED
    BY <1>1, MinOfTwo
<1>3. r = [c EXCEPT ![t] = cut(kept), !.truncated = @ \/ text.length \notin admitted]
  BY DEF addText
<1> HIDE DEF limit, r
<1>4. admitted \cup {0} \subseteq 0..limit
  BY <1>1, <1>2
<1>5. kept \in admitted \cup {0} /\ \A n \in admitted \cup {0} : kept >= n
  <2> DEFINE T == admitted \cup {0}
  <2>1. T \subseteq 0..limit /\ T # {}
    BY <1>4
  <2> HIDE DEF T, admitted
  <2> QED
    BY <1>1, <2>1, Greatest DEF T
<1>6. kept \in Nat /\ kept <= limit
  <2>1. kept \in 0..limit
    <3> HIDE DEF kept, admitted
    <3> QED
      BY <1>4, <1>5
  <2> HIDE DEF kept
  <2> QED
    BY <2>1, <1>1
<1>7. ASSUME NEW n \in Nat
      PROVE  /\ cut(n) \in TextType /\ cut(n).length = n /\ cut(n).escape = text.escape
             /\ Serialized(cut(n)) = n * text.escape /\ n * text.escape \in Nat
  BY <1>1 DEF TextType, Serialized
<1>8. c.header \in Nat /\ c.generation \in Nat /\ c.truncated \in BOOLEAN
  BY DEF PacketType
<1>9. Serialized(c[t]) = 0
  BY SerializedType DEF NoText, Serialized
<1>10. ASSUME NEW n \in Nat
       PROVE  /\ with(n) \in PacketType /\ NoLists(with(n))
              /\ fits(with(n)) <=> Used(c) + n * text.escape <= MaxContext
  <2> DEFINE w == with(n)
  <2>1. /\ w \in PacketType /\ w.header = c.header /\ w[t] = cut(n)
        /\ (\A u \in Texts \ {t} : w[u] = c[u]) /\ (\A l \in Lists : w[l] = c[l])
    <3> DEFINE x == cut(n)
    <3>1. x \in TextType
      BY <1>7
    <3> HIDE DEF x
    <3>2. w = SetText(c, t, x, c.truncated)
      BY DEF x, PacketType, Texts, SetText
    <3> HIDE DEF w
    <3>3. OnlyText(c, w, t, x)
      BY <1>8, <3>1, <3>2, PacketFields
    <3> QED
      BY <3>3 DEF x, OnlyText
  <2> HIDE DEF w
  <2>2. NoLists(w)
    BY <2>1 DEF NoLists, Lists
  <2>3. Used(w) = Used(c) - Serialized(c[t]) + Serialized(w[t]) /\ Used(c) \in Nat
    BY <2>1, UsedChange
  <2>4. Used(w) = Used(c) + n * text.escape
    <3> DEFINE m == n * text.escape
    <3>1. m \in Nat /\ Serialized(w[t]) = m
      BY <1>7, <2>1
    <3> HIDE DEF m
    <3>2. Used(w) = Used(c) + m
      BY <1>9, <2>3, <3>1
    <3> QED
      BY <3>2 DEF m
  <2>5. fits(w) <=> Used(w) <= MaxContext
    BY <2>1, <2>2, FitsIsUsed
  <2> QED
    BY <2>1, <2>2, <2>4, <2>5 DEF w
<1>11. kept * text.escape <= 2 * limit /\ fits(with(kept))
  <2>1. CASE kept \in admitted
    BY <2>1
  <2>2. CASE kept = 0
    <3>1. 0 * text.escape = 0
      BY <1>1
    <3>2. Used(c) <= MaxContext /\ Used(c) \in Nat
      BY FitsIsUsed
    <3>3. fits(with(0))
      <4> HIDE DEF with
      <4>1. fits(with(0)) <=> Used(c) + 0 * text.escape <= MaxContext
        BY <1>10
      <4> QED
        BY <3>1, <3>2, <4>1
    <3> HIDE DEF with, kept
    <3> QED
      BY <2>2, <3>1, <3>3, <1>1
  <2> QED
    BY <1>5, <2>1, <2>2
<1>12. ASSUME text.length > 0, text.escape <= 2 * limit, Used(c) + text.escape <= MaxContext
       PROVE  kept > 0
  <2>1. 1 * text.escape = text.escape
    BY <1>1
  <2>2. fits(with(1)) <=> Used(c) + 1 * text.escape <= MaxContext
    <3> HIDE DEF with
    <3> QED
      BY <1>10
  <2>3. 1 \in 0..Min({text.length, limit})
    BY <1>1, <1>2, <1>12
  <2>4. 1 \in admitted
    BY <1>12, <2>1, <2>2, <2>3
  <2> HIDE DEF kept, admitted
  <2> QED
    BY <1>5, <1>6, <2>4
<1>13. /\ r \in PacketType /\ r.header = c.header /\ r.generation = c.generation
       /\ r[t] = cut(kept) /\ (\A u \in Texts \ {t} : r[u] = c[u])
       /\ (\A l \in Lists : r[l] = c[l])
  <2> DEFINE x == cut(kept)
             b == c.truncated \/ text.length \notin admitted
  <2>1. x \in TextType
    <3> HIDE DEF kept
    <3> QED
      BY <1>6, <1>7
  <2>2. b \in BOOLEAN
    OBVIOUS
  <2>3. r = SetText(c, t, x, b)
    BY <1>3 DEF PacketType, Texts, SetText
  <2> HIDE DEF x, b
  <2>4. OnlyText(c, r, t, x)
    BY <2>1, <2>2, <2>3, PacketFields
  <2> QED
    BY <2>4 DEF x, OnlyText
<1> HIDE DEF kept
<1>14. NoLists(r)
  BY <1>13 DEF NoLists, Lists
<1>15. fits(r)
  <2>1. Used(r) = Used(c) - Serialized(c[t]) + Serialized(r[t]) /\ Used(c) \in Nat
    BY <1>13, UsedChange
  <2> DEFINE m == kept * text.escape
  <2>2. m \in Nat /\ Serialized(r[t]) = m
    BY <1>6, <1>7, <1>13
  <2>3. Used(c) + m <= MaxContext
    <3> HIDE DEF with
    <3> QED
      BY <1>6, <1>10, <1>11
  <2> HIDE DEF m
  <2>4. Used(r) <= MaxContext
    BY <1>9, <2>1, <2>2, <2>3
  <2> QED
    BY <1>13, <1>14, <2>4, FitsIsUsed
<1>16. r[t].length = kept /\ Serialized(r[t]) = kept * text.escape
  BY <1>6, <1>7, <1>13
<1>17. TextAdded(c, r, t, text)
  BY <1>6, <1>11, <1>12, <1>13, <1>14, <1>15, <1>16 DEF TextAdded, limit
<1> QED
  BY <1>17 DEF r

\* r is c with at most n more items in list l.
ItemsAdded(c, r, l, n) ==
  /\ r \in PacketType /\ fits(r) /\ r.generation = c.generation
  /\ \A u \in Texts : r[u] = c[u]
  /\ \A m \in Lists \ {l} : r[m] = c[m]
  /\ Len(r[l]) <= Len(c[l]) + n

LEMMA ListType ==
  ASSUME NEW c \in PacketType, NEW l \in Lists
  PROVE  c[l] \in Seq(Nat) /\ Len(c[l]) \in Nat
<1>1. c[l] \in Seq(Nat)
  BY DEF PacketType, Lists
<1> QED
  BY <1>1, LenProperties

\* The packet with another list l.
SetList(c, l, items) == [c EXCEPT ![l] = items]

LEMMA ListFields ==
  ASSUME NEW c \in PacketType, NEW l \in Lists, NEW items \in Seq(Nat)
  PROVE  /\ SetList(c, l, items) \in PacketType /\ SetList(c, l, items).generation = c.generation
         /\ \A u \in Texts : SetList(c, l, items)[u] = c[u]
         /\ \A m \in Lists \ {l} : SetList(c, l, items)[m] = c[m]
         /\ SetList(c, l, items)[l] = items
<1> USE DEF PacketType, Texts, Lists, SetList
<1>1. CASE l = "files"
  BY <1>1
<1>2. CASE l = "findings"
  BY <1>2
<1>3. CASE l = "clarifications"
  BY <1>3
<1>4. CASE l = "failures"
  BY <1>4
<1> QED
  BY <1>1, <1>2, <1>3, <1>4

LEMMA AddItemFits ==
  ASSUME NEW c \in PacketType, fits(c), NEW l \in Lists, NEW size \in Nat
  PROVE  ItemsAdded(c, addItem(c, l, size), l, 1)
<1> DEFINE items == Append(c[l], size)
           next == SetList(c, l, items)
           cut == [c EXCEPT !.truncated = TRUE]
<1>1. c[l] \in Seq(Nat) /\ Len(c[l]) \in Nat
  BY ListType
<1>2. items \in Seq(Nat) /\ Len(items) = Len(c[l]) + 1
  BY <1>1, AppendProperties
<1>3. addItem(c, l, size) = IF fits(next) THEN next ELSE cut
  BY DEF addItem, SetList, PacketType, Lists
<1>4. CASE fits(next)
  <2> HIDE DEF items
  <2>1. /\ next \in PacketType /\ next.generation = c.generation
        /\ \A u \in Texts : next[u] = c[u]
        /\ \A m \in Lists \ {l} : next[m] = c[m]
        /\ next[l] = items
    BY <1>2, ListFields
  <2> HIDE DEF next
  <2> QED
    BY <1>1, <1>2, <1>3, <1>4, <2>1 DEF ItemsAdded
<1>5. CASE ~fits(next)
  <2>1. /\ cut \in PacketType /\ cut.generation = c.generation /\ cut.header = c.header
        /\ \A u \in Texts \cup Lists : cut[u] = c[u]
    BY DEF PacketType, Texts, Lists
  <2> HIDE DEF cut
  <2>2. /\ cut.latest = c.latest /\ cut.validation = c.validation /\ cut.issue = c.issue
        /\ cut.worker = c.worker /\ cut.files = c.files /\ cut.findings = c.findings
        /\ cut.clarifications = c.clarifications /\ cut.failures = c.failures
    BY <2>1 DEF Texts, Lists
  <2>3. fits(cut)
    BY <2>1, <2>2 DEF fits, Length, TextLength, ListLength
  <2> QED
    BY <1>1, <1>3, <1>5, <2>1, <2>3 DEF ItemsAdded
<1> QED
  BY <1>4, <1>5

\* g holds the packets after each of n items.
AfterItems(c, l, items, n, g) ==
  g = [k \in 0..n |-> IF k = 0 THEN c ELSE addItem(g[k - 1], l, items[k])]

LEMMA AfterItemsExist ==
  ASSUME NEW c, NEW l, NEW items, NEW n \in Nat
  PROVE  \E g : AfterItems(c, l, items, n, g)
<1> DEFINE S == {m \in Nat : \E g : AfterItems(c, l, items, m, g)}
<1>1. 0 \in S
  <2> DEFINE g == [k \in 0..0 |-> c]
  <2>1. g = [k \in 0..0 |-> IF k = 0 THEN c ELSE addItem(g[k - 1], l, items[k])]
    OBVIOUS
  <2>2. AfterItems(c, l, items, 0, g)
    BY <2>1 DEF AfterItems
  <2> QED
    BY <2>2
<1>2. ASSUME NEW m \in 0..(n - 1), m \in S PROVE m + 1 \in S
  <2>1. PICK g : AfterItems(c, l, items, m, g)
    BY <1>2
  <2>2. \A k \in 0..m : g[k] = IF k = 0 THEN c ELSE addItem(g[k - 1], l, items[k])
    BY <2>1 DEF AfterItems
  <2> DEFINE h == [k \in 0..(m + 1) |-> IF k = m + 1 THEN addItem(g[m], l, items[m + 1]) ELSE g[k]]
  <2>3. \A k \in 0..(m + 1) : h[k] = IF k = 0 THEN c ELSE addItem(h[k - 1], l, items[k])
    <3> SUFFICES ASSUME NEW k \in 0..(m + 1)
                 PROVE  h[k] = IF k = 0 THEN c ELSE addItem(h[k - 1], l, items[k])
      OBVIOUS
    <3>1. CASE k = m + 1
      <4>1. h[m] = g[m] /\ h[m + 1] = addItem(g[m], l, items[m + 1]) /\ k - 1 = m /\ k # 0
        BY <3>1
      <4> QED
        BY <4>1, <3>1
    <3>2. CASE k # m + 1
      <4>1. k \in 0..m /\ h[k] = g[k] /\ (k # 0 => h[k - 1] = g[k - 1])
        BY <3>2
      <4>2. g[k] = IF k = 0 THEN c ELSE addItem(g[k - 1], l, items[k])
        BY <2>2, <4>1
      <4> QED
        BY <4>1, <4>2
    <3> QED
      BY <3>1, <3>2
  <2>4. h = [k \in 0..(m + 1) |-> h[k]]
    OBVIOUS
  <2> HIDE DEF h
  <2>5. AfterItems(c, l, items, m + 1, h)
    BY <2>3, <2>4 DEF AfterItems
  <2> QED
    BY <2>5
<1>3. 0..n \subseteq S
  <2> HIDE DEF S
  <2> QED
    BY <1>1, <1>2, UpTo
<1> QED
  BY <1>3

LEMMA AddItemsFits ==
  ASSUME NEW c \in PacketType, fits(c), NEW l \in Lists, NEW items \in Seq(Nat)
  PROVE  ItemsAdded(c, addItems(c, l, items), l, Len(items))
<1> DEFINE n == Len(items)
           after == CHOOSE g : g = [k \in 0..n |-> IF k = 0 THEN c ELSE addItem(g[k - 1], l, items[k])]
           S == {k \in 0..n : ItemsAdded(c, after[k], l, k)}
<1>1. n \in Nat /\ (\A k \in 1..n : items[k] \in Nat) /\ Len(c[l]) \in Nat
  BY ElementOfSeq, LenProperties, ListType
<1>2. addItems(c, l, items) = after[n]
  BY DEF addItems
<1>3. AfterItems(c, l, items, n, after)
  <2>1. after = CHOOSE g : AfterItems(c, l, items, n, g)
    BY DEF AfterItems
  <2> HIDE DEF after, n
  <2> QED
    BY <1>1, <2>1, AfterItemsExist
<1> HIDE DEF after, n
<1>4. \A k \in 0..n : after[k] = IF k = 0 THEN c ELSE addItem(after[k - 1], l, items[k])
  BY <1>3 DEF AfterItems
<1>5. 0 \in S
  BY <1>1, <1>4 DEF ItemsAdded
<1>6. ASSUME NEW k \in 0..(n - 1), k \in S PROVE k + 1 \in S
  <2>1. k \in Nat /\ k + 1 \in 1..n /\ k + 1 \in 0..n /\ k + 1 # 0 /\ (k + 1) - 1 = k
    BY <1>1
  <2> DEFINE before == after[k]
             next == after[k + 1]
  <2>2. ItemsAdded(c, before, l, k)
    BY <1>6
  <2>3. next = addItem(before, l, items[k + 1])
    BY <1>4, <2>1
  <2> HIDE DEF before, next
  <2>4. before \in PacketType /\ fits(before)
    BY <2>2 DEF ItemsAdded
  <2>5. ItemsAdded(before, next, l, 1)
    BY <1>1, <2>1, <2>3, <2>4, AddItemFits
  <2>6. Len(before[l]) \in Nat /\ Len(next[l]) \in Nat
    BY <2>4, <2>5, ListType DEF ItemsAdded
  <2>7. ItemsAdded(c, next, l, k + 1)
    <3>1. Len(next[l]) <= Len(c[l]) + (k + 1)
      <4> DEFINE x == Len(c[l])
                 y == Len(before[l])
                 z == Len(next[l])
      <4>1. x \in Nat /\ y \in Nat /\ z \in Nat /\ y <= x + k /\ z <= y + 1 /\ k \in Nat
        BY <1>1, <2>1, <2>2, <2>5, <2>6 DEF ItemsAdded
      <4> HIDE DEF x, y, z
      <4>2. z <= x + (k + 1)
        BY <4>1
      <4> QED
        BY <4>2 DEF x, z
    <3>2. /\ next \in PacketType /\ fits(next) /\ next.generation = c.generation
          /\ \A u \in Texts : next[u] = c[u]
          /\ \A m \in Lists \ {l} : next[m] = c[m]
      BY <2>2, <2>5 DEF ItemsAdded
    <3> QED
      BY <3>1, <3>2 DEF ItemsAdded
  <2> QED
    BY <2>1, <2>7 DEF next
<1>7. 0..n \subseteq S
  <2> HIDE DEF S
  <2> QED
    BY <1>1, <1>5, <1>6, UpTo
<1> QED
  BY <1>1, <1>2, <1>7 DEF n

\* recent keeps at most as many items as a packet may hold.
LEMMA RecentType ==
  ASSUME NEW items \in Seq(Nat)
  PROVE  recent(items) \in Seq(Nat) /\ Len(recent(items)) \in 0..MaxItems
<1> DEFINE n == Len(items)
           from == Max({1, n - MaxItems + 1})
           part == SubSeq(items, from, n)
<1>1. n \in Nat /\ MaxItems \in Nat \ {0} /\ \A i \in 1..n : items[i] \in Nat
  BY ElementOfSeq, LenProperties, ContextAssumption
<1>2. recent(items) = Reverse(part)
  BY DEF recent
<1> HIDE DEF n
<1>3. from = IF 1 >= n - MaxItems + 1 THEN 1 ELSE n - MaxItems + 1
  BY <1>1, MaxOfTwo
<1> HIDE DEF from
<1>4. from \in Nat \ {0} /\ n - from + 1 <= MaxItems
  BY <1>1, <1>3
<1>5. /\ part \in Seq(Nat) /\ Len(part) = IF from <= n THEN n - from + 1 ELSE 0
  <2>1. \A i \in from..n : items[i] \in Nat
    BY <1>1, <1>4
  <2> QED
    BY <1>1, <1>4, <2>1, SubSeqProperties
<1> HIDE DEF part
<1>6. Len(part) \in 0..MaxItems
  BY <1>1, <1>4, <1>5
<1>7. Reverse(part) \in Seq(Nat) /\ Len(Reverse(part)) = Len(part)
  <2> DEFINE m == Len(part)
  <2>1. m \in Nat /\ \A i \in 1..m : part[i] \in Nat
    BY <1>5, ElementOfSeq, LenProperties
  <2>2. Reverse(part) = [i \in 1..m |-> part[(m - i) + 1]]
    BY DEF Reverse
  <2> HIDE DEF m
  <2>3. \A i \in 1..m : part[(m - i) + 1] \in Nat
    BY <2>1
  <2>4. Reverse(part) \in [1..m -> Nat]
    BY <2>2, <2>3
  <2>5. Reverse(part) \in Seq(Nat)
    BY <2>1, <2>4, SeqDef
  <2>6. Len(Reverse(part)) = m
    BY <2>1, <2>4, <2>5, LenProperties
  <2> QED
    BY <2>5, <2>6 DEF m
<1> QED
  BY <1>2, <1>6, <1>7

\* The most items of a list that a packet considers.
Share(l) == IF l = "clarifications" THEN MaxItems - 1 ELSE MaxItems

LEMMA CandidatesType ==
  ASSUME NEW e \in EvidenceType, NEW l \in Lists
  PROVE  Candidates(e, l) \in Seq(Nat) /\ Len(Candidates(e, l)) \in 0..Share(l)
<1>1. MaxItems \in Nat \ {0} /\ e[l] \in Seq(Nat)
  BY ContextAssumption DEF EvidenceType, Lists
<1>2. CASE l = "files"
  <2> DEFINE n == Len(e.files)
             to == Min({n, MaxItems})
             part == SubSeq(e.files, 1, to)
  <2>1. e.files \in Seq(Nat)
    BY DEF EvidenceType
  <2>2. n \in Nat /\ \A i \in 1..n : e.files[i] \in Nat
    BY <2>1, ElementOfSeq, LenProperties
  <2>3. Candidates(e, l) = part
    BY <1>2 DEF Candidates
  <2> HIDE DEF n
  <2>4. to = IF n <= MaxItems THEN n ELSE MaxItems
    BY <1>1, <2>2, MinOfTwo
  <2> HIDE DEF to
  <2>5. to \in Nat /\ to <= n /\ to <= MaxItems
    BY <1>1, <2>2, <2>4
  <2>6. part \in Seq(Nat) /\ Len(part) = IF 1 <= to THEN to - 1 + 1 ELSE 0
    <3>1. \A i \in 1..to : e.files[i] \in Nat
      BY <2>2, <2>5
    <3> QED
      BY <2>5, <3>1, SubSeqProperties
  <2> HIDE DEF part
  <2> QED
    BY <1>1, <1>2, <2>3, <2>5, <2>6 DEF Share
<1>3. CASE l = "clarifications"
  <2> DEFINE latest == recent(e[l])
             n == Len(latest)
             part == SubSeq(latest, 2, n)
  <2>1. latest \in Seq(Nat) /\ n \in 0..MaxItems
    BY <1>1, RecentType
  <2>2. Candidates(e, l) = part
    BY <1>3 DEF Candidates
  <2> HIDE DEF latest
  <2>3. n \in Nat /\ \A i \in 2..n : latest[i] \in Nat
    BY <1>1, <2>1, ElementOfSeq, LenProperties
  <2> HIDE DEF n
  <2>4. part \in Seq(Nat) /\ Len(part) = IF 2 <= n THEN n - 2 + 1 ELSE 0
    BY <2>3, SubSeqProperties
  <2> HIDE DEF part
  <2> QED
    BY <1>1, <1>3, <2>1, <2>2, <2>4 DEF Share
<1>4. CASE l \notin {"files", "clarifications"}
  <2>1. Candidates(e, l) = recent(e[l])
    BY <1>4 DEF Candidates
  <2> QED
    BY <1>1, <1>4, <2>1, RecentType DEF Share
<1> QED
  BY <1>2, <1>3, <1>4

\* What a packet keeps of the texts of an agent state with room for them.
LEMMA TextsOfPacket ==
  ASSUME NEW e \in EvidenceType, HasRoom(e), NEW empty \in PacketType, NoLists(empty),
         empty.header = e.header, empty.generation = e.generation,
         \A t \in Texts : empty[t] = NoText,
         NEW a, a = addText(empty, "latest", e.latest),
         NEW b, b = addText(a, "validation", e.validation),
         NEW c, c = addText(b, "issue", e.issue),
         NEW d, d = addText(c, "worker", e.worker)
  PROVE  /\ d \in PacketType /\ NoLists(d) /\ fits(d) /\ d.generation = e.generation
         /\ \A t \in Texts : d[t].length <= TextLimit[t]
         /\ \A t \in {"latest", "validation"} : e[t].length > 0 => d[t].length > 0
<1>1. /\ "latest" \in Texts /\ "validation" \in Texts /\ "issue" \in Texts /\ "worker" \in Texts
      /\ Texts = {"latest", "validation", "issue", "worker"}
      /\ TextLimit["latest"] = MaxExcerpt /\ TextLimit["validation"] = MaxExcerpt
  BY DEF Texts, TextLimit
<1>2. /\ e.latest \in TextType /\ e.validation \in TextType /\ e.issue \in TextType
      /\ e.worker \in TextType /\ e.header \in Nat
      /\ e.latest.escape \in Nat /\ e.validation.escape \in Nat
  BY DEF EvidenceType, TextType
<1>3. MaxExcerpt \in Nat \ {0} /\ MaxContext \in Nat
  BY ContextAssumption
<1>4. Used(empty) = e.header
  <2>1. Serialized(NoText) = 0
    BY DEF Serialized, NoText
  <2>2. empty.latest = NoText /\ empty.validation = NoText /\ empty.issue = NoText /\ empty.worker = NoText
    BY <1>1
  <2> QED
    BY <1>2, <2>1, <2>2 DEF Used, TextLength
<1>5. fits(empty) /\ e.header + e.latest.escape <= MaxContext /\ e.header <= MaxContext
  <2>1. e.header + e.latest.escape <= MaxContext /\ e.header <= MaxContext
    BY <1>2, <1>3 DEF HasRoom
  <2> QED
    BY <1>4, <2>1, FitsIsUsed
<1>6. TextAdded(empty, a, "latest", e.latest)
  BY <1>1, <1>2, <1>5, AddTextFits
<1>7. a \in PacketType /\ NoLists(a) /\ fits(a) /\ a["validation"] = NoText
      /\ a["issue"] = NoText /\ a["worker"] = NoText
  BY <1>1, <1>6 DEF TextAdded
<1>8. TextAdded(a, b, "validation", e.validation)
  BY <1>1, <1>2, <1>7, AddTextFits
<1>9. b \in PacketType /\ NoLists(b) /\ fits(b) /\ b["issue"] = NoText /\ b["worker"] = NoText
      /\ b["latest"] = a["latest"]
  BY <1>1, <1>7, <1>8 DEF TextAdded
<1>10. TextAdded(b, c, "issue", e.issue)
  BY <1>1, <1>2, <1>9, AddTextFits
<1>11. c \in PacketType /\ NoLists(c) /\ fits(c) /\ c["worker"] = NoText
       /\ c["latest"] = a["latest"] /\ c["validation"] = b["validation"]
  BY <1>1, <1>9, <1>10 DEF TextAdded
<1>12. TextAdded(c, d, "worker", e.worker)
  BY <1>1, <1>2, <1>11, AddTextFits
<1>13. /\ d \in PacketType /\ NoLists(d) /\ fits(d)
       /\ d["latest"] = a["latest"] /\ d["validation"] = b["validation"] /\ d["issue"] = c["issue"]
  BY <1>1, <1>11, <1>12 DEF TextAdded
<1>14. d.generation = e.generation
  BY <1>6, <1>8, <1>10, <1>12 DEF TextAdded
<1>15. \A t \in Texts : d[t].length <= TextLimit[t]
  BY <1>1, <1>6, <1>8, <1>10, <1>12, <1>13 DEF TextAdded
<1>16. e.latest.length > 0 => d["latest"].length > 0
  BY <1>1, <1>4, <1>5, <1>6, <1>13 DEF TextAdded, HasRoom
<1>17. e.validation.length > 0 => d["validation"].length > 0
  <2>1. Used(a) = Used(empty) - Serialized(empty["latest"]) + Serialized(a["latest"]) /\ Used(a) \in Nat
    BY <1>1, <1>6, <1>7, UsedChange DEF TextAdded
  <2>2. Serialized(empty["latest"]) = 0 /\ Serialized(a["latest"]) <= 2 * MaxExcerpt
    BY <1>1, <1>6 DEF TextAdded, Serialized, NoText
  <2>3. Serialized(a["latest"]) \in Nat
    <3>1. a["latest"] \in TextType
      BY <1>7 DEF PacketType
    <3> QED
      BY <3>1, SerializedType
  <2>4. Used(a) + e.validation.escape <= MaxContext
    BY <1>2, <1>3, <1>4, <2>1, <2>2, <2>3 DEF HasRoom
  <2> QED
    BY <1>1, <1>8, <1>13, <2>4 DEF TextAdded, HasRoom
<1> QED
  BY <1>13, <1>14, <1>15, <1>16, <1>17

\* A packet is one that its runner accepts, and holds the answer and the failure
\* the call is for.
LEMMA PacketIsAccepted ==
  ASSUME NEW e \in EvidenceType, HasRoom(e)
  PROVE  /\ fits(buildWorkerContext(e))
         /\ buildWorkerContext(e).generation <= MaxIteration =>
              assertWorkerContext(buildWorkerContext(e))
         /\ \A t \in {"latest", "validation"} :
              e[t].length > 0 => buildWorkerContext(e)[t].length > 0
<1> DEFINE empty == [generation |-> e.generation, header |-> e.header,
                     latest |-> NoText, validation |-> NoText, issue |-> NoText, worker |-> NoText,
                     files |-> <<>>, findings |-> <<>>, clarifications |-> <<>>, failures |-> <<>>,
                     truncated |-> \E l \in {"clarifications", "findings", "failures"} :
                                     Len(e[l]) > MaxItems]
           a == addText(empty, "latest", e.latest)
           b == addText(a, "validation", e.validation)
           c == addText(b, "issue", e.issue)
           d == addText(c, "worker", e.worker)
           listed == addItems(d, "files", Candidates(e, "files"))
           found == addItems(listed, "findings", Candidates(e, "findings"))
           clarified == addItems(found, "clarifications", Candidates(e, "clarifications"))
           packet == addItems(clarified, "failures", Candidates(e, "failures"))
<1>1. buildWorkerContext(e) = packet
  BY DEF buildWorkerContext
<1>2. /\ empty \in PacketType /\ NoLists(empty) /\ empty.header = e.header
      /\ empty.generation = e.generation /\ \A t \in Texts : empty[t] = NoText
  <2> DEFINE cut == \E l \in {"clarifications", "findings", "failures"} : Len(e[l]) > MaxItems
  <2>1. cut \in BOOLEAN /\ e.generation \in Nat /\ e.header \in Nat
    BY DEF EvidenceType
  <2>2. NoText \in TextType /\ <<>> \in Seq(Nat)
    BY DEF NoText, TextType
  <2> HIDE DEF cut
  <2> QED
    BY <2>1, <2>2 DEF PacketType, NoLists, Texts
<1> HIDE DEF empty, a, b, c, d, listed, found, clarified, packet
<1>3. /\ d \in PacketType /\ NoLists(d) /\ fits(d) /\ d.generation = e.generation
      /\ \A t \in Texts : d[t].length <= TextLimit[t]
      /\ \A t \in {"latest", "validation"} : e[t].length > 0 => d[t].length > 0
  <2>1. /\ a = addText(empty, "latest", e.latest) /\ b = addText(a, "validation", e.validation)
        /\ c = addText(b, "issue", e.issue) /\ d = addText(c, "worker", e.worker)
    BY DEF a, b, c, d
  <2> QED
    BY <1>2, <2>1, TextsOfPacket
<1>4. \A l \in Lists : Candidates(e, l) \in Seq(Nat) /\ Len(Candidates(e, l)) \in 0..Share(l)
  BY CandidatesType
<1>5. "files" \in Lists /\ "findings" \in Lists /\ "clarifications" \in Lists /\ "failures" \in Lists
      /\ Lists = {"files", "findings", "clarifications", "failures"}
  BY DEF Lists
<1>6. ItemsAdded(d, listed, "files", Len(Candidates(e, "files")))
  BY <1>3, <1>4, <1>5, AddItemsFits DEF listed
<1>7. ItemsAdded(listed, found, "findings", Len(Candidates(e, "findings")))
  <2>1. listed \in PacketType /\ fits(listed)
    BY <1>6 DEF ItemsAdded
  <2> QED
    BY <2>1, <1>4, <1>5, AddItemsFits DEF found
<1>8. ItemsAdded(found, clarified, "clarifications", Len(Candidates(e, "clarifications")))
  <2>1. found \in PacketType /\ fits(found)
    BY <1>7 DEF ItemsAdded
  <2> QED
    BY <2>1, <1>4, <1>5, AddItemsFits DEF clarified
<1>9. ItemsAdded(clarified, packet, "failures", Len(Candidates(e, "failures")))
  <2>1. clarified \in PacketType /\ fits(clarified)
    BY <1>8 DEF ItemsAdded
  <2> QED
    BY <2>1, <1>4, <1>5, AddItemsFits DEF packet
<1>10. /\ packet \in PacketType /\ fits(packet) /\ packet.generation = e.generation
       /\ \A t \in Texts : packet[t] = d[t]
  BY <1>3, <1>6, <1>7, <1>8, <1>9 DEF ItemsAdded
<1>11. \A l \in Lists : Len(packet[l]) <= Share(l)
  <2>1. MaxItems \in Nat \ {0} /\ \A l \in Lists : Share(l) \in Nat
    BY ContextAssumption DEF Share
  <2>2. \A l \in Lists : Len(d[l]) = 0
    BY <1>3, <1>5 DEF NoLists
  <2>3. \A l \in Lists : Len(packet[l]) \in Nat
    BY <1>10, ListType
  <2>4. /\ packet["files"] = listed["files"] /\ packet["findings"] = found["findings"]
        /\ packet["clarifications"] = clarified["clarifications"]
        /\ listed["findings"] = d["findings"] /\ found["clarifications"] = d["clarifications"]
        /\ clarified["failures"] = d["failures"]
    BY <1>5, <1>6, <1>7, <1>8, <1>9 DEF ItemsAdded
  <2>5. ASSUME NEW l \in Lists PROVE Len(packet[l]) <= Len(Candidates(e, l))
    <3>1. /\ Len(listed["files"]) <= 0 + Len(Candidates(e, "files"))
          /\ Len(found["findings"]) <= 0 + Len(Candidates(e, "findings"))
          /\ Len(clarified["clarifications"]) <= 0 + Len(Candidates(e, "clarifications"))
          /\ Len(packet["failures"]) <= 0 + Len(Candidates(e, "failures"))
      BY <1>5, <1>6, <1>7, <1>8, <1>9, <2>2, <2>4 DEF ItemsAdded
    <3>2. Len(Candidates(e, l)) \in Nat
      BY <1>4, <2>1
    <3>3. l = "files" \/ l = "findings" \/ l = "clarifications" \/ l = "failures"
      BY <1>5
    <3>4. Len(packet[l]) <= 0 + Len(Candidates(e, l))
      BY <3>1, <3>3, <2>4
    <3> QED
      BY <3>2, <3>4
  <2> QED
    BY <1>4, <2>1, <2>3, <2>5
<1>12. packet.generation <= MaxIteration => assertWorkerContext(packet)
  <2>1. MaxItems \in Nat \ {0}
    BY ContextAssumption
  <2>2. \A l \in Lists : Len(packet[l]) \in Nat
    BY <1>10, ListType
  <2>3. ASSUME NEW l \in Lists
        PROVE  Len(packet[l]) + (IF l = "clarifications" THEN 1 ELSE 0) <= MaxItems
    <3> DEFINE x == Len(packet[l])
    <3>1. x \in Nat /\ x <= Share(l)
      BY <2>2, <1>11
    <3> HIDE DEF x
    <3>2. CASE l = "clarifications"
      <4>1. x + 1 <= MaxItems
        BY <3>1, <3>2, <2>1 DEF Share
      <4> QED
        BY <4>1, <3>2 DEF x
    <3>3. CASE l # "clarifications"
      <4>1. x + 0 <= MaxItems
        BY <3>1, <3>3, <2>1 DEF Share
      <4> QED
        BY <4>1, <3>3 DEF x
    <3> QED
      BY <3>2, <3>3
  <2> QED
    BY <2>3, <1>3, <1>10 DEF assertWorkerContext
<1>13. \A t \in {"latest", "validation"} : e[t].length > 0 => packet[t].length > 0
  BY <1>3, <1>10 DEF Texts
<1> QED
  BY <1>1, <1>10, <1>12, <1>13

\* buildWorkerContext does not throw: with room for the two texts, nothing it adds
\* later takes the packet beyond its size (the check at context.ts 209).
THEOREM PacketFitsHolds == \A e \in Evidence : fits(buildWorkerContext(e))
BY EvidenceAssumption, PacketIsAccepted

\* The packet in a proposal is the one built from the state it was made in.
PacketOfProposal ==
  context # Nothing => evidence \in Evidence /\ context = buildWorkerContext(evidence)

\* The packet of an approved worker call is one its runner accepts
\* (assertWorkerContext), and holds some of the latest answer and of the
\* validation failure the call is for, whatever else buildWorkerContext had to
\* leave out (agents/context.ts): the issue and the lists take only what these
\* two texts leave, and neither of them can crowd out the other.
THEOREM PacketServesTheCallHolds == ToolSpec => []PacketServesTheCall
<1>1. ToolInit => PacketOfProposal
  BY DEF ToolInit, PacketOfProposal
<1>2. PacketOfProposal /\ [ToolNext]_toolVars => PacketOfProposal'
  <2> SUFFICES ASSUME PacketOfProposal, [ToolNext]_toolVars PROVE PacketOfProposal'
    OBVIOUS
  <2>1. context' = Nothing \/ UNCHANGED <<evidence, context>>
    BY DEF ToolNext, toolVars, callVars, Executor, Refused, ReadReturns, StartProcess, DirectCall,
           Return, ProcessActs, ErrorReported, Closed, Signalling, Write, Data, Deliver
  <2> QED
    BY <2>1 DEF PacketOfProposal
<1>3. PacketOfProposal => PacketServesTheCall
  <2> SUFFICES ASSUME PacketOfProposal, context # Nothing PROVE PacketServesTheCall
    BY DEF PacketServesTheCall
  <2>1. evidence \in EvidenceType /\ HasRoom(evidence) /\ context = buildWorkerContext(evidence)
    BY EvidenceAssumption DEF PacketOfProposal
  <2> QED
    BY <2>1, PacketIsAccepted DEF PacketServesTheCall
<1> QED
  BY <1>1, <1>2, <1>3, PTL DEF ToolSpec

=============================================================================

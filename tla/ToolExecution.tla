---------------------------- MODULE ToolExecution ----------------------------
(***************************************************************************)
(* One approved call from its proposal to its result: safelyExecute of     *)
(* src/src/orchestration/loop.ts around executeCandidate (execute.ts), the *)
(* adapters of the coding workers (src/src/agents/codex.ts, claude.ts), the*)
(* evidence packet in their prompt, the process they run and the reading   *)
(* of its output.  The steps of the process and of runProcess are those of *)
(* ProcessRunner; here they also carry an exit code and output.            *)
(***************************************************************************)
EXTENDS ProcessRunner, WorkerContext, WorkerOutput

CONSTANTS
  Evidence,    \* agent states a worker call may be proposed in
  Outputs      \* bound: what a worker writes, unless it ends before

ASSUME EvidenceAssumption == \A e \in Evidence : e \in EvidenceType /\ HasRoom(e)

VARIABLES
  call,      \* the action, or "direct": runProcess without an executor
  evidence,  \* the agent state the call was proposed in
  context,   \* the packet in the approved proposal; both go into the prompt
  exit,      \* exit code of the child: "zero", "one", "other", or "signal" (null)
  stream,    \* what was written to the output pipe
  read,      \* how much of it 'data' events have delivered
  output,    \* state of createWorkerOutput
  result     \* what safelyExecute returns

callVars == <<call, evidence, context>>
streamVars == <<stream, read, output>>
toolVars == <<vars, callVars, exit, streamVars, result>>

Workers == {"CALL_CODEX", "CALL_CLAUDE"}
ProcessTools == {"SEARCH_REPO", "RUN_TESTS", "RUN_COMMAND"}
Reads == {"READ_FILE", "READ_ISSUE"}
Nothing == [none |-> TRUE]

\* The candidate was created with the evidence of that moment, and approved.
ToolInit ==
  /\ Init
  /\ \/ /\ call \in ProcessTools \cup Reads \cup {"direct"}
        /\ evidence = Nothing /\ context = Nothing
     \/ /\ call \in Workers
        /\ evidence \in Evidence /\ context = buildWorkerContext(evidence)
  /\ exit = "running"
  /\ stream = <<>> /\ read = 0 /\ output = NewOutput
  /\ result = Nothing

-----------------------------------------------------------------------------
(* The result.                                                             *)

\* rg exits with 1 when nothing matches.
Succeeded ==
  ~cancelled /\ ~timedOut /\ (exit = "zero" \/ (call = "SEARCH_REPO" /\ exit = "one"))

Report(ok, text, usage) ==
  result' = [ok |-> ok /\ ~aborted, cancelled |-> cancelled \/ aborted,
             timedOut |-> timedOut, text |-> text, usage |-> usage]

\* What safelyExecute makes of an exception.
Threw == Report(FALSE, "error", FALSE)

\* safelyExecute re-checks the signal when the call has returned.
Return ==
  /\ call \in Workers \cup ProcessTools /\ outcome # "pending" /\ result = Nothing
  /\ IF outcome = "rejected" THEN Threw
     ELSE LET finished == FinishOutput(call, output, stream)
          IN  IF call \in Workers THEN Report(Succeeded, finished.text, finished.usage)
              ELSE Report(Succeeded, "raw", FALSE)
  /\ UNCHANGED <<vars, callVars, exit, streamVars>>

-----------------------------------------------------------------------------
(* The call.                                                               *)

\* executeCandidate and the adapter get as far as the process.
Ready == call \in Workers => assertWorkerContext(context)

\* throwIfInterrupted, or a prompt that assertWorkerContext refuses.
Refused ==
  /\ phase = "called" /\ call # "direct" /\ result = Nothing
  /\ aborted \/ ~Ready
  /\ Threw
  /\ UNCHANGED <<vars, callVars, exit, streamVars>>

\* READ_FILE and READ_ISSUE run no process: they return or throw.
ReadReturns ==
  /\ phase = "called" /\ call \in Reads /\ result = Nothing /\ ~aborted
  /\ Report(TRUE, "raw", FALSE) \/ Threw
  /\ UNCHANGED <<vars, callVars, exit, streamVars>>

\* No await lies between the checks and spawn.
StartProcess ==
  /\ phase = "called" /\ call \notin Reads /\ result = Nothing /\ Ready
  /\ Spawn \/ SpawnFails
  /\ evidence' = Nothing /\ context' = Nothing
  /\ UNCHANGED <<call, exit, streamVars, result>>

DirectCall ==
  /\ call = "direct" /\ CancelledBeforeSpawn
  /\ UNCHANGED <<callVars, exit, streamVars, result>>

-----------------------------------------------------------------------------
(* The process.                                                            *)

\* How the child ended, if this step ended it.
Ends(codes) ==
  IF "child" \in alive /\ "child" \notin alive' THEN exit' \in codes ELSE UNCHANGED exit

Signalling(handler) ==
  /\ handler
  /\ Ends({"signal"})
  /\ UNCHANGED <<callVars, streamVars, result>>

ProcessActs ==
  /\ ProcessStep
  /\ Ends({"zero", "one", "other"})
  /\ UNCHANGED <<callVars, streamVars, result>>

ErrorReported ==
  /\ ErrorEvent
  /\ UNCHANGED <<callVars, exit, streamVars, result>>

\* Only the output of a worker is interpreted.
Write(symbol) ==
  /\ call \in Workers /\ "child" \in holding
  /\ stream' = Append(stream, symbol)
  /\ \E o \in Outputs : IsPrefix(stream', o)
  /\ UNCHANGED <<vars, callVars, exit, read, output, result>>

\* A 'data' event: any part of what is in the pipe.
Deliver(n) ==
  /\ outcome = "pending"
  /\ read' = n
  /\ output' = Consume(call, output, SubSeq(stream, read + 1, n))
  /\ UNCHANGED <<vars, callVars, exit, stream, result>>

Data == \E n \in (read + 1)..Len(stream) : Deliver(n)

\* 'close' follows the last 'data' event.
Closed ==
  /\ read = Len(stream) /\ CloseEvent
  /\ UNCHANGED <<callVars, exit, streamVars, result>>

Executor == Refused \/ ReadReturns \/ StartProcess \/ DirectCall \/ Return

ToolNext ==
  \/ Executor \/ ProcessActs \/ ErrorReported \/ Closed
  \/ Signalling(Abort) \/ Signalling(TimeoutFires) \/ Signalling(GraceEnds)
  \/ \E symbol \in Symbols : Write(symbol)
  \/ Data

ToolSpec == ToolInit /\ [][ToolNext]_toolVars

\* The executor runs on, timers fire and events are delivered.  Nothing is
\* assumed of the processes.
FairToolSpec ==
  /\ ToolSpec
  /\ WF_toolVars(Executor) /\ WF_toolVars(ErrorReported)
  /\ WF_toolVars(Signalling(TimeoutFires)) /\ WF_toolVars(Signalling(GraceEnds))
  /\ WF_toolVars(Closed) /\ WF_toolVars(Data)

-----------------------------------------------------------------------------
\* The report of a call agrees with what was done to its processes.  If one of
\* them was ever sent a signal, before the report or after it, the call is no
\* success and says that it was stopped, even if the child had exited with 0
\* before and only a descendant was reached, or answers TERM by exiting with 0.
\* It is called cancelled only if the run was interrupted.  And when it is
\* called a success the child is gone and no descendant can write to it any
\* more (process.ts, timedOut and cancelled against kill; execute.ts 268).
StopIsReported ==
  result # Nothing =>
    /\ signalled => ~result.ok /\ (result.timedOut \/ result.cancelled)
    /\ result.cancelled => aborted
    /\ result.ok => "child" \notin alive /\ holding = {}

\* What a worker call reports does not depend on the chunks its output arrives
\* in, on events cut in two, on lines above the limit or on a last line without
\* a newline: message and usage are those of the whole output (output.ts: "one
\* report", bounded frames).
OutputMatchesStream ==
  call \in Workers /\ outcome = "resolved" /\ result # Nothing /\ result.text # "error" =>
    [text |-> result.text, usage |-> result.usage] = WholeOutput(call, stream)

\* A worker call that was approved and charged is not wasted on its packet: the
\* packet that was built is one the runner accepts, unless the validation
\* generation has outgrown the contract, and however long and however escaped
\* the latest answer and the validation failure are, it holds some of both
\* (context.ts, buildWorkerContext against assertWorkerContext; its comment
\* "leaving room for both the latest answer and validation failure").
PacketServesTheCall ==
  context # Nothing =>
    /\ context.generation <= MaxIteration => assertWorkerContext(context)
    /\ \A t \in {"latest", "validation"} : evidence[t].length > 0 => context[t].length > 0

\* Every call returns on POSIX, whatever its processes do, as long as none of
\* them leaves the process group.
Returns ==
  posix => <>(\/ IF call = "direct" THEN outcome # "pending" ELSE result # Nothing
              \/ ~(alive \subseteq group))

=============================================================================

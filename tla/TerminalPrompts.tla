--------------------------- MODULE TerminalPrompts ---------------------------
(***************************************************************************)
(* The questions of a run: createTerminal (src/src/cli/terminal.ts), which *)
(* owns standard input, and the prompts of src/src/cli.ts that ask through *)
(* it until an answer is one they understand.                              *)
(*                                                                         *)
(* A question waits for the reader.  Timer, signal, end of input and keys  *)
(* are events that may come at any time, also after the reader has taken a *)
(* line and before question() goes on with it: a last line without newline *)
(* is followed by the close of the reader in one step of Node.  The reader *)
(* itself (readline, or the Clack prompt in styled terminals) is external. *)
(***************************************************************************)
EXTENDS Naturals, Sequences

CONSTANT MaxQuestions   \* bound: questions of one run

ASSUME QuestionsAssumption == MaxQuestions \in Nat \ {0}

VARIABLES
  styled,      \* the Clack prompt is used, not readline
  windowsKeys, \* plain console that delivers EOF keys as a line
  signal,      \* execution.signal.aborted
  inputClosed,
  disposed,    \* dispose() has removed the listeners
  prompt,      \* the prompt that asks, or "none"
  asked,       \* questions opened so far
  pc,          \* "idle", "waiting" or "taken" (the reader has returned)
  taken,       \* the line it returned
  aborted,     \* controller.signal.aborted of this question
  reason,
  timer,       \* the timeout is armed
  listening,   \* interrupt is registered with execution.signal
  pendingClose,\* pendingClose is this question's
  outcome,     \* what the last prompt returned or threw
  \* history, read by properties only
  stops        \* what happened to this question that should end it, in order

reader == <<styled, windowsKeys>>
armed == <<timer, listening, pendingClose>>
private == <<aborted, reason>>
vars == <<reader, signal, inputClosed, disposed, prompt, asked, pc, taken, private,
          armed, outcome, stops>>

Prompts == {"approval", "recovery", "information"}

\* Lines: a decision of each kind, an EOF key, and text that is none of them.
\* Escape is the answer that Clack calls a cancellation.
Answers == {"approve", "reject", "stop", "continue", "alternative", "other", "eof", "escape"}

\* parseApprovalChoice and its counterparts: the answers a prompt returns.
Decisions(kind) ==
  CASE kind = "approval" -> {"approve", "reject", "stop", "alternative"}
    [] kind = "recovery" -> {"continue", "stop"}
    [] OTHER -> Answers \ {"escape"}

NoOutcome == [prompt |-> "none", result |-> "none"]

Init ==
  /\ styled \in BOOLEAN /\ windowsKeys \in BOOLEAN /\ (styled => ~windowsKeys)
  /\ signal = FALSE /\ inputClosed \in BOOLEAN /\ disposed = FALSE
  /\ prompt = "none" /\ asked = 0 /\ pc = "idle" /\ taken = "none"
  /\ aborted = FALSE /\ reason = "input_cancelled"
  /\ timer = FALSE /\ listening = FALSE /\ pendingClose = FALSE
  /\ outcome = NoOutcome /\ stops = <<>>

-----------------------------------------------------------------------------
(* question().                                                             *)

\* The timer is armed once for all questions.
Open_Bug ==
  /\ pc' = "waiting" /\ asked' = asked + 1 /\ taken' = "none"
  /\ aborted' = FALSE /\ reason' = "input_cancelled" /\ stops' = <<>>
  /\ timer' = (asked = 0) /\ listening' = TRUE /\ pendingClose' = TRUE

\* The private controller, its timer and its handlers.
Open ==
  /\ pc' = "waiting" /\ asked' = asked + 1 /\ taken' = "none"
  /\ aborted' = FALSE /\ reason' = "input_cancelled" /\ stops' = <<>>
  /\ timer' = TRUE /\ listening' = TRUE /\ pendingClose' = TRUE

\* The finally block, and the prompt returns or throws.
Settle(kind, result) ==
  /\ pc' = "idle" /\ prompt' = "none" /\ outcome' = [prompt |-> kind, result |-> result]
  /\ timer' = FALSE /\ listening' = FALSE /\ pendingClose' = FALSE

\* The loop asks: an interrupted run or a closed input opens no question.
Ask(kind) ==
  /\ pc = "idle" /\ ~disposed /\ asked < MaxQuestions
  /\ IF signal \/ inputClosed
     THEN /\ Settle(kind, IF signal THEN "interrupted" ELSE "input_closed")
          /\ UNCHANGED <<asked, taken, private, stops>>
     ELSE Open /\ prompt' = kind /\ UNCHANGED outcome
  /\ UNCHANGED <<reader, signal, inputClosed, disposed>>

\* The last stop wins.
Stop_Bug(value, event) ==
  /\ aborted' = TRUE /\ reason' = value
  /\ stops' = Append(stops, event)

\* stop(value): the first one decides.
Stop(value, event) ==
  /\ IF aborted THEN UNCHANGED private ELSE aborted' = TRUE /\ reason' = value
  /\ stops' = Append(stops, event)

\* closed(): later questions are refused, this one is stopped.
Closed ==
  /\ inputClosed' = TRUE
  /\ IF pendingClose THEN Stop("input_closed", "input_closed") ELSE UNCHANGED <<private, stops>>

\* The line that was read counts.
Resume_Bug ==
  IF taken # "none" /\ ~signal THEN taken
  ELSE IF signal THEN "interrupted" ELSE reason

\* What question() returns or throws once the reader is done.
Resume ==
  IF signal THEN "interrupted"
  ELSE IF aborted THEN reason
  ELSE IF taken = "escape" THEN "input_cancelled"
  ELSE IF taken = "eof" /\ windowsKeys THEN "input_closed"
  ELSE taken

\* question() goes on, and the prompt asks again unless it has a decision.
Continue ==
  /\ pc = "taken" \/ (pc = "waiting" /\ aborted)
  /\ LET result == Resume
         again == result \in Answers /\ result \notin Decisions(prompt)
     IN  /\ IF again THEN asked < MaxQuestions /\ Open /\ UNCHANGED <<prompt, outcome>>
            ELSE Settle(prompt, result) /\ UNCHANGED <<asked, taken, private, stops>>
         /\ inputClosed' = (inputClosed \/ (result = "input_closed" /\ ~aborted))
  /\ UNCHANGED <<reader, signal, disposed>>

-----------------------------------------------------------------------------
(* The reader and its events.                                              *)

Type(answer) ==
  /\ pc = "waiting" /\ ~aborted
  /\ answer = "escape" => styled
  /\ answer = "eof" => windowsKeys
  /\ pc' = "taken" /\ taken' = answer
  /\ UNCHANGED <<reader, signal, inputClosed, disposed, prompt, asked, private, armed,
                 outcome, stops>>

Timeout ==
  /\ timer /\ pc # "idle"
  /\ timer' = FALSE /\ Stop("input_timeout", "input_timeout")
  /\ UNCHANGED <<reader, signal, inputClosed, disposed, prompt, asked, pc, taken,
                 listening, pendingClose, outcome>>

\* End, close or error of standard input, close of the reader, or ctrl-d.
InputEnds ==
  /\ ~inputClosed /\ ~disposed
  /\ Closed
  /\ UNCHANGED <<reader, signal, disposed, prompt, asked, pc, taken, armed, outcome>>

\* SIGINT, SIGTERM or ctrl-c, by the key or by the reader: the run's signal,
\* whose listener aborts the question without a reason.
Interrupt ==
  /\ ~signal
  /\ signal' = TRUE
  /\ IF listening THEN aborted' = TRUE /\ stops' = Append(stops, "interrupted")
     ELSE UNCHANGED <<aborted, stops>>
  /\ UNCHANGED <<reader, inputClosed, disposed, prompt, asked, pc, taken, reason, armed, outcome>>

\* dispose(): at the end of the run, and whenever a run that failed left its
\* question behind.
Dispose ==
  /\ ~disposed
  /\ disposed' = TRUE
  /\ IF pendingClose THEN Stop("input_closed", "input_closed") ELSE UNCHANGED <<private, stops>>
  /\ UNCHANGED <<reader, signal, inputClosed, prompt, asked, pc, taken, armed, outcome>>

Next ==
  \/ \E kind \in Prompts : Ask(kind)
  \/ \E answer \in Answers : Type(answer)
  \/ Continue \/ Timeout \/ InputEnds \/ Interrupt \/ Dispose

Spec == Init /\ [][Next]_vars

\* The timer fires and question() goes on; nobody has to answer.
FairSpec == Spec /\ WF_vars(Timeout) /\ WF_vars(Continue)

-----------------------------------------------------------------------------
TypeOK ==
  /\ {styled, windowsKeys, signal, inputClosed, disposed, aborted, timer, listening,
      pendingClose} \subseteq BOOLEAN
  /\ prompt \in Prompts \cup {"none"} /\ pc \in {"idle", "waiting", "taken"}
  /\ asked \in 0..MaxQuestions
  /\ taken \in Answers \cup {"none"}
  /\ reason \in {"input_cancelled", "input_closed", "input_timeout"}

Reasons == {"input_cancelled", "input_closed", "input_timeout", "interrupted"}
Returns(kind) == prompt = kind /\ pc # "idle" /\ pc' = "idle" /\ prompt' = "none"

\* A missing response is never a decision (cancellation.ts, PromptStoppedError;
\* cli.ts: "This input approved no action"): what a prompt returns to the loop
\* is the line read last, understood by that prompt, of a question that nothing
\* had stopped, not even between the line and the return.
DecisionsAreAnswers ==
  [][\A kind \in Prompts : Returns(kind) /\ outcome'.result \notin Reasons =>
       /\ pc = "taken" /\ outcome'.result = taken
       /\ taken \in Decisions(kind) \ {"escape"}
       /\ stops = <<>> /\ ~signal]_vars

\* A stopped question says why: the signal of the run before everything else,
\* and otherwise what ended it first, however many events followed.  Escape and
\* the EOF line end a question that nothing else did.
FirstReasonReported ==
  [][\A kind \in Prompts : Returns(kind) /\ outcome'.result \in Reasons =>
       /\ signal = (outcome'.result = "interrupted")
       /\ ~signal => IF stops # <<>> THEN outcome'.result = stops[1]
                     ELSE taken \in {"escape", "eof"}]_vars

\* Every question ends although nobody answers it: the timer is not cleared
\* before the question is settled.
QuestionsEnd == \A n \in 1..MaxQuestions : (asked = n /\ pc = "waiting") ~> ~(asked = n /\ pc = "waiting")

=============================================================================

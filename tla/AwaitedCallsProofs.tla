------------------------- MODULE AwaitedCallsProofs -------------------------
(***************************************************************************)
(* The two calls the loop awaits that a timer and a signal may end: a      *)
(* question to the operator and an evaluation.  In both, what stops the    *)
(* call and what answers it may come in any order, and may come late.      *)
(*                                                                         *)
(* A question knows whether something stopped it, however the events and   *)
(* the line interleave (Flagged), and its reason is the first of them      *)
(* unless the run was interrupted (Explained).                             *)
(*                                                                         *)
(* An evaluation stopped by the signal or its deadline has settled before  *)
(* anything else happens (Stopped), a response that outlives it will be    *)
(* cancelled and not read (Unread), and its one deadline bounds every      *)
(* request and every delay (Timed).                                        *)
(***************************************************************************)
EXTENDS TerminalPrompts, Evaluator, TLAPS

-----------------------------------------------------------------------------
(* A question.                                                             *)

Events == {"input_closed", "input_timeout", "interrupted"}

Typed ==
  /\ signal \in BOOLEAN /\ aborted \in BOOLEAN
  /\ pc \in {"idle", "waiting", "taken"}
  /\ taken \in Answers \cup {"none"}
  /\ reason \in Reasons \ {"interrupted"}
  /\ stops \in Seq(Events)

Flagged == /\ aborted <=> stops # <<>>
           /\ pc = "taken" => taken \in Answers

Explained == aborted /\ ~signal => reason = stops[1]

PromptInv == Typed /\ Flagged /\ Explained

LEMMA PromptInvInit == Init => PromptInv
<1> SUFFICES ASSUME Init PROVE PromptInv
  OBVIOUS
<1>1. Typed
  <2>1. <<>> \in Seq(Events)
    OBVIOUS
  <2>2. reason \in Reasons \ {"interrupted"}
    BY DEF Init, Reasons
  <2> QED
    BY <2>1, <2>2 DEF Init, Typed
<1>2. Flagged /\ Explained
  BY DEF Init, Flagged, Explained
<1> QED
  BY <1>1, <1>2 DEF PromptInv

\* A stop is remembered, and the first one keeps its reason.
LEMMA StopKeeps ==
  ASSUME PromptInv, NEW value \in Events \ {"interrupted"}, Stop(value, value),
         UNCHANGED <<signal, pc, taken>>
  PROVE  PromptInv'
<1>1. stops' = Append(stops, value) /\ stops' \in Seq(Events) /\ stops' # <<>> /\ aborted'
  BY DEF Stop, private, PromptInv, Typed
<1>2. Typed'
  BY <1>1 DEF Stop, private, PromptInv, Typed, Events, Reasons
<1>3. CASE aborted
  <2>1. stops # <<>> /\ stops'[1] = stops[1]
    BY <1>1, <1>3 DEF PromptInv, Typed, Flagged
  <2> QED
    BY <1>1, <1>2, <1>3, <2>1 DEF Stop, private, PromptInv, Flagged, Explained
<1>4. CASE ~aborted
  <2>1. stops = <<>> /\ stops'[1] = value /\ reason' = value
    BY <1>1, <1>4 DEF Stop, PromptInv, Typed, Flagged
  <2> QED
    BY <1>1, <1>2, <2>1 DEF PromptInv, Flagged, Explained
<1> QED
  BY <1>3, <1>4 DEF PromptInv, Typed

\* A question starts with nothing that stopped it.
LEMMA OpenKeeps == ASSUME PromptInv, Open, UNCHANGED signal PROVE PromptInv'
<1>1. Typed'
  <2>1. <<>> \in Seq(Events) /\ "input_cancelled" \in Reasons \ {"interrupted"}
    BY DEF Reasons
  <2> QED
    BY <2>1 DEF Open, PromptInv, Typed
<1>2. Flagged' /\ Explained'
  BY DEF Open, Flagged, Explained
<1> QED
  BY <1>1, <1>2 DEF PromptInv

LEMMA SettleKeeps ==
  ASSUME PromptInv, NEW kind, NEW value, Settle(kind, value),
         UNCHANGED <<signal, taken, private, stops>>
  PROVE  PromptInv'
BY DEF Settle, private, PromptInv, Typed, Flagged, Explained

\* Every step keeps the invariant.
LEMMA PromptInvStep == PromptInv /\ [Next]_vars => PromptInv'
<1> SUFFICES ASSUME PromptInv, [Next]_vars PROVE PromptInv'
  OBVIOUS
<1>0. CASE UNCHANGED <<signal, pc, taken, private, stops>>
  BY <1>0 DEF private, PromptInv, Typed, Flagged, Explained
<1>1. CASE \E kind \in Prompts : Ask(kind)
  <2>1. PICK kind \in Prompts : Ask(kind)
    BY <1>1
  <2>2. CASE signal \/ inputClosed
    BY <2>1, <2>2, SettleKeeps DEF Ask
  <2>3. CASE ~(signal \/ inputClosed)
    BY <2>1, <2>3, OpenKeeps DEF Ask
  <2> QED
    BY <2>2, <2>3
<1>2. CASE \E answer \in Answers : Type(answer)
  BY <1>2 DEF Type, private, PromptInv, Typed, Flagged, Explained
<1>3. CASE Continue
  <2>1. UNCHANGED signal
    BY <1>3 DEF Continue
  <2>2. Open \/ (Settle(prompt, Resume) /\ UNCHANGED <<asked, taken, private, stops>>)
    BY <1>3 DEF Continue
  <2> QED
    BY <2>1, <2>2, OpenKeeps, SettleKeeps
<1>4. CASE Timeout
  BY <1>4, StopKeeps DEF Timeout, Events
<1>5. CASE InputEnds
  <2>1. UNCHANGED <<signal, pc, taken>>
    BY <1>5 DEF InputEnds
  <2>2. Stop("input_closed", "input_closed") \/ UNCHANGED <<private, stops>>
    BY <1>5 DEF InputEnds, Closed
  <2> QED
    BY <1>0, <2>1, <2>2, StopKeeps DEF Events
<1>6. CASE Dispose
  <2>1. UNCHANGED <<signal, pc, taken>>
    BY <1>6 DEF Dispose
  <2>2. Stop("input_closed", "input_closed") \/ UNCHANGED <<private, stops>>
    BY <1>6 DEF Dispose
  <2> QED
    BY <1>0, <2>1, <2>2, StopKeeps DEF Events
<1>7. CASE Interrupt
  <2>1. signal' = TRUE /\ UNCHANGED <<pc, taken, reason>>
    BY <1>7 DEF Interrupt
  <2>2. CASE UNCHANGED <<aborted, stops>>
    BY <2>1, <2>2 DEF PromptInv, Typed, Flagged, Explained
  <2>3. CASE aborted' = TRUE /\ stops' = Append(stops, "interrupted")
    <3>1. stops' \in Seq(Events) /\ stops' # <<>>
      BY <2>3 DEF PromptInv, Typed, Events
    <3> QED
      BY <2>1, <2>3, <3>1 DEF PromptInv, Typed, Flagged, Explained
  <2> QED
    BY <1>7, <2>2, <2>3 DEF Interrupt
<1>8. CASE UNCHANGED vars
  BY <1>0, <1>8 DEF vars
<1> QED
  BY <1>1, <1>2, <1>3, <1>4, <1>5, <1>6, <1>7, <1>8 DEF Next

\* Only question() going on returns to the loop.
LEMMA ReturnIsContinue ==
  ASSUME [Next]_vars, NEW kind \in Prompts, Returns(kind)
  PROVE  Continue /\ Settle(kind, Resume) /\ ~(Resume \in Answers /\ Resume \notin Decisions(kind))
<1>1. pc # "idle" /\ pc' = "idle" /\ prompt = kind
  BY DEF Returns
<1>2. ~UNCHANGED pc
  BY <1>1
<1>3. Continue
  BY <1>1, <1>2 DEF Next, vars, Ask, Type, Timeout, InputEnds, Interrupt, Dispose
<1>4. ~Open
  BY <1>1 DEF Open
<1> QED
  BY <1>1, <1>3, <1>4 DEF Continue

\* What a return tells of the question that is settled.
LEMMA ReturnExplained ==
  ASSUME PromptInv, [Next]_vars, NEW kind \in Prompts, Returns(kind)
  PROVE  /\ outcome'.result \notin Reasons =>
              /\ pc = "taken" /\ outcome'.result = taken
              /\ taken \in Decisions(kind) \ {"escape"}
              /\ stops = <<>> /\ ~signal
         /\ outcome'.result \in Reasons =>
              /\ signal = (outcome'.result = "interrupted")
              /\ ~signal => IF stops # <<>> THEN outcome'.result = stops[1]
                            ELSE taken \in {"escape", "eof"}
<1>1. outcome'.result = Resume
  <2>1. Settle(kind, Resume)
    BY ReturnIsContinue
  <2> QED
    BY <2>1 DEF Settle
<1>2. pc = "taken" \/ (pc = "waiting" /\ aborted)
  BY ReturnIsContinue DEF Continue
<1>3. CASE signal
  <2>1. Resume = "interrupted"
    BY <1>3 DEF Resume
  <2> QED
    BY <1>1, <1>3, <2>1 DEF Reasons
<1>4. CASE ~signal /\ aborted
  <2>1. Resume = reason
    BY <1>4 DEF Resume
  <2> QED
    BY <1>1, <1>4, <2>1 DEF PromptInv, Typed, Flagged, Explained, Reasons
<1>5. CASE ~signal /\ ~aborted
  <2>0. signal = FALSE
    BY <1>5 DEF PromptInv, Typed
  <2>1. pc = "taken" /\ taken \in Answers /\ stops = <<>>
    BY <1>2, <1>5 DEF PromptInv, Flagged
  <2>2. CASE taken = "escape"
    <3>1. outcome'.result = "input_cancelled"
      BY <1>1, <1>5, <2>2 DEF Resume
    <3> QED
      BY <1>5, <2>0, <2>1, <2>2, <3>1 DEF Reasons
  <2>3. CASE taken = "eof" /\ windowsKeys
    <3>1. outcome'.result = "input_closed"
      BY <1>1, <1>5, <2>3 DEF Resume
    <3> QED
      BY <1>5, <2>0, <2>1, <2>3, <3>1 DEF Reasons
  <2>4. CASE taken # "escape" /\ ~(taken = "eof" /\ windowsKeys)
    <3>1. Resume = taken /\ taken \notin Reasons
      BY <1>5, <2>1, <2>4 DEF Resume, Reasons, Answers
    <3> QED
      BY <1>1, <1>5, <2>1, <2>4, <3>1, ReturnIsContinue
  <2> QED
    BY <2>2, <2>3, <2>4
<1> QED
  BY <1>3, <1>4, <1>5 DEF PromptInv, Typed

-----------------------------------------------------------------------------
\* Timeouts, signals, ends of input and the line may come in any order: what a
\* prompt returns as a decision is an answer that nothing had stopped
\* (terminal.ts 112-157).
THEOREM DecisionsAreAnswersHolds == Spec => DecisionsAreAnswers
<1>1. ASSUME PromptInv, [Next]_vars
      PROVE  [\A kind \in Prompts : Returns(kind) /\ outcome'.result \notin Reasons =>
                /\ pc = "taken" /\ outcome'.result = taken
                /\ taken \in Decisions(kind) \ {"escape"}
                /\ stops = <<>> /\ ~signal]_vars
  BY <1>1, ReturnExplained
<1> QED
  BY <1>1, PromptInvInit, PromptInvStep, PTL DEF Spec, DecisionsAreAnswers

\* And a stopped question reports the first cause, or the interruption.
THEOREM FirstReasonReportedHolds == Spec => FirstReasonReported
<1>1. ASSUME PromptInv, [Next]_vars
      PROVE  [\A kind \in Prompts : Returns(kind) /\ outcome'.result \in Reasons =>
                /\ signal = (outcome'.result = "interrupted")
                /\ ~signal => IF stops # <<>> THEN outcome'.result = stops[1]
                              ELSE taken \in {"escape", "eof"}]_vars
  BY <1>1, ReturnExplained
<1> QED
  BY <1>1, PromptInvInit, PromptInvStep, PTL DEF Spec, FirstReasonReported

-----------------------------------------------------------------------------
(* An evaluation.                                                          *)

Working == {"requesting", "backoff"}

EvalTyped ==
  /\ fired \in BOOLEAN /\ runAborted \in BOOLEAN
  /\ phase \in {"called", "settled"} \cup Working
  /\ request \in {"none", "sent", "reading"}
  /\ evaluation \in Outcomes

Stopped ==
  /\ runAborted => phase \notin Working
  /\ fired => phase = "settled"
  /\ phase = "settled" <=> evaluation # "pending"
  /\ phase \notin Working => dueAt = 0 /\ retryAt = 0

\* A request that an evaluation leaves behind was stopped with it.
Unread ==
  /\ phase = "called" => request = "none"
  /\ phase = "settled" => request # "reading"
  /\ phase = "settled" /\ request = "sent" => runAborted \/ fired

EvalInv == EvalTyped /\ Stopped /\ Unread

\* The deadline is set once, when the evaluation begins.
Timed ==
  /\ now \in Nat
  /\ phase = "called" => now = 0
  /\ phase \in Working => dueAt = Deadline /\ now <= Deadline

\* No error is taken for a result or an interruption.
LEMMA CodesAreErrors ==
  ASSUME NEW f \in Failures PROVE Code(f) \in Outcomes \ {"pending", "result", "interrupted"}
BY DEF Failures, Code, Outcomes

LEMMA EvalInvInit == EvaluatorInit => EvalInv
<1>1. "pending" \in Outcomes
  BY DEF Outcomes
<1>2. EvaluatorInit => EvalTyped
  <2>1. EvaluatorInit => fired \in BOOLEAN /\ runAborted \in BOOLEAN
    BY DEF EvaluatorInit
  <2> QED
    BY <1>1, <2>1 DEF EvaluatorInit, EvalTyped
<1>3. EvaluatorInit => Stopped /\ Unread
  BY DEF EvaluatorInit, Stopped, Unread, Working
<1> QED
  BY <1>2, <1>3 DEF EvalInv

\* An evaluation that settles leaves no response to be read.
LEMMA ConcludeKeeps ==
  ASSUME EvalInv, NEW o \in Outcomes \ {"pending"}, SettleWith(o),
         fired' \in BOOLEAN, runAborted' \in BOOLEAN,
         request' = "none" \/ (request' = "sent" /\ (runAborted' \/ fired'))
  PROVE  EvalInv'
BY DEF SettleWith, EvalInv, EvalTyped, Stopped, Unread, Working

\* Every step keeps the invariant.
LEMMA EvalInvStep == EvalInv /\ [EvaluatorNext]_evaluatorVars => EvalInv'
<1> SUFFICES ASSUME EvalInv, [EvaluatorNext]_evaluatorVars PROVE EvalInv'
  OBVIOUS
<1> USE DEF Working
<1>0. CASE UNCHANGED evaluatorVars
  BY <1>0 DEF evaluatorVars, EvalInv, EvalTyped, Stopped, Unread
<1>1. CASE Begin
  <2>1. CASE runAborted
    <3>1. SettleWith("interrupted") /\ "interrupted" \in Outcomes
      BY <1>1, <2>1 DEF Begin, Outcomes
    <3> QED
      BY <1>1, <2>1, <3>1, ConcludeKeeps DEF Begin, EvalInv, EvalTyped, Unread
  <2>2. CASE ~runAborted
    BY <1>1, <2>2 DEF Begin, Send, EvalInv, EvalTyped, Stopped, Unread
  <2> QED
    BY <2>1, <2>2
<1>2. CASE RetryDue
  BY <1>2 DEF RetryDue, Send, EvalInv, EvalTyped, Stopped, Unread
<1>3. CASE Tick
  BY <1>3 DEF Tick, EvalInv, EvalTyped, Stopped, Unread
<1>4. CASE ResponseArrives
  BY <1>4 DEF ResponseArrives, EvalInv, EvalTyped, Stopped, Unread
<1>5. CASE FetchAborted
  BY <1>5 DEF FetchAborted, EvalInv, EvalTyped, Stopped, Unread
<1>6. CASE Answered
  <2>1. SettleWith("result") /\ "result" \in Outcomes
    BY <1>6 DEF Answered, Outcomes
  <2> QED
    BY <1>6, <2>1, ConcludeKeeps DEF Answered, EvalInv, EvalTyped
<1>7. CASE \E f \in Failures : Fails(f)
  <2>1. PICK f \in Failures : Fails(f)
    BY <1>7
  <2>2. CASE Conclude(Code(f), FALSE, FALSE)
    <3>1. SettleWith(Code(f))
      BY <2>2 DEF Conclude
    <3> QED
      BY <2>1, <3>1, ConcludeKeeps, CodesAreErrors DEF Fails, EvalInv, EvalTyped
  <2>3. CASE phase' = "backoff" /\ UNCHANGED <<evaluation, dueAt>>
    BY <2>1, <2>3 DEF Fails, EvalInv, EvalTyped, Stopped, Unread
  <2> QED
    BY <2>1, <2>2, <2>3 DEF Fails
<1>8. CASE DeadlineFires \/ Abort
  <2>1. PICK a \in BOOLEAN, f \in BOOLEAN :
          /\ CombinedSignal(a, f) /\ runAborted' = a /\ fired' = f /\ (a \/ f)
          /\ f => fired \/ dueAt # 0
    BY <1>8 DEF DeadlineFires, Abort, EvalInv, EvalTyped
  <2>2. CASE phase \in Working
    <3>1. PICK o \in {"interrupted", "timeout"} : SettleWith(o)
      BY <2>1, <2>2 DEF CombinedSignal, Conclude
    <3>2. o \in Outcomes \ {"pending"}
      BY DEF Outcomes, Failures, Code
    <3> QED
      BY <2>1, <3>1, <3>2, ConcludeKeeps DEF CombinedSignal, EvalInv, EvalTyped
  <2>3. CASE phase \notin Working
    BY <2>1, <2>3 DEF CombinedSignal, EvalInv, EvalTyped, Stopped, Unread
  <2> QED
    BY <2>2, <2>3
<1> QED
  BY <1>0, <1>1, <1>2, <1>3, <1>4, <1>5, <1>6, <1>7, <1>8 DEF EvaluatorNext, Evaluate, Provider

\* Whatever stopped the evaluation, no step after it sends or answers.
LEMMA StepsAfterStop ==
  ASSUME EvalInv, [EvaluatorNext]_evaluatorVars, runAborted \/ fired
  PROVE  requests' = requests /\ (evaluation' = "result" => evaluation = "result")
<1>1. phase \notin Working
  BY DEF EvalInv, Stopped, Working
<1>2. CASE Begin
  BY <1>2 DEF Begin, SettleWith, EvalInv, Stopped
<1>3. CASE DeadlineFires \/ Abort
  BY <1>1, <1>3 DEF DeadlineFires, Abort, CombinedSignal, Working
<1> QED
  BY <1>1, <1>2, <1>3
     DEF EvaluatorNext, Evaluate, Provider, RetryDue, Tick, Answered, Fails,
         ResponseArrives, FetchAborted, evaluatorVars, Working

\* Only the signal before the deadline, and only the deadline before an error,
\* decide how an evaluation settles.
LEMMA Settling ==
  ASSUME EvalInv, [EvaluatorNext]_evaluatorVars, evaluation = "pending", evaluation' # "pending"
  PROVE  /\ evaluation' = "interrupted" <=> runAborted'
         /\ fired' /\ ~runAborted' => evaluation' = "timeout"
<1>1. fired = FALSE /\ (runAborted => phase = "called")
  BY DEF EvalInv, EvalTyped, Stopped, Working
<1>2. CASE Begin
  BY <1>1, <1>2 DEF Begin, SettleWith, EvalInv, EvalTyped
<1>3. CASE Answered
  BY <1>1, <1>3 DEF Answered, SettleWith, EvalInv, EvalTyped
<1>4. CASE \E f \in Failures : Fails(f)
  <2>1. PICK f \in Failures : Fails(f)
    BY <1>4
  <2>2. evaluation' = Code(f) /\ phase = "requesting" /\ UNCHANGED <<fired, runAborted>>
    BY <2>1 DEF Fails, Conclude, SettleWith
  <2> QED
    BY <1>1, <2>2, CodesAreErrors
<1>5. CASE DeadlineFires
  <2>1. CombinedSignal(runAborted, TRUE) /\ phase \in Working
    BY <1>5 DEF DeadlineFires, CombinedSignal, Working
  <2>2. ~runAborted /\ UNCHANGED runAborted
    BY <1>5, <2>1 DEF DeadlineFires, EvalInv, Stopped
  <2> QED
    BY <2>1, <2>2 DEF CombinedSignal, Conclude, SettleWith, Working
<1>6. CASE Abort
  BY <1>1, <1>6 DEF Abort, CombinedSignal, Conclude, SettleWith
<1> QED
  BY <1>2, <1>3, <1>4, <1>5, <1>6
     DEF EvaluatorNext, Evaluate, Provider, RetryDue, Tick, ResponseArrives,
         FetchAborted, evaluatorVars

LEMMA TimedStep ==
  ASSUME EvalInv, Timed, [EvaluatorNext]_evaluatorVars
  PROVE  Timed'
<1> USE DEF Working
<1> USE EvaluatorAssumption
<1>0. CASE UNCHANGED evaluatorVars
  BY <1>0 DEF evaluatorVars, Timed
<1>1. CASE Begin
  BY <1>1 DEF Begin, SettleWith, Send, Timed
<1>2. CASE RetryDue
  BY <1>2 DEF RetryDue, Send, Timed
<1>3. CASE Tick
  BY <1>3 DEF Tick, Timed
<1>4. CASE ResponseArrives \/ FetchAborted
  BY <1>4 DEF ResponseArrives, FetchAborted, Timed
<1>5. CASE Answered
  BY <1>5 DEF Answered, SettleWith, Timed
<1>6. CASE \E f \in Failures : Fails(f)
  <2>1. PICK f \in Failures : Fails(f)
    BY <1>6
  <2>2. phase = "requesting" /\ now' = now
    BY <2>1 DEF Fails
  <2>3. phase' = "settled" \/ (phase' = "backoff" /\ dueAt' = dueAt)
    BY <2>1 DEF Fails, Conclude, SettleWith
  <2> QED
    BY <2>2, <2>3 DEF Timed
<1>7. CASE DeadlineFires \/ Abort
  <2>1. now' = now /\ (phase' = "settled" \/ UNCHANGED <<phase, dueAt>>)
    BY <1>7 DEF DeadlineFires, Abort, CombinedSignal, Conclude, SettleWith
  <2> QED
    BY <2>1 DEF Timed
<1> QED
  BY <1>0, <1>1, <1>2, <1>3, <1>4, <1>5, <1>6, <1>7 DEF EvaluatorNext, Evaluate, Provider

-----------------------------------------------------------------------------
\* After the run's signal or the deadline no request goes out and no answer
\* becomes the result, and nothing of a response is read once the evaluation
\* has settled (evaluateConfiguredState, waitForRetry, boundedResponse).
THEOREM NothingAfterStopHolds == EvaluatorSpec => NothingAfterStop
<1>1. ASSUME EvalInv, [EvaluatorNext]_evaluatorVars
      PROVE  [/\ runAborted \/ fired =>
                   /\ requests' = requests
                   /\ evaluation' = "result" => evaluation = "result"
              /\ evaluation' # "pending" => request' # "reading"]_evaluatorVars
  <2>1. EvalInv'
    BY <1>1, EvalInvStep
  <2> QED
    BY <1>1, <2>1, StepsAfterStop DEF EvalInv, Stopped, Unread
<1> QED
  BY <1>1, EvalInvInit, EvalInvStep, PTL DEF EvaluatorSpec, NothingAfterStop

\* The operator's signal is reported as an interruption and nothing else is; the
\* deadline is a time-out, whatever error came of it (the outer catch).
THEOREM InterruptionIsTheOperatorsHolds == EvaluatorSpec => InterruptionIsTheOperators
<1>1. ASSUME EvalInv, [EvaluatorNext]_evaluatorVars
      PROVE  [evaluation = "pending" /\ evaluation' # "pending" =>
                /\ evaluation' = "interrupted" <=> runAborted'
                /\ fired' /\ ~runAborted' => evaluation' = "timeout"]_evaluatorVars
  BY <1>1, Settling
<1> QED
  BY <1>1, EvalInvInit, EvalInvStep, PTL DEF EvaluatorSpec, InterruptionIsTheOperators

\* An evaluation that has not settled is within its one deadline, however many
\* requests and delays there were; with DeadlineFires, which is a fair step then,
\* this is the bound of SettlesInTime.
THEOREM WithinDeadlineHolds == EvaluatorSpec => [](evaluation = "pending" => now <= Deadline)
<1>1. EvaluatorInit => EvalInv /\ Timed
  BY EvalInvInit, EvaluatorAssumption DEF EvaluatorInit, Timed, Working
<1>2. (EvalInv /\ Timed) /\ [EvaluatorNext]_evaluatorVars => (EvalInv /\ Timed)'
  BY EvalInvStep, TimedStep
<1>3. EvalInv /\ Timed => (evaluation = "pending" => now <= Deadline)
  BY EvaluatorAssumption DEF EvalInv, EvalTyped, Stopped, Timed
<1> QED
  BY <1>1, <1>2, <1>3, PTL DEF EvaluatorSpec

=============================================================================

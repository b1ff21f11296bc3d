------------------------------ MODULE Evaluator ------------------------------
(***************************************************************************)
(* One evaluation (evaluateConfiguredState in src/src/ai/evaluate.ts): up  *)
(* to EVALUATION_MAX_RETRIES + 1 requests with a backoff between them,     *)
(* under one deadline and the abort signal of the run, and the response    *)
(* stream each request reads (boundedResponse in src/src/ai/transport.ts). *)
(*                                                                         *)
(* Time is counted in ticks since the call; a timer that is due runs       *)
(* before the next tick.  The provider is external: it answers at any      *)
(* time, with anything, or never.                                          *)
(*                                                                         *)
(* The names that every module has are qualified here, so that the calls a *)
(* loop awaits can be reasoned about side by side.                         *)
(***************************************************************************)
EXTENDS Integers

CONSTANTS
  MaxRetries,  \* EVALUATION_MAX_RETRIES: 1
  Deadline,    \* EVALUATION_TIMEOUT_MS in ticks
  Delays       \* retry delays a provider may ask for, in ticks (retryAfterMs)

ASSUME EvaluatorAssumption ==
  MaxRetries \in Nat /\ Deadline \in Nat \ {0} /\ Delays \subseteq Nat \ {0}

VARIABLES
  phase,        \* "called", "requesting", "backoff" or "settled"
  now,       \* ticks since the call
  dueAt,     \* when the deadline timer is due; 0 when it is not armed
  fired,     \* deadline.signal.aborted
  runAborted,   \* options.signal.aborted
  attempt,   \* attempt
  retryAt,   \* when the backoff ends; 0 when it is not armed
  request,   \* of the current or an abandoned request: "none", "sent", "reading"
  evaluation,   \* what the promise settled with; "pending" before
  requests   \* requests sent so far

evaluatorVars ==
  <<phase, now, dueAt, fired, runAborted, attempt, retryAt, request, evaluation, requests>>

\* How a request fails: an HTTP status, a failed connection, or data that is
\* no evaluation (EvaluationError, duplicate keys, more than 64 KiB).
Failures == {"401", "402", "403", "404", "400", "408", "429", "503", "504", "network", "invalid"}

\* isTransientEvaluationError
Transient == {"408", "429", "503", "504", "network"}

\* normalizeEvaluationError
Code(failure) ==
  CASE failure = "invalid" -> "invalid_response"
    [] failure = "404" -> "model_unavailable"
    [] failure = "401" -> "authentication"
    [] failure = "403" -> "authorization"
    [] failure = "402" -> "billing"
    [] failure \in {"408", "504"} -> "timeout"
    [] failure = "429" -> "rate_limit"
    [] failure = "503" -> "service_unavailable"
    [] OTHER -> "request_failed"

Outcomes == {"pending", "result", "interrupted"} \cup {Code(f) : f \in Failures}

EvaluatorInit ==
  /\ phase = "called" /\ now = 0 /\ dueAt = 0 /\ fired = FALSE /\ runAborted \in BOOLEAN
  /\ attempt = 0 /\ retryAt = 0 /\ request = "none"
  /\ evaluation = "pending" /\ requests = 0

-----------------------------------------------------------------------------
\* The evaluation settles and clears its timer.
SettleWith(o) == phase' = "settled" /\ evaluation' = o /\ dueAt' = 0 /\ retryAt' = 0

\* The combined signal is taken for the operator's.
Conclude_Bug(code, isAborted, isFired) ==
  SettleWith(IF isAborted \/ isFired THEN "interrupted" ELSE code)

\* The outer catch: the run's signal counts before the deadline, and the
\* deadline before the error.
Conclude(code, isAborted, isFired) ==
  SettleWith(IF isAborted THEN "interrupted" ELSE IF isFired THEN "timeout" ELSE code)

\* Every attempt gets a deadline of its own.
Send_Bug ==
  /\ phase' = "requesting" /\ requests' = requests + 1 /\ request' = "sent"
  /\ dueAt' = now + Deadline

\* A request goes out; SDK retries are disabled.
Send ==
  /\ phase' = "requesting" /\ requests' = requests + 1 /\ request' = "sent"
  /\ dueAt' = IF phase = "called" THEN now + Deadline ELSE dueAt

Begin ==
  /\ phase = "called"
  /\ IF runAborted THEN SettleWith("interrupted") /\ UNCHANGED <<request, requests>>
     ELSE Send /\ UNCHANGED <<evaluation, retryAt>>
  /\ UNCHANGED <<now, fired, runAborted, attempt>>

\* A response that arrives late is read.
ResponseArrives_Bug ==
  /\ request = "sent"
  /\ request' = "reading"
  /\ UNCHANGED <<phase, now, dueAt, fired, runAborted, attempt, retryAt, evaluation, requests>>

\* The response starts.  When the evaluation was stopped meanwhile,
\* boundedResponse cancels the body unread.
ResponseArrives ==
  /\ request = "sent"
  /\ request' = IF runAborted \/ fired THEN "none" ELSE "reading"
  /\ UNCHANGED <<phase, now, dueAt, fired, runAborted, attempt, retryAt, evaluation, requests>>

\* fetch gives the request up after an abort.
FetchAborted ==
  /\ request = "sent" /\ (runAborted \/ fired)
  /\ request' = "none"
  /\ UNCHANGED <<phase, now, dueAt, fired, runAborted, attempt, retryAt, evaluation, requests>>

\* The whole answer is there and valid.
Answered ==
  /\ phase = "requesting" /\ request = "reading"
  /\ request' = "none" /\ SettleWith("result")
  /\ UNCHANGED <<now, fired, runAborted, attempt, requests>>

\* A transient failure is retried after a delay while attempts are left.
Fails(failure) ==
  /\ phase = "requesting"
  /\ \/ request = "sent" /\ failure = "network"
     \/ request = "reading"
  /\ request' = "none"
  /\ IF attempt >= MaxRetries \/ failure \notin Transient
     THEN Conclude(Code(failure), FALSE, FALSE) /\ UNCHANGED attempt
     ELSE \E delay \in Delays :
            /\ phase' = "backoff" /\ retryAt' = now + delay
            /\ attempt' = attempt + 1
            /\ UNCHANGED <<evaluation, dueAt>>
  /\ UNCHANGED <<now, fired, runAborted, requests>>

RetryDue ==
  /\ phase = "backoff" /\ retryAt # 0 /\ now >= retryAt
  /\ retryAt' = 0 /\ Send
  /\ UNCHANGED <<now, fired, runAborted, attempt, evaluation>>

\* The listeners of the combined signal: interruptible rejects, waitForRetry
\* rejects and clears its timer, boundedResponse cancels its reader.
CombinedSignal(isAborted, isFired) ==
  /\ request' = IF request = "reading" THEN "none" ELSE request
  /\ IF phase \in {"requesting", "backoff"} THEN Conclude("interrupted", isAborted, isFired)
     ELSE UNCHANGED <<phase, evaluation, dueAt, retryAt>>

DeadlineFires ==
  /\ dueAt # 0 /\ now >= dueAt /\ ~fired
  /\ fired' = TRUE
  /\ CombinedSignal(runAborted, TRUE)
  /\ UNCHANGED <<now, runAborted, attempt, requests>>

Abort ==
  /\ ~runAborted
  /\ runAborted' = TRUE
  /\ CombinedSignal(TRUE, fired)
  /\ UNCHANGED <<now, fired, attempt, requests>>

Tick ==
  /\ phase \in {"requesting", "backoff"}
  /\ dueAt # 0 => now < dueAt
  /\ retryAt # 0 => now < retryAt
  /\ now' = now + 1
  /\ UNCHANGED <<phase, dueAt, fired, runAborted, attempt, retryAt, request, evaluation, requests>>

Evaluate == Begin \/ RetryDue \/ DeadlineFires \/ Tick
Provider == ResponseArrives \/ FetchAborted \/ Answered \/ \E f \in Failures : Fails(f)

EvaluatorNext == Evaluate \/ Provider \/ Abort

EvaluatorSpec == EvaluatorInit /\ [][EvaluatorNext]_evaluatorVars

\* The event loop runs timers; nothing is assumed of the provider.
FairEvaluatorSpec == EvaluatorSpec /\ WF_evaluatorVars(Evaluate)

-----------------------------------------------------------------------------
EvaluatorTypeOK ==
  /\ phase \in {"called", "requesting", "backoff", "settled"}
  /\ now \in Nat /\ dueAt \in Nat /\ retryAt \in Nat
  /\ fired \in BOOLEAN /\ runAborted \in BOOLEAN
  /\ attempt \in Nat /\ requests \in Nat
  /\ request \in {"none", "sent", "reading"} /\ evaluation \in Outcomes

\* After the run's signal or the deadline no request goes out and no answer
\* becomes the result, however late it arrives (throwIfInterrupted after every
\* wait, the listener of waitForRetry); and nothing reads a response stream
\* after the evaluation settled: a body that arrives late is cancelled unread
\* (boundedResponse).
NothingAfterStop ==
  [][/\ runAborted \/ fired =>
          /\ requests' = requests
          /\ evaluation' = "result" => evaluation = "result"
     /\ evaluation' # "pending" => request' # "reading"]_evaluatorVars

\* An expired deadline is a failed evaluation, which the operator may recover
\* from, and never reported as the operator's interruption, which stops the
\* run; and the other way around (the outer catch).
InterruptionIsTheOperators ==
  [][evaluation = "pending" /\ evaluation' # "pending" =>
       /\ evaluation' = "interrupted" <=> runAborted'
       /\ fired' /\ ~runAborted' => evaluation' = "timeout"]_evaluatorVars

\* An evaluation settles, even if the provider never answers, and by its one
\* deadline, which covers every request, response stream and backoff, whatever
\* delays the provider asks for (README.md: "Each provider shares one 10-second
\* deadline").
SettlesInTime ==
  /\ <>(evaluation # "pending")
  /\ [](evaluation = "pending" => now <= Deadline)

=============================================================================

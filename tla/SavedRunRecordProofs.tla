------------------------- MODULE SavedRunRecordProofs -------------------------
(***************************************************************************)
(* What the fold of the store keeps of a history of any length: its        *)
(* summary counts what the history holds, and an approval in the summary   *)
(* is one that the history ends with.  With that the rules for one event   *)
(* give the properties of whole histories, for every limit.                *)
(***************************************************************************)
EXTENDS SavedRunRecord, FiniteSetTheorems, TLAPS

AnyEvent == Events(Nat)
Reserved == Of(history, {"iteration_reserved"})
Evaluated == Of(history, {"evaluation_completed", "evaluation_failed"})
Called(events, w) == {k \in Of(events, {"execution_reserved"}) : events[k].action = w}

\* An approval after which there are only outcomes of earlier attempts.
Approval(events, i, a, last) ==
  \E j \in 1..last :
    /\ events[j] = ActionApproved(i, a)
    /\ \A m \in (j + 1)..last : events[m].type = "execution_outcome"

Typed ==
  /\ history \in Seq(AnyEvent)
  /\ verdict \in BOOLEAN
  /\ ledger.status \in Statuses
  /\ ledger.length = Len(history) + 1
  /\ ledger.segment \in Nat
  /\ ledger.lastIteration \in 0..IterationLimit
  /\ ledger.calls \in [Workers -> 0..CallLimit]
  /\ ledger.open \subseteq ledger.reserved
  /\ ledger.settled \in BOOLEAN

\* What was counted.
Counted ==
  /\ ledger.lastIteration = Cardinality(Reserved)
  /\ \A k \in Reserved : history[k].iteration = Cardinality({j \in Reserved : j <= k})
  /\ \A w \in Workers : ledger.calls[w] = Cardinality(Called(history, w))

\* Which evaluations were settled.
Settled ==
  /\ \A k \in Evaluated :
       /\ history[k].iteration \in Nat
       /\ history[k].iteration <= ledger.lastIteration
       /\ ~ledger.settled => history[k].iteration < ledger.lastIteration
  /\ \A j, k \in Evaluated : history[j].iteration = history[k].iteration => j = k

\* What was approved.
Approved ==
  /\ ledger.status \notin Terminal /\ ledger.approved # "none" =>
       Approval(history, ledger.lastIteration, ledger.approved, Len(history))
  /\ ledger.status = "finished" =>
       verdict /\ Approval(history, ledger.lastIteration, "FINISH", Len(history) - 1)

Inv == Typed /\ Counted /\ Settled /\ Approved /\ EveryDispatchApproved

-----------------------------------------------------------------------------
(* Events and sequences of them.                                           *)

LEMMA EventFields ==
  ASSUME NEW e \in AnyEvent
  PROVE  /\ e.type \in {"iteration_reserved", "evaluation_completed", "evaluation_failed"} =>
              e.iteration \in Iterations
         /\ e.type = "action_approved" => e = ActionApproved(e.iteration, e.action)
         /\ e.type = "execution_reserved" => e.action \in Workers \cup Tools
         /\ e.type = "run_resumed" => e.segment \in Nat
  BY DEF AnyEvent, Events, IterationReserved, EvaluationCompleted, EvaluationFailed,
         ActionApproved, ExecutionReserved, ExecutionOutcome, Clarification, RunResumed,
         RunStopped, RunFinished, IterationLimitReached, RunBlocked

LEMMA Appended ==
  ASSUME NEW h \in Seq(AnyEvent), NEW e \in AnyEvent
  PROVE  /\ Append(h, e) \in Seq(AnyEvent)
         /\ Len(Append(h, e)) = Len(h) + 1
         /\ DOMAIN Append(h, e) = 1..(Len(h) + 1)
         /\ \A k \in 1..Len(h) : Append(h, e)[k] = h[k]
         /\ Append(h, e)[Len(h) + 1] = e
  OBVIOUS

\* The positions of events of a type, and those of the calls of a worker, grow
\* by at most the last one.
LEMMA OfAppended ==
  ASSUME NEW h \in Seq(AnyEvent), NEW e \in AnyEvent, NEW types
  PROVE  /\ Of(h, types) \subseteq 1..Len(h)
         /\ Of(Append(h, e), types) =
              Of(h, types) \cup (IF e.type \in types THEN {Len(h) + 1} ELSE {})
  BY Appended DEF Of

LEMMA CalledAppended ==
  ASSUME NEW h \in Seq(AnyEvent), NEW e \in AnyEvent, NEW w \in Workers
  PROVE  /\ Called(h, w) \subseteq 1..Len(h)
         /\ Called(Append(h, e), w) =
              Called(h, w) \cup (IF Charges(e, w) THEN {Len(h) + 1} ELSE {})
  BY Appended DEF Called, Of, Charges

LEMMA Grown ==
  ASSUME NEW n \in Nat, NEW S \in SUBSET (1..n)
  PROVE  /\ IsFiniteSet(S) /\ Cardinality(S) \in Nat
         /\ Cardinality(S \cup {n + 1}) = Cardinality(S) + 1
<1>0. IsFiniteSet(1..n)
  BY FS_Interval
<1>1. IsFiniteSet(S)
  BY <1>0, FS_Subset
<1> QED
  BY <1>1, FS_CardinalityType, FS_AddElement

-----------------------------------------------------------------------------
(* The initial record and one accepted event.                              *)

LEMMA InvInit == Init => Inv
<1> SUFFICES ASSUME Init PROVE Inv
  OBVIOUS
<1> USE LimitsAssumption
<1>1. history = <<>> /\ history \in Seq(AnyEvent) /\ Len(history) = 0 /\ DOMAIN history = {}
  BY DEF Init
<1>2. Reserved = {} /\ Evaluated = {} /\ \A w \in Workers : Called(history, w) = {}
  BY <1>1 DEF Reserved, Evaluated, Called, Of
<1>3. Typed
  <2>1. ledger.calls \in [Workers -> 0..CallLimit]
    BY DEF Init, Created
  <2>2. ledger.status \in Statuses /\ ledger.segment \in Nat /\ ledger.lastIteration \in 0..IterationLimit
    BY DEF Init, Created, Statuses
  <2>3. verdict \in BOOLEAN /\ ledger.settled \in BOOLEAN
    BY DEF Init, Created
  <2>4. ledger.length = Len(history) + 1 /\ ledger.open \subseteq ledger.reserved
    BY <1>1 DEF Init, Created
  <2> QED
    BY <1>1, <2>1, <2>2, <2>3, <2>4 DEF Typed
<1>4. Counted
  BY <1>2, FS_EmptySet DEF Counted, Init, Created
<1>5. Settled /\ Approved /\ EveryDispatchApproved
  BY <1>1, <1>2 DEF Settled, Approved, EveryDispatchApproved, Init, Created, Terminal
<1> QED
  BY <1>3, <1>4, <1>5 DEF Inv

\* What the lemmas about a step use of it.
Accepted(e) ==
  /\ e \in AnyEvent
  /\ history' = Append(history, e)
  /\ ledger' = Apply(ledger, e)
  /\ verdict' \in BOOLEAN
  /\ ledger.status \notin Terminal
  /\ ValidNext(ledger, e, verdict')

LEMMA StepAccepts ==
  ASSUME Typed, Next
  PROVE  \E e : Accepted(e)
<1>1. PICK e \in Events({ledger.segment, ledger.segment + 1}), passed \in BOOLEAN :
        AppendEvent(e, passed)
  BY DEF Next
<1>2. e \in AnyEvent
  BY <1>1 DEF Typed, AnyEvent, Events
<1> QED
  BY <1>1, <1>2 DEF AppendEvent, Accepts, AppendGuard, Accepted

LEMMA TypedStep ==
  ASSUME Typed, NEW e, Accepted(e)
  PROVE  Typed'
<1> USE LimitsAssumption
<1>1. history' \in Seq(AnyEvent) /\ Len(history') = Len(history) + 1
  BY Appended DEF Typed, Accepted
<1>2. ledger'.status \in Statuses
  BY DEF Accepted, Apply, EventStatus, Statuses, Terminal
<1>3. ledger'.length = Len(history') + 1
  BY <1>1 DEF Typed, Accepted, Apply
<1>4. ledger'.segment \in Nat
  BY EventFields DEF Typed, Accepted, Apply
<1>5. ledger'.lastIteration \in 0..IterationLimit
  BY EventFields DEF Typed, Accepted, Apply, LastIterationAfter, Iterations
<1>6. ledger'.calls \in [Workers -> 0..CallLimit]
  <2>1. \A w \in Workers : Charges(e, w) => ledger.calls[w] < CallLimit
    BY DEF Accepted, Charges, ValidNext, ResumeRule, IterationRule, EvaluationRule, ApprovalRule,
           ReservationRule, OutcomeRule, ClarificationRule, StopRule, FinishRule, LimitRule
  <2> QED
    BY <2>1 DEF Typed, Accepted, Apply
<1>7. ledger'.open \subseteq ledger'.reserved
  BY DEF Typed, Accepted, Apply, OpenAfter
<1>8. ledger'.settled \in BOOLEAN
  BY DEF Accepted, Apply
<1> QED
  BY <1>1, <1>2, <1>3, <1>4, <1>5, <1>6, <1>7, <1>8 DEF Typed, Accepted

LEMMA CountedStep ==
  ASSUME Typed, Counted, NEW e, Accepted(e)
  PROVE  Counted'
<1> DEFINE n == Len(history)
<1>0. n \in Nat /\ history \in Seq(AnyEvent) /\ e \in AnyEvent /\ history' = Append(history, e)
  BY DEF Typed, Accepted
<1>1. Reserved \subseteq 1..n
  BY <1>0, OfAppended DEF Reserved
<1>2. Reserved' = Reserved \cup (IF e.type = "iteration_reserved" THEN {n + 1} ELSE {})
  BY <1>0, OfAppended DEF Reserved
<1>3. e.type = "iteration_reserved" => e.iteration = ledger.lastIteration + 1
  BY DEF Accepted, ValidNext, ResumeRule, IterationRule, EvaluationRule, ApprovalRule,
         ReservationRule, OutcomeRule, ClarificationRule, StopRule, FinishRule, LimitRule
<1>4. ledger'.lastIteration = Cardinality(Reserved')
  <2>1. CASE e.type = "iteration_reserved"
    BY <2>1, <1>0, <1>1, <1>2, <1>3, Grown DEF Counted, Accepted, Apply, LastIterationAfter
  <2>2. CASE e.type # "iteration_reserved"
    BY <2>2, <1>2 DEF Counted, Accepted, Apply, LastIterationAfter
  <2> QED
    BY <2>1, <2>2
<1>5. ASSUME NEW k \in Reserved'
      PROVE  history'[k].iteration = Cardinality({j \in Reserved' : j <= k})
  <2>1. CASE k \in Reserved
    <3>1. {j \in Reserved' : j <= k} = {j \in Reserved : j <= k}
      BY <2>1, <1>0, <1>1, <1>2
    <3>2. history'[k] = history[k]
      BY <2>1, <1>0, <1>1, Appended
    <3> QED
      BY <2>1, <3>1, <3>2 DEF Counted
  <2>2. CASE k \notin Reserved
    <3>1. e.type = "iteration_reserved" /\ k = n + 1
      BY <2>2, <1>2
    <3>2. \A j \in Reserved' : j <= k
      BY <3>1, <1>0, <1>1, <1>2
    <3>3. history'[k] = e
      BY <3>1, <1>0, Appended
    <3>4. {j \in Reserved' : j <= k} = Reserved'
      BY <3>2
    <3> QED
      BY <3>1, <3>3, <3>4, <1>3, <1>4 DEF Accepted, Apply, LastIterationAfter
  <2> QED
    BY <2>1, <2>2
<1>6. ASSUME NEW w \in Workers
      PROVE  ledger'.calls[w] = Cardinality(Called(history, w)')
  <2>1. Called(history, w)' = Called(history, w) \cup (IF Charges(e, w) THEN {n + 1} ELSE {})
    BY <1>0, CalledAppended DEF Called, Of
  <2>2. Called(history, w) \subseteq 1..n
    BY <1>0, CalledAppended
  <2>3. ledger'.calls[w] = ledger.calls[w] + (IF Charges(e, w) THEN 1 ELSE 0)
    BY DEF Accepted, Apply
  <2>4. ledger.calls[w] = Cardinality(Called(history, w)) /\ ledger.calls[w] \in Nat
    BY <1>0, <2>2, Grown DEF Counted
  <2>5. CASE Charges(e, w)
    BY <2>1, <2>2, <2>3, <2>4, <2>5, <1>0, Grown
  <2>6. CASE ~Charges(e, w)
    BY <2>1, <2>3, <2>4, <2>6
  <2> QED
    BY <2>5, <2>6
<1> QED
  BY <1>4, <1>5, <1>6 DEF Counted

LEMMA SettledStep ==
  ASSUME Typed, Settled, NEW e, Accepted(e)
  PROVE  Settled'
<1> DEFINE n == Len(history)
<1> DEFINE Ends == {"evaluation_completed", "evaluation_failed"}
<1>0. n \in Nat /\ history \in Seq(AnyEvent) /\ e \in AnyEvent /\ history' = Append(history, e)
  BY DEF Typed, Accepted
<1>1. Evaluated \subseteq 1..n
  BY <1>0, OfAppended DEF Evaluated
<1>2. Evaluated' = Evaluated \cup (IF e.type \in Ends THEN {n + 1} ELSE {})
  BY <1>0, OfAppended DEF Evaluated
<1>3. \A k \in Evaluated : history'[k] = history[k]
  BY <1>0, <1>1, Appended
<1>4. history'[n + 1] = e
  BY <1>0, Appended
<1>5. /\ e.type = "iteration_reserved" => e.iteration = ledger.lastIteration + 1
      /\ e.type \in Ends => e.iteration = ledger.lastIteration /\ ~ledger.settled
  BY DEF Accepted, ValidNext, ResumeRule, IterationRule, EvaluationRule, ApprovalRule,
         ReservationRule, OutcomeRule, ClarificationRule, StopRule, FinishRule, LimitRule
<1>6. ledger.lastIteration \in Nat
  BY LimitsAssumption DEF Typed
<1>7. ledger'.lastIteration = IF e.type = "iteration_reserved" THEN ledger.lastIteration + 1
                              ELSE ledger.lastIteration
  BY <1>5 DEF Accepted, Apply, LastIterationAfter
<1>8. ~ledger'.settled <=> e.type = "iteration_reserved" \/ (~ledger.settled /\ e.type \notin Ends)
  BY DEF Accepted, Apply, Typed
<1>9. ASSUME NEW k \in Evaluated'
      PROVE  /\ history'[k].iteration \in Nat
             /\ history'[k].iteration <= ledger'.lastIteration
             /\ ~ledger'.settled => history'[k].iteration < ledger'.lastIteration
  <2>1. CASE k \in Evaluated
    BY <2>1, <1>3, <1>6, <1>7, <1>8 DEF Settled
  <2>2. CASE k \notin Evaluated
    BY <2>2, <1>2, <1>4, <1>5, <1>6, <1>7, <1>8
  <2> QED
    BY <2>1, <2>2
<1>10. ASSUME NEW j \in Evaluated', NEW k \in Evaluated',
              history'[j].iteration = history'[k].iteration
       PROVE  j = k
  <2>1. CASE j \in Evaluated /\ k \in Evaluated
    BY <2>1, <1>3, <1>10 DEF Settled
  <2>2. CASE j \in Evaluated /\ k \notin Evaluated
    BY <2>2, <1>2, <1>3, <1>4, <1>5, <1>6, <1>10 DEF Settled
  <2>3. CASE j \notin Evaluated /\ k \in Evaluated
    BY <2>3, <1>2, <1>3, <1>4, <1>5, <1>6, <1>10 DEF Settled
  <2>4. CASE j \notin Evaluated /\ k \notin Evaluated
    BY <2>4, <1>2
  <2> QED
    BY <2>1, <2>2, <2>3, <2>4
<1> QED
  BY <1>9, <1>10 DEF Settled

\* An approval is where it was when an event is added, and stays the newest
\* one if that event is an outcome.
LEMMA ApprovalKept ==
  ASSUME NEW h \in Seq(AnyEvent), NEW e \in AnyEvent, NEW i, NEW a,
         Approval(h, i, a, Len(h))
  PROVE  /\ Approval(Append(h, e), i, a, Len(h))
         /\ e.type = "execution_outcome" => Approval(Append(h, e), i, a, Len(h) + 1)
<1>1. PICK j \in 1..Len(h) :
        /\ h[j] = ActionApproved(i, a)
        /\ \A m \in (j + 1)..Len(h) : h[m].type = "execution_outcome"
  BY DEF Approval
<1> DEFINE g == Append(h, e)
<1>2. g[j] = ActionApproved(i, a) /\ \A m \in (j + 1)..Len(h) : g[m].type = "execution_outcome"
  BY <1>1, Appended
<1>3. g[Len(h) + 1] = e /\ Len(h) \in Nat
  BY Appended
<1> HIDE DEF g
<1>4. Approval(g, i, a, Len(h))
  BY <1>2 DEF Approval
<1>5. ASSUME e.type = "execution_outcome"
      PROVE  Approval(g, i, a, Len(h) + 1)
  <2>1. \A m \in (j + 1)..(Len(h) + 1) : g[m].type = "execution_outcome"
    BY <1>2, <1>3, <1>5
  <2> QED
    BY <2>1, <1>2, <1>3 DEF Approval
<1> QED
  BY <1>4, <1>5 DEF g

LEMMA ApprovedStep ==
  ASSUME Typed, Approved, NEW e, Accepted(e)
  PROVE  Approved'
<1> DEFINE n == Len(history)
<1>0. /\ n \in Nat /\ history \in Seq(AnyEvent) /\ e \in AnyEvent
      /\ history' = Append(history, e) /\ Len(history') = n + 1
  BY Appended DEF Typed, Accepted
<1>1. ASSUME ledger'.status \notin Terminal, ledger'.approved # "none"
      PROVE  Approval(history', ledger'.lastIteration, ledger'.approved, Len(history'))
  <2>1. CASE e.type = "action_approved"
    <3>1. e = ActionApproved(ledger.lastIteration, e.action)
      BY <2>1, <1>0, EventFields
         DEF Accepted, ValidNext, ResumeRule, IterationRule, EvaluationRule, ApprovalRule,
             ReservationRule, OutcomeRule, ClarificationRule, StopRule, FinishRule, LimitRule
    <3>2. ledger'.lastIteration = ledger.lastIteration /\ ledger'.approved = e.action
      BY <2>1 DEF Accepted, Apply, LastIterationAfter, ApprovedAfter
    <3>3. history'[n + 1] = e
      BY <1>0, Appended
    <3> QED
      BY <1>0, <3>1, <3>2, <3>3 DEF Approval
  <2>2. CASE e.type # "action_approved"
    <3>1. e.type = "execution_outcome" /\ ledger.approved = ledger'.approved
      BY <2>2, <1>1 DEF Accepted, Apply, ApprovedAfter, EventStatus, Terminal
    <3>2. ledger'.lastIteration = ledger.lastIteration
      BY <3>1 DEF Accepted, Apply, LastIterationAfter
    <3>3. Approval(history, ledger.lastIteration, ledger.approved, n)
      BY <3>1, <1>1 DEF Approved, Accepted
    <3> QED
      BY <1>0, <3>1, <3>2, <3>3, ApprovalKept
  <2> QED
    BY <2>1, <2>2
<1>2. ASSUME ledger'.status = "finished"
      PROVE  verdict' /\ Approval(history', ledger'.lastIteration, "FINISH", Len(history') - 1)
  <2>1. e.type = "run_finished"
    BY <1>2 DEF Accepted, Apply, EventStatus
  <2>2. ledger.approved = "FINISH" /\ verdict'
    BY <2>1 DEF Accepted, ValidNext, ResumeRule, IterationRule, EvaluationRule, ApprovalRule,
           ReservationRule, OutcomeRule, ClarificationRule, StopRule, FinishRule, LimitRule
  <2>3. ledger'.lastIteration = ledger.lastIteration
    BY <2>1 DEF Accepted, Apply, LastIterationAfter
  <2>4. Approval(history, ledger.lastIteration, "FINISH", n)
    BY <2>2 DEF Approved, Accepted
  <2>5. Approval(history', ledger'.lastIteration, "FINISH", n)
    BY <1>0, <2>3, <2>4, ApprovalKept
  <2>6. Len(history') - 1 = n
    BY <1>0
  <2> QED
    BY <2>2, <2>5, <2>6
<1> QED
  BY <1>1, <1>2 DEF Approved

LEMMA DispatchStep ==
  ASSUME Typed, Approved, EveryDispatchApproved, NEW e, Accepted(e)
  PROVE  EveryDispatchApproved'
<1> DEFINE n == Len(history)
<1>0. /\ n \in Nat /\ history \in Seq(AnyEvent) /\ e \in AnyEvent
      /\ history' = Append(history, e) /\ DOMAIN history' = 1..(n + 1) /\ DOMAIN history = 1..n
  BY Appended DEF Typed, Accepted
<1>1. (\A k \in 1..n : history'[k] = history[k]) /\ history'[n + 1] = e
  BY <1>0, Appended
<1> SUFFICES ASSUME NEW k \in 1..(n + 1), history'[k].type = "execution_reserved"
    PROVE  \E j \in 1..(k - 1) :
             /\ history'[j].type = "action_approved"
             /\ history'[j].action = history'[k].action
             /\ history'[j].iteration = history'[k].iteration
             /\ \A m \in (j + 1)..(k - 1) : history'[m].type = "execution_outcome"
  BY <1>0 DEF EveryDispatchApproved, Before, Type
<1>2. CASE k \in 1..n
  <2>1. history[k].type = "execution_reserved"
    BY <1>1, <1>2
  <2>2. PICK j \in 1..(k - 1) :
          /\ history[j].type = "action_approved"
          /\ history[j].action = history[k].action
          /\ history[j].iteration = history[k].iteration
          /\ \A m \in (j + 1)..(k - 1) : history[m].type = "execution_outcome"
    BY <1>0, <1>2, <2>1 DEF EveryDispatchApproved, Before, Type
  <2>3. history'[j] = history[j] /\ \A m \in (j + 1)..(k - 1) : history'[m] = history[m]
    BY <1>0, <1>1, <1>2
  <2> QED
    BY <1>1, <1>2, <2>2, <2>3
<1>3. CASE k = n + 1
  <2>1. e.type = "execution_reserved"
    BY <1>1, <1>3
  <2>2. e.iteration = ledger.lastIteration /\ ledger.approved = e.action
    BY <2>1 DEF Accepted, ValidNext, ResumeRule, IterationRule, EvaluationRule, ApprovalRule,
           ReservationRule, OutcomeRule, ClarificationRule, StopRule, FinishRule, LimitRule
  <2>3. ledger.approved # "none"
    BY <1>0, <2>1, <2>2, EventFields DEF Workers, Tools
  <2>4. Approval(history, e.iteration, e.action, n)
    BY <2>2, <2>3 DEF Approved, Accepted
  <2>5. PICK j \in 1..n :
          /\ history[j] = ActionApproved(e.iteration, e.action)
          /\ \A m \in (j + 1)..n : history[m].type = "execution_outcome"
    BY <2>4 DEF Approval
  <2>6. /\ history[j].type = "action_approved"
        /\ history[j].action = e.action /\ history[j].iteration = e.iteration
    BY <2>5 DEF ActionApproved
  <2>7. history'[j] = history[j] /\ \A m \in (j + 1)..n : history'[m] = history[m]
    BY <1>0, <1>1
  <2>8. k - 1 = n
    BY <1>0, <1>3
  <2> QED
    BY <1>1, <1>3, <2>5, <2>6, <2>7, <2>8
<1> QED
  BY <1>0, <1>2, <1>3

-----------------------------------------------------------------------------
\* Summary and history agree in every record the store accepts.
THEOREM InvHolds == Spec => []Inv
<1>1. Inv /\ [Next]_vars => Inv'
  <2>1. ASSUME Inv, Next PROVE Inv'
    <3>1. PICK e : Accepted(e)
      BY <2>1, StepAccepts DEF Inv
    <3> QED
      BY <2>1, <3>1, TypedStep, CountedStep, SettledStep, ApprovedStep, DispatchStep DEF Inv
  <2>2. ASSUME Inv, UNCHANGED vars PROVE Inv'
    BY <2>2 DEF vars, Inv, Typed, Counted, Settled, Approved, EveryDispatchApproved, Reserved,
           Evaluated, Called, Of, Approval, Before, Type
  <2> QED
    BY <2>1, <2>2
<1> QED
  BY InvInit, <1>1, PTL DEF Spec

\* Whatever events callers offer, and however long the record: every accepted
\* dispatch has an approval of its own (validateEventSequence).
THEOREM EveryDispatchApprovedHolds == Spec => []EveryDispatchApproved
<1>1. Inv => EveryDispatchApproved
  BY DEF Inv
<1> QED
  BY <1>1, InvHolds, PTL

\* A finished record was finished by a fresh approval and a passed validation.
THEOREM FinishNeedsFreshApprovalHolds == Spec => []FinishNeedsFreshApproval
<1>1. Inv => FinishNeedsFreshApproval
  <2> SUFFICES ASSUME Inv, ledger.status = "finished"
      PROVE  verdict /\ \E j \in DOMAIN history :
               /\ history[j] = ActionApproved(ledger.lastIteration, "FINISH")
               /\ \A m \in (j + 1)..(Len(history) - 1) : Type(m) = "execution_outcome"
    BY DEF FinishNeedsFreshApproval
  <2>1. verdict /\ Approval(history, ledger.lastIteration, "FINISH", Len(history) - 1)
    BY DEF Inv, Approved
  <2>2. Len(history) \in Nat /\ DOMAIN history = 1..Len(history)
    BY DEF Inv, Typed
  <2>3. PICK j \in 1..(Len(history) - 1) :
          /\ history[j] = ActionApproved(ledger.lastIteration, "FINISH")
          /\ \A m \in (j + 1)..(Len(history) - 1) : history[m].type = "execution_outcome"
    BY <2>1 DEF Approval
  <2>4. j \in DOMAIN history
    BY <2>2
  <2> QED
    BY <2>1, <2>3, <2>4 DEF Type
<1> QED
  BY <1>1, InvHolds, PTL

\* Stops and continuations do not stretch the budgets of iterations,
\* evaluations and worker calls.
THEOREM BudgetsSpanSegmentsHolds == Spec => []BudgetsSpanSegments
<1>1. Inv => BudgetsSpanSegments
  <2> SUFFICES ASSUME Inv PROVE BudgetsSpanSegments
    OBVIOUS
  <2>1. Cardinality(Reserved) <= IterationLimit
    BY LimitsAssumption DEF Inv, Typed, Counted
  <2>2. \A w \in Workers : Cardinality(Called(history, w)) <= CallLimit
    BY LimitsAssumption DEF Inv, Typed, Counted
  <2> QED
    BY <2>1, <2>2 DEF Inv, Counted, Settled, BudgetsSpanSegments, Reserved, Evaluated, Called
<1> QED
  BY <1>1, InvHolds, PTL

-----------------------------------------------------------------------------
(* What continuation and history read from the events.                     *)

HasNewest(h, types) ==
  Of(h, types) # {} => \E k \in Of(h, types) : \A j \in Of(h, types) : j <= k

Attempted(h) == {h[k].attempt : k \in Of(h, {"execution_reserved"})}
Answered(h) == {h[k].attempt : k \in Of(h, {"execution_outcome"})}

\* Every question a reader asks of the events, the summary answers.
Readable ==
  /\ HasNewest(history, {"evaluation_failed"}) /\ HasNewest(history, {"run_stopped"})
  /\ ledger.pendingFailure \in BOOLEAN
  /\ ledger.pendingFailure <=> recoveryRequired(history)
  /\ ledger.segment = 1 + Cardinality(Of(history, {"run_resumed"}))
  /\ Len(history) = 0 => ledger.status = "active"
  /\ Len(history) # 0 => ledger.status = EventStatus(history[Len(history)])
  /\ ledger.reserved = Attempted(history)
  /\ ledger.open = ledger.reserved \ Answered(history)
  /\ Answered(history) \subseteq ledger.reserved
  /\ uncertain(history) # {} => ledger.status = "blocked"
  /\ ledger.status = "stopped" => ledger.open = {}

LEMMA NewestIs ==
  ASSUME NEW h \in Seq(AnyEvent), NEW types, HasNewest(h, types)
  PROVE  /\ Of(h, types) = {} => Newest(h, types) = 0
         /\ Of(h, types) # {} => /\ Newest(h, types) \in Of(h, types)
                                 /\ \A j \in Of(h, types) : j <= Newest(h, types)
  BY DEF HasNewest, Newest

LEMMA NewestAppended ==
  ASSUME NEW h \in Seq(AnyEvent), NEW e \in AnyEvent, NEW types, HasNewest(h, types)
  PROVE  HasNewest(Append(h, e), types)
<1>1. /\ Of(h, types) \subseteq 1..Len(h) /\ Len(h) \in Nat
      /\ Of(Append(h, e), types) =
           Of(h, types) \cup (IF e.type \in types THEN {Len(h) + 1} ELSE {})
  BY OfAppended
<1>2. CASE e.type \in types
  <2>1. \A j \in Of(Append(h, e), types) : j <= Len(h) + 1
    BY <1>1, <1>2
  <2> QED
    BY <1>1, <1>2, <2>1 DEF HasNewest
<1>3. CASE e.type \notin types
  BY <1>1, <1>3 DEF HasNewest
<1> QED
  BY <1>2, <1>3

\* The newest failure is settled by a completed evaluation only.
LEMMA RecoveryAppended ==
  ASSUME NEW h \in Seq(AnyEvent), NEW e \in AnyEvent, HasNewest(h, {"evaluation_failed"})
  PROVE  recoveryRequired(Append(h, e)) <=>
           \/ e.type = "evaluation_failed"
           \/ recoveryRequired(h) /\ e.type # "evaluation_completed"
<1> DEFINE g == Append(h, e)
<1> DEFINE Failures(s) == Of(s, {"evaluation_failed"})
<1> DEFINE Completions(s) == Of(s, {"evaluation_completed"})
<1>1. /\ Len(h) \in Nat /\ g \in Seq(AnyEvent)
      /\ Failures(h) \subseteq 1..Len(h) /\ Completions(h) \subseteq 1..Len(h)
      /\ Failures(g) = Failures(h) \cup (IF e.type = "evaluation_failed" THEN {Len(h) + 1} ELSE {})
      /\ Completions(g) = Completions(h) \cup (IF e.type = "evaluation_completed" THEN {Len(h) + 1} ELSE {})
  <2>1. \A types : /\ Of(h, types) \subseteq 1..Len(h)
                   /\ Of(g, types) = Of(h, types) \cup (IF e.type \in types THEN {Len(h) + 1} ELSE {})
    BY OfAppended
  <2> QED
    BY <2>1, Appended
<1>2. /\ Failures(h) = {} => Newest(h, {"evaluation_failed"}) = 0
      /\ Failures(h) # {} => /\ Newest(h, {"evaluation_failed"}) \in Failures(h)
                             /\ \A j \in Failures(h) : j <= Newest(h, {"evaluation_failed"})
  BY NewestIs
<1>3. /\ Failures(g) = {} => Newest(g, {"evaluation_failed"}) = 0
      /\ Failures(g) # {} => /\ Newest(g, {"evaluation_failed"}) \in Failures(g)
                             /\ \A j \in Failures(g) : j <= Newest(g, {"evaluation_failed"})
  BY <1>1, NewestIs, NewestAppended
<1>4. \A s : recoveryRequired(s) <=>
             /\ Newest(s, {"evaluation_failed"}) # 0
             /\ \A k \in Completions(s) : k < Newest(s, {"evaluation_failed"})
  BY DEF recoveryRequired
<1> HIDE DEF g, Failures, Completions
<1>5. CASE e.type = "evaluation_failed"
  <2>1. Len(h) + 1 \in Failures(g) /\ \A j \in Failures(g) : j \in 1..(Len(h) + 1)
    BY <1>1, <1>5
  <2>2. Newest(g, {"evaluation_failed"}) \in 1..(Len(h) + 1)
    BY <1>3, <2>1
  <2>3. Len(h) + 1 <= Newest(g, {"evaluation_failed"})
    BY <1>3, <2>1
  <2>4. Newest(g, {"evaluation_failed"}) = Len(h) + 1
    BY <1>1, <2>2, <2>3
  <2>5. \A k \in Completions(g) : k < Len(h) + 1
    BY <1>1, <1>5
  <2>6. recoveryRequired(g)
    BY <1>1, <1>4, <2>4, <2>5
  <2> QED
    BY <1>5, <2>6 DEF g
<1>6. CASE e.type = "evaluation_completed"
  <2>1. Failures(g) = Failures(h) /\ Len(h) + 1 \in Completions(g)
    BY <1>1, <1>6
  <2>2. ~recoveryRequired(g)
    BY <1>1, <1>3, <1>4, <2>1
  <2> QED
    BY <1>6, <2>2 DEF g
<1>7. CASE e.type \notin {"evaluation_failed", "evaluation_completed"}
  <2>1. Failures(g) = Failures(h) /\ Completions(g) = Completions(h)
    BY <1>1, <1>7
  <2>2. Newest(g, {"evaluation_failed"}) = Newest(h, {"evaluation_failed"})
    BY <1>1, <1>2, <1>3, <2>1
  <2>3. recoveryRequired(g) <=> recoveryRequired(h)
    BY <1>4, <2>1, <2>2
  <2> QED
    BY <1>7, <2>3 DEF g
<1> QED
  BY <1>5, <1>6, <1>7

LEMMA AttemptsAppended ==
  ASSUME NEW h \in Seq(AnyEvent), NEW e \in AnyEvent
  PROVE  /\ Attempted(Append(h, e)) =
              Attempted(h) \cup (IF e.type = "execution_reserved" THEN {e.attempt} ELSE {})
         /\ Answered(Append(h, e)) =
              Answered(h) \cup (IF e.type = "execution_outcome" THEN {e.attempt} ELSE {})
         /\ uncertain(Append(h, e)) # {} =>
              \/ uncertain(h) # {}
              \/ e.type = "execution_outcome" /\ e.outcome = "uncertain"
<1> DEFINE g == Append(h, e)
<1>1. \A types : /\ Of(h, types) \subseteq 1..Len(h)
                 /\ Of(g, types) = Of(h, types) \cup (IF e.type \in types THEN {Len(h) + 1} ELSE {})
  BY OfAppended
<1>2. (\A k \in 1..Len(h) : g[k] = h[k]) /\ g[Len(h) + 1] = e
  BY Appended
<1> HIDE DEF g
<1>3. Attempted(g) = Attempted(h) \cup (IF e.type = "execution_reserved" THEN {e.attempt} ELSE {})
  BY <1>1, <1>2 DEF Attempted
<1>4. Answered(g) = Answered(h) \cup (IF e.type = "execution_outcome" THEN {e.attempt} ELSE {})
  BY <1>1, <1>2 DEF Answered
<1>5. uncertain(g) # {} =>
        uncertain(h) # {} \/ (e.type = "execution_outcome" /\ e.outcome = "uncertain")
  BY <1>1, <1>2 DEF uncertain
<1> QED
  BY <1>3, <1>4, <1>5 DEF g

LEMMA ReadableInit == Init => Readable
<1> SUFFICES ASSUME Init PROVE Readable
  OBVIOUS
<1>1. history = <<>> /\ Len(history) = 0 /\ \A types : Of(history, types) = {}
  BY DEF Init, Of
<1>2. HasNewest(history, {"evaluation_failed"}) /\ HasNewest(history, {"run_stopped"})
  BY <1>1 DEF HasNewest
<1>3. ~recoveryRequired(history)
  BY <1>1 DEF recoveryRequired, Newest
<1>4. Cardinality(Of(history, {"run_resumed"})) = 0
  BY <1>1, FS_EmptySet
<1>5. Attempted(history) = {} /\ Answered(history) = {} /\ uncertain(history) = {}
  BY <1>1 DEF Attempted, Answered, uncertain
<1> QED
  BY <1>1, <1>2, <1>3, <1>4, <1>5 DEF Readable, Init, Created

LEMMA ReadableStep ==
  ASSUME Typed, Readable, NEW e, Accepted(e)
  PROVE  Readable'
<1> DEFINE n == Len(history)
<1>0. /\ n \in Nat /\ history \in Seq(AnyEvent) /\ e \in AnyEvent
      /\ history' = Append(history, e) /\ Len(history') = n + 1 /\ history'[n + 1] = e
  BY Appended DEF Typed, Accepted
<1>1. HasNewest(history', {"evaluation_failed"}) /\ HasNewest(history', {"run_stopped"})
  BY <1>0, NewestAppended DEF Readable
<1>2. ledger'.pendingFailure \in BOOLEAN
  BY DEF Accepted, Apply, PendingFailureAfter
<1>3. ledger'.pendingFailure <=> recoveryRequired(history')
  <2>1. recoveryRequired(history') <=>
          \/ e.type = "evaluation_failed"
          \/ recoveryRequired(history) /\ e.type # "evaluation_completed"
    BY <1>0, RecoveryAppended DEF Readable
  <2>2. ledger'.pendingFailure <=>
          \/ e.type = "evaluation_failed"
          \/ ledger.pendingFailure /\ e.type # "evaluation_completed"
    BY DEF Accepted, Apply, PendingFailureAfter
  <2> QED
    BY <2>1, <2>2 DEF Readable
<1>4. ledger'.segment = 1 + Cardinality(Of(history', {"run_resumed"}))
  <2>1. /\ Of(history, {"run_resumed"}) \subseteq 1..n
        /\ Of(history', {"run_resumed"}) =
             Of(history, {"run_resumed"}) \cup (IF e.type = "run_resumed" THEN {n + 1} ELSE {})
    BY <1>0, OfAppended
  <2>2. /\ Cardinality(Of(history, {"run_resumed"})) \in Nat
        /\ Cardinality(Of(history, {"run_resumed"}) \cup {n + 1}) =
             Cardinality(Of(history, {"run_resumed"})) + 1
    BY <1>0, <2>1, Grown
  <2>3. e.type = "run_resumed" => e.segment = ledger.segment + 1
    BY DEF Accepted, ValidNext, ResumeRule, IterationRule, EvaluationRule, ApprovalRule,
           ReservationRule, OutcomeRule, ClarificationRule, StopRule, FinishRule, LimitRule
  <2>4. ledger'.segment = IF e.type = "run_resumed" THEN e.segment ELSE ledger.segment
    BY DEF Accepted, Apply
  <2>5. CASE e.type = "run_resumed"
    <3> DEFINE c == Cardinality(Of(history, {"run_resumed"}))
    <3>1. c \in Nat /\ Cardinality(Of(history', {"run_resumed"})) = c + 1
      BY <2>1, <2>2, <2>5
    <3>2. ledger.segment = 1 + c /\ ledger'.segment = ledger.segment + 1
      BY <2>3, <2>4, <2>5 DEF Readable
    <3> QED
      BY <3>1, <3>2
  <2>6. CASE e.type # "run_resumed"
    BY <2>1, <2>4, <2>6 DEF Readable
  <2> QED
    BY <2>5, <2>6
<1>5. Len(history') # 0 /\ ledger'.status = EventStatus(history'[Len(history')])
  BY <1>0 DEF Accepted, Apply
<1>6. /\ Attempted(history') =
           Attempted(history) \cup (IF e.type = "execution_reserved" THEN {e.attempt} ELSE {})
      /\ Answered(history') =
           Answered(history) \cup (IF e.type = "execution_outcome" THEN {e.attempt} ELSE {})
      /\ uncertain(history') # {} =>
           \/ uncertain(history) # {}
           \/ e.type = "execution_outcome" /\ e.outcome = "uncertain"
  BY <1>0, AttemptsAppended
<1>7. /\ e.type = "execution_outcome" => e.attempt \in ledger.open
      /\ e.type = "execution_reserved" => e.attempt \notin ledger.reserved
      /\ e.type = "run_stopped" /\ e.resumable => ledger.open = {}
  BY DEF Accepted, ValidNext, ResumeRule, IterationRule, EvaluationRule, ApprovalRule,
         ReservationRule, OutcomeRule, ClarificationRule, StopRule, FinishRule, LimitRule
<1>8. /\ ledger'.reserved = ledger.reserved \cup
           (IF e.type = "execution_reserved" THEN {e.attempt} ELSE {})
      /\ e.type = "execution_reserved" => ledger'.open = ledger.open \cup {e.attempt}
      /\ e.type = "execution_outcome" => ledger'.open = ledger.open \ {e.attempt}
      /\ e.type \notin {"execution_reserved", "execution_outcome"} => ledger'.open = ledger.open
  BY DEF Accepted, Apply, OpenAfter
<1>9. ledger'.reserved = Attempted(history')
  BY <1>6, <1>8 DEF Readable
<1>10. ledger'.open = ledger'.reserved \ Answered(history') /\ Answered(history') \subseteq ledger'.reserved
  <2>1. CASE e.type = "execution_reserved"
    BY <2>1, <1>6, <1>7, <1>8 DEF Readable
  <2>2. CASE e.type = "execution_outcome"
    BY <2>2, <1>6, <1>7, <1>8 DEF Readable
  <2>3. CASE e.type \notin {"execution_reserved", "execution_outcome"}
    BY <2>3, <1>6, <1>8 DEF Readable
  <2> QED
    BY <2>1, <2>2, <2>3
<1>11. uncertain(history') # {} => ledger'.status = "blocked"
  <2>1. uncertain(history) = {}
    BY DEF Readable, Accepted, Terminal
  <2> QED
    BY <1>6, <2>1 DEF Accepted, Apply, EventStatus
<1>12. ledger'.status = "stopped" => ledger'.open = {}
  <2>1. ledger'.status = "stopped" => e.type = "run_stopped" /\ e.resumable
    BY DEF Accepted, Apply, EventStatus
  <2> QED
    BY <1>7, <1>8, <2>1
<1> QED
  BY <1>1, <1>2, <1>3, <1>4, <1>5, <1>9, <1>10, <1>11, <1>12 DEF Readable

\* A record without blockers is one that ends in a resumable stop.
LEMMA NoBlockers ==
  ASSUME Typed, Counted, Readable
  PROVE  /\ blockers(ledger.status, history, {}) = {} <=>
              ledger.status = "stopped" /\ iterationsUsed(history) < IterationLimit
         /\ resumePosition(ledger.status, history) # NoPosition <=>
              ledger.status = "stopped" /\ iterationsUsed(history) < IterationLimit
         /\ ledger.status = "stopped" /\ iterationsUsed(history) < IterationLimit =>
              resumePosition(ledger.status, history) =
                [nextIteration    |-> iterationsUsed(history) + 1,
                 segment          |-> 2 + Cardinality(Of(history, {"run_resumed"})),
                 recoveryRequired |-> recoveryRequired(history)]
<1> DEFINE n == Len(history)
<1> DEFINE used == iterationsUsed(history)
<1> DEFINE stop == Newest(history, {"run_stopped"})
<1> USE LimitsAssumption
<1>0. n \in Nat /\ history \in Seq(AnyEvent) /\ DOMAIN history = 1..n
  BY DEF Typed
<1>1. used = ledger.lastIteration /\ used \in 0..IterationLimit
  BY DEF Typed, Counted, iterationsUsed, Reserved
<1>2. ledger.status # "active" => n # 0 /\ ledger.status = EventStatus(history[n])
  BY DEF Readable
<1>3. ledger.status = "stopped" =>
        n # 0 /\ history[n].type = "run_stopped" /\ history[n].resumable
  BY <1>2 DEF EventStatus
<1>4. n # 0 /\ history[n].type = "run_stopped" => stop = n
  <2> SUFFICES ASSUME n # 0, history[n].type = "run_stopped" PROVE stop = n
    OBVIOUS
  <2>1. n \in Of(history, {"run_stopped"}) /\ Of(history, {"run_stopped"}) \subseteq 1..n
    BY <1>0 DEF Of
  <2>2. stop \in Of(history, {"run_stopped"}) /\ n <= stop
    BY <1>0, <2>1, NewestIs DEF Readable
  <2> QED
    BY <1>0, <2>1, <2>2
<1>5. ledger.status = "blocked" =>
        \/ n # 0 /\ history[n].type = "run_blocked"
        \/ stop # 0 /\ ~history[stop].resumable
        \/ uncertain(history) # {}
  <2> SUFFICES ASSUME ledger.status = "blocked", history[n].type # "run_blocked",
                      uncertain(history) = {}
      PROVE  stop # 0 /\ ~history[stop].resumable
    BY <1>2
  <2>1. n \in 1..n
    BY <1>0, <1>2
  <2>2. history[n].type = "execution_outcome" => history[n].outcome # "uncertain"
    BY <1>0, <2>1 DEF uncertain, Of
  <2>3. history[n].type = "run_stopped" /\ ~history[n].resumable
    BY <1>2, <2>2 DEF EventStatus
  <2> QED
    BY <1>4, <2>1, <2>3
<1>6. ledger.status = "stopped" => unresolved(history) = {}
  <2> SUFFICES ASSUME ledger.status = "stopped",
                      NEW k \in Of(history, {"execution_reserved"}),
                      Outcome(history, history[k].attempt) = {}
      PROVE  FALSE
    BY DEF unresolved
  <2>1. history[k].attempt \in ledger.reserved
    BY DEF Readable, Attempted
  <2>2. history[k].attempt \notin Answered(history)
    BY DEF Outcome, Answered
  <2> QED
    BY <2>1, <2>2 DEF Readable
<1>7. ledger.status = "stopped" => uncertain(history) = {}
  BY DEF Readable
<1>8. blockers(ledger.status, history, {}) = {} <=>
        /\ ledger.status # "finished"
        /\ ~(ledger.status = "iteration_limit" \/ used = IterationLimit)
        /\ ledger.status \notin {"active", "evaluation_failed"}
        /\ ~(n # 0 /\ history[n].type = "run_blocked")
        /\ ~(stop # 0 /\ ~history[stop].resumable /\ ledger.status = "blocked")
        /\ unresolved(history) = {}
        /\ uncertain(history) = {}
  BY DEF blockers
<1>9. ledger.status \in Statuses
  BY DEF Typed
<1>10. blockers(ledger.status, history, {}) = {} <=>
         ledger.status = "stopped" /\ used < IterationLimit
  <2>1. ASSUME ledger.status = "stopped", used < IterationLimit
        PROVE  blockers(ledger.status, history, {}) = {}
    BY <2>1, <1>1, <1>3, <1>6, <1>7, <1>8
  <2>2. ASSUME blockers(ledger.status, history, {}) = {}
        PROVE  ledger.status = "stopped" /\ used < IterationLimit
    BY <2>2, <1>1, <1>5, <1>8, <1>9 DEF Statuses, Terminal
  <2> QED
    BY <2>1, <2>2
<1>11. resumePosition(ledger.status, history) =
         IF ledger.status = "stopped" /\ used < IterationLimit
         THEN [nextIteration    |-> used + 1,
               segment          |-> 2 + Cardinality(Of(history, {"run_resumed"})),
               recoveryRequired |-> recoveryRequired(history)]
         ELSE NoPosition
  BY <1>3 DEF resumePosition
<1>12. used < IterationLimit =>
         [nextIteration    |-> used + 1,
          segment          |-> 2 + Cardinality(Of(history, {"run_resumed"})),
          recoveryRequired |-> recoveryRequired(history)] # NoPosition
  BY <1>1 DEF NoPosition
<1> QED
  BY <1>10, <1>11, <1>12

\* The two readings agree in every record that satisfies the invariants.
LEMMA ReadersAgree ==
  ASSUME Typed, Counted, Readable
  PROVE  ReviewMatchesRecord
<1> DEFINE position == resumePosition(ledger.status, history)
<1> DEFINE resumed == RunResumed(position.segment, position.recoveryRequired)
<1> USE LimitsAssumption
<1>1. blockers(ledger.status, history, {}) = {} <=> position # NoPosition
  BY NoBlockers
<1>2. ASSUME position # NoPosition
      PROVE  /\ ledger.status = "stopped"
             /\ position.nextIteration = ledger.lastIteration + 1
             /\ ledger.lastIteration < IterationLimit
             /\ position.segment = ledger.segment + 1
             /\ position.recoveryRequired = recoveryRequired(history)
  <2>1. /\ ledger.status = "stopped" /\ iterationsUsed(history) < IterationLimit
        /\ position = [nextIteration    |-> iterationsUsed(history) + 1,
                       segment          |-> 2 + Cardinality(Of(history, {"run_resumed"})),
                       recoveryRequired |-> recoveryRequired(history)]
    BY <1>2, NoBlockers
  <2>2. iterationsUsed(history) = ledger.lastIteration
    BY DEF Counted, iterationsUsed, Reserved
  <2>3. Cardinality(Of(history, {"run_resumed"})) \in Nat
    <3>1. Len(history) \in Nat /\ Of(history, {"run_resumed"}) \in SUBSET (1..Len(history))
      BY DEF Typed, Of
    <3> QED
      BY <3>1, Grown
  <2>4. ledger.segment = 1 + Cardinality(Of(history, {"run_resumed"}))
    BY DEF Readable
  <2> QED
    BY <2>1, <2>2, <2>3, <2>4
<1>3. recoveryRequired(history) = ledger.pendingFailure
  <2>1. recoveryRequired(history) \in BOOLEAN
    BY DEF recoveryRequired
  <2> QED
    BY <2>1 DEF Readable
<1> HIDE DEF position
<1>4. ASSUME position # NoPosition, HasRoom(ledger)
      PROVE  /\ AppendGuard(ledger, resumed, FALSE) /\ ValidNext(ledger, resumed, FALSE)
             /\ ValidNext(Apply(ledger, resumed), IterationReserved(position.nextIteration), FALSE)
  <2>1. /\ resumed.type = "run_resumed" /\ resumed.segment = ledger.segment + 1
        /\ resumed.recovery = ledger.pendingFailure
    BY <1>2, <1>3, <1>4 DEF RunResumed
  <2>2. ledger.status = "stopped" /\ ledger.open = {}
    BY <1>2, <1>4 DEF Readable
  <2> HIDE DEF resumed
  <2>3. AppendGuard(ledger, resumed, FALSE)
    BY <1>4, <2>1, <2>2 DEF AppendGuard, Terminal
  <2>4. ValidNext(ledger, resumed, FALSE)
    BY <2>1, <2>2 DEF ValidNext, ResumeRule, Terminal
  <2>5. /\ Apply(ledger, resumed).status = "active"
        /\ Apply(ledger, resumed).lastIteration = ledger.lastIteration
    BY <2>1 DEF Apply, EventStatus, LastIterationAfter
  <2>6. ValidNext(Apply(ledger, resumed), IterationReserved(position.nextIteration), FALSE)
    <3> DEFINE L == Apply(ledger, resumed)
    <3> DEFINE again == IterationReserved(position.nextIteration)
    <3>1. again.type = "iteration_reserved" /\ again.iteration = position.nextIteration
      BY DEF IterationReserved
    <3>2. position.nextIteration = L.lastIteration + 1 /\ position.nextIteration <= IterationLimit
      BY <1>2, <1>4, <2>5 DEF Typed
    <3>3. L.status = "active"
      BY <2>5
    <3> HIDE DEF L, again
    <3>4. IterationRule(L, again)
      BY <3>1, <3>2, <3>3 DEF IterationRule
    <3>5. ValidNext(L, again, FALSE)
      BY <3>3, <3>4 DEF ValidNext, Terminal
    <3> QED
      BY <3>5 DEF L, again
  <2> QED
    BY <2>3, <2>4, <2>6
<1>5. savedWorkerUsage(history) = ledger.calls
  BY DEF savedWorkerUsage, Typed, Counted, Called
<1> QED
  BY <1>1, <1>3, <1>4, <1>5 DEF ReviewMatchesRecord, position

\* What --list-runs and --show-run say of a record, what a continuation is
\* built on, and what the store accepts are the same for every history.
THEOREM ReviewMatchesRecordHolds == Spec => []ReviewMatchesRecord
<1>1. Init => Readable
  BY ReadableInit
<1>2. Inv /\ Readable /\ [Next]_vars => Readable'
  <2>1. ASSUME Inv, Readable, Next PROVE Readable'
    <3>1. PICK e : Accepted(e)
      BY <2>1, StepAccepts DEF Inv
    <3> QED
      BY <2>1, <3>1, ReadableStep DEF Inv
  <2>2. ASSUME Readable, UNCHANGED vars PROVE Readable'
    BY <2>2 DEF vars, Readable
  <2> QED
    BY <2>1, <2>2
<1>3. Inv /\ Readable => ReviewMatchesRecord
  BY ReadersAgree DEF Inv
<1> QED
  BY <1>1, <1>2, <1>3, InvHolds, PTL DEF Spec

=============================================================================

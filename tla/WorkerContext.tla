--------------------------- MODULE WorkerContext ---------------------------
(***************************************************************************)
(* The evidence packet of a worker call (src/src/agents/context.ts): built *)
(* from the agent state when the call is proposed, shown for approval, and *)
(* checked again when the prompt is rendered.                              *)
(*                                                                         *)
(* A text is its length and the factor by which JSON escaping makes it     *)
(* longer; redaction and the wording are left out.  Everything the packet  *)
(* always holds (goal, counters, issue title, script, ...) is its header.  *)
(* Lengths are in units of 250 characters where the code has the numbers   *)
(* below.                                                                  *)
(***************************************************************************)
EXTENDS Naturals, FiniteSetsExt, SequencesExt

CONSTANTS
  MaxContext,    \* MAX_WORKER_CONTEXT_LENGTH: 6,000 characters
  MaxExcerpt,    \* MAX_WORKER_EXCERPT_LENGTH: 1,000
  MaxIssueBody,  \* 1,800
  MaxSummary,    \* 500: the summaries of the previous worker and of failures
  MaxItems,      \* MAX_WORKER_CONTEXT_ITEMS: 8
  MaxIteration   \* 8, in isIteration

ASSUME ContextAssumption ==
  {MaxContext, MaxExcerpt, MaxIssueBody, MaxSummary, MaxItems, MaxIteration} \subseteq Nat \ {0}

\* The texts and the lists of the packet.  A clarification is in both: the
\* latest is a text, the others are a list.
Texts == {"latest", "validation", "issue", "worker"}
Lists == {"files", "findings", "clarifications", "failures"}

TextLimit == [latest |-> MaxExcerpt, validation |-> MaxExcerpt,
              issue |-> MaxIssueBody, worker |-> MaxSummary]

NoText == [length |-> 0, escape |-> 1]

\* What fits looks at: the length of the serialized packet.
Serialized(text) == text.length * text.escape

Total(sizes) ==
  LET upto[k \in 0..Len(sizes)] == IF k = 0 THEN 0 ELSE upto[k - 1] + sizes[k]
  IN  upto[Len(sizes)]

TextLength(context) ==
  Serialized(context.latest) + Serialized(context.validation)
  + Serialized(context.issue) + Serialized(context.worker)
ListLength(context) ==
  Total(context.files) + Total(context.findings)
  + Total(context.clarifications) + Total(context.failures)
Length(context) == context.header + TextLength(context) + ListLength(context)
fits(context) == Length(context) <= MaxContext

\* addText: the longest prefix within the limit of the field, within twice
\* that limit once serialized, and within the packet.
addText(context, t, text) ==
  LET admitted == {n \in 0..Min({text.length, TextLimit[t]}) :
                     /\ n * text.escape <= 2 * TextLimit[t]
                     /\ fits([context EXCEPT ![t] = [text EXCEPT !.length = n]])}
  IN  [context EXCEPT ![t] = [text EXCEPT !.length = Max(admitted \cup {0})],
                      !.truncated = @ \/ text.length \notin admitted]

\* One more item than the packet may hold.
recent_Bug(items) == Reverse(SubSeq(items, Max({1, Len(items) - MaxItems}), Len(items)))

\* The most recent items, the latest first.
recent(items) == Reverse(SubSeq(items, Max({1, Len(items) - MaxItems + 1}), Len(items)))

\* An item that does not fit is left out; a smaller, older one may still fit.
addItem(context, l, size) ==
  LET next == [context EXCEPT ![l] = Append(@, size)]
  IN  IF fits(next) THEN next ELSE [context EXCEPT !.truncated = TRUE]

addItems(context, l, items) ==
  LET after[k \in 0..Len(items)] ==
        IF k = 0 THEN context ELSE addItem(after[k - 1], l, items[k])
  IN  after[Len(items)]

\* The modified files of the worker keep the order of git status, and the
\* latest clarification is not in the list.
Candidates(evidence, l) ==
  CASE l = "files" -> SubSeq(evidence.files, 1, Min({Len(evidence.files), MaxItems}))
    [] l = "clarifications" -> SubSeq(recent(evidence[l]), 2, Len(recent(evidence[l])))
    [] OTHER -> recent(evidence[l])

\* buildWorkerContext: texts and lists in the order of their priority.  Sizes of
\* list items are serialized lengths.
buildWorkerContext(evidence) ==
  LET empty == [generation |-> evidence.generation, header |-> evidence.header,
                latest |-> NoText, validation |-> NoText, issue |-> NoText, worker |-> NoText,
                files |-> <<>>, findings |-> <<>>, clarifications |-> <<>>, failures |-> <<>>,
                truncated |-> \E l \in {"clarifications", "findings", "failures"} :
                                Len(evidence[l]) > MaxItems]
      answered == addText(empty, "latest", evidence.latest)
      validated == addText(answered, "validation", evidence.validation)
      specified == addText(validated, "issue", evidence.issue)
      reported == addText(specified, "worker", evidence.worker)
      listed == addItems(reported, "files", Candidates(evidence, "files"))
      found == addItems(listed, "findings", Candidates(evidence, "findings"))
      clarified == addItems(found, "clarifications", Candidates(evidence, "clarifications"))
  IN  addItems(clarified, "failures", Candidates(evidence, "failures"))

\* assertWorkerContext: the packet is checked once more by the adapter.
assertWorkerContext(context) ==
  /\ fits(context)
  /\ context.generation <= MaxIteration
  /\ \A t \in Texts : context[t].length <= TextLimit[t]
  /\ \A l \in Lists :
       Len(context[l]) + (IF l = "clarifications" THEN 1 ELSE 0) <= MaxItems

\* An agent state: how long its texts and lists are.
TextType == [length : Nat, escape : Nat \ {0}]
EvidenceType ==
  [generation : Nat, header : Nat,
   latest : TextType, validation : TextType, issue : TextType, worker : TextType,
   files : Seq(Nat), findings : Seq(Nat), clarifications : Seq(Nat), failures : Seq(Nat)]

\* What the packet always holds leaves room for a long answer and for the first
\* character of the validation failure.  The code cuts goal, URL and title to 300
\* characters each and the nine script names, which JSON leaves as they are, to
\* 200; with the keys that is some 3,400 of the 3,994 characters there are.  So it
\* holds unless JSON makes the goal and the title together about twice as long.
HasRoom(evidence) ==
  /\ evidence.latest.escape <= 2 * MaxExcerpt /\ evidence.validation.escape <= 2 * MaxExcerpt
  /\ evidence.header + 2 * MaxExcerpt + evidence.validation.escape <= MaxContext

=============================================================================

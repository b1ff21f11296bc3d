---------------------------- MODULE WorkerOutput ----------------------------
(***************************************************************************)
(* createWorkerOutput (src/src/agents/output.ts): the JSON lines of a      *)
(* coding worker, read from the chunks in which its output arrives.        *)
(*                                                                         *)
(* Output is a sequence of symbols: "nl" is a newline, an event is a line  *)
(* of one symbol, and a line that holds anything else is not JSON.  Reports*)
(* carry the usage of the call ("usage") or one that normalizeWorkerUsage  *)
(* rejects ("unusable"); "plain" is text, and the only symbol that does not*)
(* begin with a brace.                                                     *)
(***************************************************************************)
EXTENDS Naturals, Sequences, FiniteSetsExt

CONSTANTS
  Messages,  \* symbols of events that carry a message
  MaxEvent   \* MAX_WORKER_EVENT_BYTES, in symbols

ASSUME OutputAssumption ==
  /\ MaxEvent \in Nat \ {0}
  /\ Messages \cap {"usage", "unusable", "plain", "nl", "none"} = {}

Reports == {"usage", "unusable"}
Symbols == Messages \cup Reports \cup {"plain", "nl"}

NewOutput == [pending |-> <<>>, dropping |-> FALSE, structured |-> FALSE,
              message |-> "none", usage |-> FALSE, reports |-> 0]

\* line(text).  The final event of Claude is a message and a report at once.
ReadLine(agent, out, text) ==
  LET event == text[1]
  IN  IF Len(text) # 1 \/ event = "plain" THEN out
      ELSE [out EXCEPT
             !.structured = TRUE,
             !.message = IF event \in Messages \/ (agent = "CALL_CLAUDE" /\ event \in Reports)
                         THEN event ELSE @,
             !.usage = IF event \in Reports THEN event = "usage" ELSE @,
             !.reports = IF event \in Reports THEN @ + 1 ELSE @]

\* The rest of an overlong line is read as a line of its own.
TakePart_Bug(out, part) ==
  IF Len(out.pending) + Len(part) > MaxEvent THEN [out EXCEPT !.pending = <<>>]
  ELSE [out EXCEPT !.pending = @ \o part]

\* A part of a line; a line above the limit is dropped up to its newline.
TakePart(out, part) ==
  CASE out.dropping -> out
    [] ~out.dropping /\ Len(out.pending) + Len(part) > MaxEvent ->
         [out EXCEPT !.pending = <<>>, !.dropping = TRUE]
    [] OTHER -> [out EXCEPT !.pending = @ \o part]

EndLine(agent, out) ==
  LET read == IF out.dropping \/ out.pending = <<>> THEN out
              ELSE ReadLine(agent, out, out.pending)
  IN  [read EXCEPT !.pending = <<>>, !.dropping = FALSE]

\* The text between newlines; the last part is what follows the last newline.
LineParts(text) ==
  LET breaks == {i \in DOMAIN text : text[i] = "nl"} \cup {0, Len(text) + 1}
      At(k) == CHOOSE i \in breaks : Cardinality({j \in breaks : j < i}) = k
  IN  [k \in 1..(Cardinality(breaks) - 1) |-> SubSeq(text, At(k - 1) + 1, At(k) - 1)]

\* consume(text)
Consume(agent, out, text) ==
  LET parts == LineParts(text)
      after[k \in 0..(Len(parts) - 1)] ==
        IF k = 0 THEN out ELSE EndLine(agent, TakePart(after[k - 1], parts[k]))
  IN  TakePart(after[Len(parts) - 1], parts[Len(parts)])

\* fallback.trimStart() begins with a brace.
LooksStructured(text) ==
  \E i \in DOMAIN text : text[i] \notin {"plain", "nl"} /\ \A j \in 1..(i - 1) : text[j] = "nl"

\* The message kept for the worker's evidence, or the retained output itself
\* when it has no event and does not look like one.
FinishedText(out, text) ==
  IF out.structured \/ LooksStructured(text) THEN out.message ELSE "raw"

\* finish(fallback): usage is known only if there was exactly one report.
FinishOutput(agent, out, text) ==
  LET read == EndLine(agent, out)
  IN  [text |-> FinishedText(read, text), usage |-> read.reports = 1 /\ read.usage]

\* The reference: what the lines within the limit say, read from the whole
\* output at once.
WholeOutput(agent, text) ==
  LET events == {k \in DOMAIN LineParts(text) : Len(LineParts(text)[k]) = 1}
      Event(k) == LineParts(text)[k][1]
      reports == {k \in events : Event(k) \in Reports}
      texts == {k \in events : Event(k) \in Messages} \cup
               (IF agent = "CALL_CLAUDE" THEN reports ELSE {})
      structured == LooksStructured(text) \/ \E k \in events : Event(k) # "plain"
  IN  [text |-> IF texts # {} THEN Event(Max(texts))
                ELSE IF structured THEN "none" ELSE "raw",
       usage |-> \E k \in reports : reports = {k} /\ Event(k) = "usage"]

=============================================================================

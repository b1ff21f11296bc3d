--------------------------- MODULE MCToolExecution ---------------------------
(* Bounds for TLC.  The packet holds 24 units of 250 characters as in the    *)
(* code; lists have two items instead of eight and generations end at two.   *)
(* A line holds one symbol.  The outputs have reports that are repeated or    *)
(* unusable, events after an overlong line, overlong lines cut into chunks,  *)
(* last lines without a newline, and text that is or looks like no event; a  *)
(* worker that is killed leaves any prefix of them.                          *)
EXTENDS ToolExecution

MCMessages == {"done"}

MCOutputs ==
  { <<"usage", "nl", "usage", "nl">>, <<"usage", "nl", "unusable">>, <<"unusable", "nl", "usage">>,
    <<"done", "nl", "plain", "nl", "usage">>, <<"plain", "usage", "usage", "nl", "usage">>,
    <<"plain", "nl", "done", "done">>, <<"nl", "done", "done">>, <<"usage", "plain", "nl", "done">> }

Long == {[length |-> n, escape |-> e] : n \in {2, 7}, e \in {1, 4}}
Optional(texts) == {NoText} \cup texts

\* The texts compete with each other, and then the lists with what they left.
MCEvidence ==
  {[generation |-> g, header |-> h, latest |-> a, validation |-> v, issue |-> i, worker |-> NoText,
    files |-> <<1>>, findings |-> <<>>, clarifications |-> <<a.length>>, failures |-> <<>>] :
     g \in {2, 3}, h \in {3, 12}, a \in Optional(Long), v \in Optional(Long), i \in Optional(Long)}
  \cup
  {[generation |-> 0, header |-> 3, latest |-> a, validation |-> NoText, issue |-> NoText,
    worker |-> w, files |-> <<1, 1, 1>>, findings |-> f, clarifications |-> <<c, 1, 4>>,
    failures |-> <<1, c, 2>>] :
     a \in Long, w \in Optional(Long), c \in {1, 9}, f \in {<<>>, <<9>>, <<9, 12>>, <<1, 9, 12>>}}
=============================================================================

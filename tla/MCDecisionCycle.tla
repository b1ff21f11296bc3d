--------------------------- MODULE MCDecisionCycle ---------------------------
(* "verify" runs "test" where both are declared; a worker may change what a *)
(* repository declares.                                                     *)
EXTENDS DecisionCycle
MCInstructions == <<"AGENTS.md">>
MCNone == <<>>
MCOther == <<"README.md">>
MCScripts == <<"verify", "test", "lint">>
MCCalls == [x \in ToSet(MCScripts) |-> IF x = "verify" THEN {"test"} ELSE {}]
MCTextScripts == [t \in {"use_test"} |-> {"test"}]
MCRepositories == {Snapshot({"verify", "test"}, TRUE), Snapshot({"verify", "lint"}, TRUE), Snapshot({}, FALSE)}
MCShrinking == {Snapshot({"verify", "test"}, TRUE), Snapshot({"test"}, TRUE)}
=============================================================================

----------------------------- MODULE AgentState -----------------------------
(***************************************************************************)
(* The state machine of one agent run (roos-orchestrator/src/state.rs).    *)
(* A transition maps a state to a state, or to Invalid where the code      *)
(* returns TransitionError.  The tool name that CallingTool carries is     *)
(* always "batch" and left out.                                            *)
(***************************************************************************)
EXTENDS Naturals

Idle == [name |-> "Idle", step |-> 0]
Reasoning(k) == [name |-> "Reasoning", step |-> k]
CallingTool(k) == [name |-> "CallingTool", step |-> k]
Observing(k) == [name |-> "Observing", step |-> k]
Finished == [name |-> "Finished", step |-> 0]
Failed == [name |-> "Failed", step |-> 0]
Invalid == [name |-> "TransitionError", step |-> 0]

Active == {"Reasoning", "CallingTool", "Observing"}

States == [name : Active, step : Nat] \cup {Idle, Finished, Failed}

IsTerminal(s) == s \in {Finished, Failed}

Start(s) == IF s = Idle THEN Reasoning(1) ELSE Invalid
CallTool(s) == IF s.name = "Reasoning" THEN CallingTool(s.step) ELSE Invalid
ToolDone(s) == IF s.name = "CallingTool" THEN Observing(s.step) ELSE Invalid

ContinueSameStep(s) == IF s.name = "Observing" THEN Reasoning(s.step) ELSE Invalid
ContinueReasoning(s) ==
    IF s.name = "Observing" THEN Reasoning(s.step + 1) ELSE Invalid

Finish(s) == IF s.name = "Reasoning" THEN Finished ELSE Invalid
Fail(s) == Failed

=============================================================================

---------------------------- MODULE MCSupervisor ----------------------------
(* Supervisor for TLC: two agents, "lead" and "hand". *)
EXTENDS Supervisor, TLC

CONSTANTS lead, hand

MCCalls == Runs \X (1 .. MaxSubtasks)

\* The application assigns to lead; a supervisor working as lead assigns to hand or to
\* its own agent, which closes a circle, and one working as hand to nobody.
MCDelegates == (lead :> {lead, hand}) @@ (hand :> {})

=============================================================================

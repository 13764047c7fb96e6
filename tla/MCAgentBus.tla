----------------------------- MODULE MCAgentBus -----------------------------
(* AgentBus with small sets for TLC. *)
EXTENDS AgentBus, TLC

\* Calls are interchangeable (safety runs only), channels and names are not.
CallSymmetry == Permutations(Calls)

=============================================================================

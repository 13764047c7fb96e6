--------------------------- MODULE MCRoosAgentBus ---------------------------
(***************************************************************************)
(* Both halves of RoosAgentBus for TLC.  They share no state: interleaving *)
(* them shows nothing that each alone does not, so a behaviour exercises   *)
(* one of them.                                                            *)
(***************************************************************************)
EXTENDS AgentBus, Topics

VARIABLE half

BusInit == Init /\ TopicInit /\ half \in {"agents", "topics"}

BusNext ==
    \/ half = "agents" /\ Next /\ UNCHANGED <<topicVars, half>>
    \/ half = "topics" /\ TopicNext /\ UNCHANGED <<vars, half>>

BusFairSpec ==
    /\ BusInit /\ [][BusNext]_<<vars, topicVars, half>>
    /\ Fairness

=============================================================================

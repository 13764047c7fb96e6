---------------------------- MODULE MCSledMemory ----------------------------
(* SledMemory for TLC: each client writes messages of its own. *)
EXTENDS SledMemory, TLC

CONSTANTS a, b

MCWrites == [c \in Clients |-> {c}]

=============================================================================

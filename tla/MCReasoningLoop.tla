-------------------------- MODULE MCReasoningLoop --------------------------
(* ReasoningLoop for TLC: r1 meets batches of two calls, r2 only empty ones. *)
EXTENDS ReasoningLoop, TLC

CONSTANTS r1, r2

MCMaxBatch == (r1 :> 2) @@ (r2 :> 0)

=============================================================================

------------------------- MODULE MCWorkflowOnRedis -------------------------
(***************************************************************************)
(* Two nodes side by side and one after them.                              *)
(***************************************************************************)
EXTENDS WorkflowOnRedis

Fork == {"a", "b", "c"}
ForkDependsOn == [n \in Fork |-> IF n = "c" THEN {"a", "b"} ELSE {}]
ForkPosition == [n \in Fork |-> CASE n = "a" -> 2 [] n = "b" -> 1 [] n = "c" -> 3]

\* Two attempts, as WorkflowNode has it by default.
ForkRetries == [n \in Fork |-> 1]
=============================================================================

-------------------------- MODULE MCWorkflowEngine --------------------------
(***************************************************************************)
(* Small graphs for WorkflowEngine.                                        *)
(***************************************************************************)
EXTENDS WorkflowEngine

CONSTANTS a, b, c, d, e

\* A diamond whose last node also depends on the first: two nodes run side
\* by side, and one dependency skips a wave.
Diamond == {a, b, c, d}
DiamondDependsOn ==
    [n \in Diamond |-> CASE n = a -> {} [] n \in {b, c} -> {a} [] n = d -> {a, b, c}]

\* The dict's order is not the order of the dependencies.
DiamondPosition ==
    [n \in Diamond |-> CASE n = d -> 1 [] n = c -> 2 [] n = b -> 3 [] n = a -> 4]

\* Two attempts, as WorkflowNode has it by default.
DiamondRetries == [n \in Diamond |-> 1]

\* Nodes b and c wait for one another and d for a name that is not a node;
\* only a and e can ever run.
Stuck == {a, b, c, d, e}
StuckDependsOn ==
    [n \in Stuck |-> CASE n \in {a, e} -> {}
                       [] n = b -> {a, c}
                       [] n = c -> {b}
                       [] n = d -> {a, "unknown"}]
StuckPosition ==
    [n \in Stuck |-> CASE n = a -> 1 [] n = b -> 2 [] n = c -> 3 [] n = d -> 4 [] n = e -> 5]
StuckRetries == [n \in Stuck |-> 1]
=============================================================================

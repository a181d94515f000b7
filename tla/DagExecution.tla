---------------------------- MODULE DagExecution ----------------------------
(***************************************************************************)
(* What a caller of WorkflowEngine.execute is promised, with nothing said  *)
(* of waves, retries, shared memory or events: a node is launched once,    *)
(* when everything it depends on has succeeded and nothing has broken; a   *)
(* launched node succeeds or breaks; the caller is told "success" when all *)
(* the nodes have succeeded, and "failure" only when no node it launched   *)
(* is still at work.                                                       *)
(***************************************************************************)
EXTENDS FiniteSets

CONSTANTS Nodes,        \* the nodes of the graph
          DependsOn     \* DependsOn[n]: the names node n depends on

VARIABLES launched,     \* nodes handed to the event loop
          succeeded,    \* nodes that ran to completion
          broken,       \* nodes that gave up
          outcome       \* what the caller has been told

vars == <<launched, succeeded, broken, outcome>>

Active == launched \ (succeeded \cup broken)

Init ==
    /\ launched = {}
    /\ succeeded = {}
    /\ broken = {}
    /\ outcome = "pending"

\* Several nodes may be launched at once, each for the first time.
Launch(batch) ==
    /\ outcome = "pending"
    /\ broken = {}
    /\ batch # {}
    /\ batch \cap launched = {}
    /\ \A n \in batch : DependsOn[n] \subseteq succeeded
    /\ launched' = launched \cup batch
    /\ UNCHANGED <<succeeded, broken, outcome>>

Succeed(n) ==
    /\ n \in Active
    /\ succeeded' = succeeded \cup {n}
    /\ UNCHANGED <<launched, broken, outcome>>

Break(n) ==
    /\ n \in Active
    /\ broken' = broken \cup {n}
    /\ UNCHANGED <<launched, succeeded, outcome>>

AnswerSuccess ==
    /\ outcome = "pending"
    /\ succeeded = Nodes
    /\ outcome' = "success"
    /\ UNCHANGED <<launched, succeeded, broken>>

\* A failure may be answered for any reason, but not over running nodes.
AnswerFailure ==
    /\ outcome = "pending"
    /\ Active = {}
    /\ outcome' = "failure"
    /\ UNCHANGED <<launched, succeeded, broken>>

Next ==
    \/ \E batch \in SUBSET Nodes : Launch(batch)
    \/ \E n \in Nodes : Succeed(n) \/ Break(n)
    \/ AnswerSuccess
    \/ AnswerFailure

Spec == Init /\ [][Next]_vars
=============================================================================

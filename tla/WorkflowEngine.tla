--------------------------- MODULE WorkflowEngine ---------------------------
(***************************************************************************)
(* WorkflowEngine.execute (app/orchestration/engine.py): the graph of      *)
(* agents is run wave by wave.  Each turn of the scheduling loop gathers   *)
(* one asyncio task per ready node and waits for all of them.  A task      *)
(* (_run_node) announces itself, then up to max_retries + 1 times reads    *)
(* the shared memory, runs its agent on what it read, writes the agent's   *)
(* output back and announces completion; an exception anywhere in that     *)
(* sequence starts the next attempt.  The tasks of a wave interleave at    *)
(* their awaits.                                                           *)
(*                                                                         *)
(* The shared memory is one workflow's record in Redis.  Its update is a   *)
(* single step here; SharedMemory.tla models the lock protocol behind it   *)
(* and AtomicMemory.tla states that it may be treated as one step.         *)
(***************************************************************************)
EXTENDS Naturals, FiniteSets

CONSTANTS
    Nodes,        \* the keys of WorkflowGraph.nodes
    DependsOn,    \* DependsOn[n]: WorkflowNode.depends_on, a set of names,
                  \* which need not be names of nodes
    Position,     \* Position[n]: the place of n in the dict's order
    MaxRetries,   \* MaxRetries[n]: WorkflowNode.max_retries
    Faults        \* the kinds of failure the environment may produce

FaultKinds ==
    { "registry", \* a node's agent_name is no key of engine.agents
      "agent",    \* an agent raises, or outlives its wait_for timeout
      "memory",   \* a Redis call behind the shared memory raises
      "hook",     \* an event hook raises
      "loss" }    \* the record expires or is flushed from Redis

ASSUME GraphAssumption ==
    /\ IsFiniteSet(Nodes)
    /\ DependsOn = [n \in Nodes |-> DependsOn[n]]
    /\ MaxRetries \in [Nodes -> Nat]
    /\ Faults \subseteq FaultKinds

ASSUME PositionAssumption ==
    /\ Position \in [Nodes -> Nat]
    /\ \A m, n \in Nodes : Position[m] = Position[n] => m = n

VARIABLES
    control,         \* where execute stands
    error,           \* why execute raised
    completed,       \* execute's set of that name
    failed,          \* execute's set of that name
    running,         \* execute's set of that name: the wave being gathered
    phase,           \* phase[n]: where the task of node n stands
    attempt,         \* attempt[n]: the loop variable of its _run_node
    snapshot,        \* snapshot[n]: the outputs its agent was handed
    memory,          \* the workflow's record in Redis
    nodeEvents,      \* node events the hooks have delivered
    workflowEvents   \* workflow events the hooks have delivered

taskVars == <<phase, attempt, snapshot>>
loopVars == <<control, error, completed, failed, running>>
eventVars == <<nodeEvents, workflowEvents>>
vars == <<loopVars, taskVars, memory, eventVars>>

Controls ==
    { "initialize", "announce_start", "schedule", "gather",
      "announce_failure", "finish", "announce_end", "returned", "raised" }

Phases ==
    { "idle",         \* no task has been created for the node
      "spawned",      \* the task exists, node_started is not delivered
      "reading",      \* at memory.get
      "agent",        \* inside agent.run
      "updating",     \* at memory.update
      "announcing",   \* delivering node_completed
      "done",         \* _run_node has returned
      "failed" }      \* _run_node has raised

Memory ==
    [ present : BOOLEAN,                \* the state key exists
      outputs : SUBSET Nodes,           \* nodes whose output is merged in
      status : {"running", "completed"},\* state["workflow"]["status"]
      completedNodes : SUBSET Nodes ]   \* ...["completed_nodes"]

\* The record that a lost one reads as: nothing at all.
NoRecord == [present |-> FALSE, outputs |-> {}, status |-> "running", completedNodes |-> {}]

\* The record memory.initialize writes, over any earlier one.
FirstRecord == [present |-> TRUE, outputs |-> {}, status |-> "running", completedNodes |-> {}]

NodeEvents == {"node_started", "node_completed", "node_failed"} \X Nodes
WorkflowEvents == {"workflow_started", "workflow_completed", "workflow_failed"}
-----------------------------------------------------------------------------
(***************************************************************************)
(* Names that end in "Slip" are not part of the model: each is what the    *)
(* definition after it would become under a plausible mistake in the code, *)
(* kept to show that a property of the model tells the two apart.          *)
(***************************************************************************)
AllAccountedSlip(done, bad) == Cardinality(done) + Cardinality(bad) + 1 >= Cardinality(Nodes)

\* len(completed) + len(failed) >= len(graph.nodes): the loop is left.
AllAccounted(done, bad) == Cardinality(done) + Cardinality(bad) >= Cardinality(Nodes)

\* Any dependency instead of all of them.
AnyDependencySlip(done, active, bad) ==
    {n \in Nodes \ (done \cup active \cup bad) :
        DependsOn[n] = {} \/ DependsOn[n] \cap done # {}}

\* A truth test on depends_on, which is false for the empty set.
NoRootsSlip(done, active, bad) ==
    {n \in Nodes \ (done \cup active \cup bad) :
        DependsOn[n] # {} /\ DependsOn[n] \subseteq done}

\* WorkflowGraph.ready_nodes.
ReadyNodes(done, active, bad) ==
    {n \in Nodes \ (done \cup active \cup bad) : DependsOn[n] \subseteq done}

\* range(1, max_retries + 2) has this many elements.
Attempts(n) == MaxRetries[n] + 1

Ended(n) == phase[n] \in {"done", "failed"}

\* gather without return_exceptions: the first exception ends the wait.
FirstExceptionSlip == (\A n \in running : Ended(n)) \/ \E n \in running : phase[n] = "failed"

\* asyncio.wait with FIRST_COMPLETED.
FirstCompletedSlip == \E n \in running : Ended(n)

\* asyncio.gather(..., return_exceptions=True) answers when every task has
\* returned or raised.
WaveEnded == \A n \in running : Ended(n)

\* The results are not looked at.
ExceptionIgnoredSlip == {}

\* The nodes whose gathered result is an exception.
Broken == {n \in running : phase[n] = "failed"}

\* zip() over the results in the reverse of the order of the nodes.
ReverseOrderSlip(n) == {m \in running : Position[m] > Position[n]}

\* The nodes zip() yields before node n.
Before(n) == {m \in running : Position[m] < Position[n]}

\* The record memory.update leaves when node n's output is merged in.
WithOutput(n) == [memory EXCEPT !.outputs = @ \cup {n}]

\* The record the closing memory.update leaves.
WithResult == [memory EXCEPT !.status = "completed", !.completedNodes = completed]
-----------------------------------------------------------------------------
Init ==
    /\ control = "initialize"
    /\ error = "none"
    /\ completed = {}
    /\ failed = {}
    /\ running = {}
    /\ phase = [n \in Nodes |-> "idle"]
    /\ attempt = [n \in Nodes |-> 0]
    /\ snapshot = [n \in Nodes |-> {}]
    /\ memory = NoRecord
    /\ nodeEvents = {}
    /\ workflowEvents = {}

Goto(place) == control' = place /\ UNCHANGED <<error, completed, failed, running>>
Raise(reason) ==
    /\ control' = "raised"
    /\ error' = reason
    /\ UNCHANGED <<completed, failed, running>>

(***************************************************************************)
(* The steps of execute.                                                   *)
(***************************************************************************)
Initialize ==
    /\ control = "initialize"
    /\ memory' = FirstRecord
    /\ Goto("announce_start")
    /\ UNCHANGED <<taskVars, eventVars>>

\* The pipeline raises; Redis may have executed it all the same.
InitializeFails ==
    /\ "memory" \in Faults
    /\ control = "initialize"
    /\ memory' \in {memory, FirstRecord}
    /\ Raise("environment")
    /\ UNCHANGED <<taskVars, eventVars>>

AnnounceStart ==
    /\ control = "announce_start"
    /\ workflowEvents' = workflowEvents \cup {"workflow_started"}
    /\ Goto("schedule")
    /\ UNCHANGED <<taskVars, memory, nodeEvents>>

\* A hook raises, before or after the event has reached an observer.
AnnounceStartFails ==
    /\ "hook" \in Faults
    /\ control = "announce_start"
    /\ workflowEvents' \in {workflowEvents, workflowEvents \cup {"workflow_started"}}
    /\ Raise("environment")
    /\ UNCHANGED <<taskVars, memory, nodeEvents>>

\* One turn of the loop up to its gather: a task for every ready node.
Schedule ==
    LET ready == ReadyNodes(completed, running, failed) IN
    /\ control = "schedule"
    /\ ~ AllAccounted(completed, failed)
    /\ ready # {}
    /\ running' = running \cup ready
    /\ phase' = [n \in Nodes |-> IF n \in ready THEN "spawned" ELSE phase[n]]
    /\ control' = "gather"
    /\ UNCHANGED <<error, completed, failed, attempt, snapshot, memory, eventVars>>

\* Sleep and look again, whatever is running.
SleepSlip ==
    /\ control = "schedule"
    /\ ReadyNodes(completed, running, failed) = {}
    /\ UNCHANGED vars

\* Nothing is ready.  The branch that sleeps while something runs is not
\* taken: the previous gather has emptied "running" (LoopHeadIsQuiet).
RaiseDeadlock ==
    /\ control = "schedule"
    /\ ~ AllAccounted(completed, failed)
    /\ ReadyNodes(completed, running, failed) = {}
    /\ running = {}
    /\ Raise("workflow_deadlock")
    /\ UNCHANGED <<taskVars, memory, eventVars>>

LeaveLoop ==
    /\ control = "schedule"
    /\ AllAccounted(completed, failed)
    /\ Goto("finish")
    /\ UNCHANGED <<taskVars, memory, eventVars>>

\* Every result of the wave is in and none is an exception.
CollectSuccess ==
    /\ control = "gather"
    /\ WaveEnded
    /\ Broken = {}
    /\ completed' = completed \cup running
    /\ running' = {}
    /\ control' = "schedule"
    /\ UNCHANGED <<error, failed, taskVars, memory, eventVars>>

\* The results are read in the order of the graph's dict.  The first
\* exception ends the reading: the nodes before it are completed, those
\* after it stay in "running", whatever their results are.
CollectFailure ==
    /\ control = "gather"
    /\ WaveEnded
    /\ \E n \in Broken :
          /\ Broken \cap Before(n) = {}
          /\ completed' = completed \cup Before(n)
          /\ failed' = failed \cup {n}
          /\ running' = running \ (Before(n) \cup {n})
    /\ control' = "announce_failure"
    /\ UNCHANGED <<error, taskVars, memory, eventVars>>

AnnounceFailure ==
    /\ control = "announce_failure"
    /\ nodeEvents' = nodeEvents \cup ({"node_failed"} \X failed)
    /\ Raise("node_failed")
    /\ UNCHANGED <<taskVars, memory, workflowEvents>>

\* The hook's exception replaces the one execute was about to raise.
AnnounceFailureFails ==
    /\ "hook" \in Faults
    /\ control = "announce_failure"
    /\ nodeEvents' \in {nodeEvents, nodeEvents \cup ({"node_failed"} \X failed)}
    /\ Raise("environment")
    /\ UNCHANGED <<taskVars, memory, workflowEvents>>

Finish ==
    /\ control = "finish"
    /\ memory.present
    /\ memory' = WithResult
    /\ Goto("announce_end")
    /\ UNCHANGED <<taskVars, eventVars>>

\* The record is gone, or Redis fails before or after applying the update.
FinishFails ==
    /\ control = "finish"
    /\ \/ ~ memory.present /\ UNCHANGED memory
       \/ "memory" \in Faults /\ memory.present /\ memory' \in {memory, WithResult}
    /\ Raise("environment")
    /\ UNCHANGED <<taskVars, eventVars>>

AnnounceEnd ==
    /\ control = "announce_end"
    /\ workflowEvents' = workflowEvents \cup {"workflow_completed"}
    /\ Goto("returned")
    /\ UNCHANGED <<taskVars, memory, nodeEvents>>

AnnounceEndFails ==
    /\ "hook" \in Faults
    /\ control = "announce_end"
    /\ workflowEvents' \in {workflowEvents, workflowEvents \cup {"workflow_completed"}}
    /\ Raise("environment")
    /\ UNCHANGED <<taskVars, memory, nodeEvents>>

EngineStep ==
    \/ Initialize
    \/ InitializeFails
    \/ AnnounceStart
    \/ AnnounceStartFails
    \/ Schedule
    \/ RaiseDeadlock
    \/ LeaveLoop
    \/ CollectSuccess
    \/ CollectFailure
    \/ AnnounceFailure
    \/ AnnounceFailureFails
    \/ Finish
    \/ FinishFails
    \/ AnnounceEnd
    \/ AnnounceEndFails
-----------------------------------------------------------------------------
(***************************************************************************)
(* The steps of _run_node for node n.                                      *)
(***************************************************************************)
Move(n, from, to) == phase[n] = from /\ phase' = [phase EXCEPT ![n] = to]

\* node_started is delivered and the first attempt begins.
StartNode(n) ==
    /\ Move(n, "spawned", "reading")
    /\ attempt' = [attempt EXCEPT ![n] = 1]
    /\ nodeEvents' = nodeEvents \cup {<<"node_started", n>>}
    /\ UNCHANGED <<loopVars, snapshot, memory, workflowEvents>>

\* Outside the retry loop: an agent_name nobody registered (KeyError), or a
\* hook that raises on node_started, ends the task at once.
StartFails(n) ==
    /\ Move(n, "spawned", "failed")
    /\ \/ "registry" \in Faults /\ UNCHANGED nodeEvents
       \/ /\ "hook" \in Faults
          /\ nodeEvents' \in {nodeEvents, nodeEvents \cup {<<"node_started", n>>}}
    /\ UNCHANGED <<loopVars, attempt, snapshot, memory, workflowEvents>>

ReadMemory(n) ==
    /\ memory.present
    /\ Move(n, "reading", "agent")
    /\ snapshot' = [snapshot EXCEPT ![n] = memory.outputs]
    /\ UNCHANGED <<loopVars, attempt, memory, eventVars>>

\* One attempt too many: range(0, max_retries + 2).
ExtraAttemptSlip(n) ==
    IF attempt[n] <= Attempts(n)
      THEN /\ phase' = [phase EXCEPT ![n] = "reading"]
           /\ attempt' = [attempt EXCEPT ![n] = @ + 1]
      ELSE /\ phase' = [phase EXCEPT ![n] = "failed"]
           /\ UNCHANGED attempt

\* "while True" instead of the bounded range.
EndlessAttemptsSlip(n) == phase' = [phase EXCEPT ![n] = "reading"] /\ UNCHANGED attempt

\* The except clause: the next attempt if there is one, else raise.
AttemptFails(n) ==
    IF attempt[n] < Attempts(n)
      THEN /\ phase' = [phase EXCEPT ![n] = "reading"]
           /\ attempt' = [attempt EXCEPT ![n] = @ + 1]
      ELSE /\ phase' = [phase EXCEPT ![n] = "failed"]
           /\ UNCHANGED attempt

ReadFails(n) ==
    /\ phase[n] = "reading"
    /\ ~ memory.present \/ "memory" \in Faults
    /\ AttemptFails(n)
    /\ UNCHANGED <<loopVars, snapshot, memory, eventVars>>

\* The snapshot is forgotten when the agent is through with it.
AgentReturns(n) ==
    /\ Move(n, "agent", "updating")
    /\ snapshot' = [snapshot EXCEPT ![n] = {}]
    /\ UNCHANGED <<loopVars, attempt, memory, eventVars>>

AgentFails(n) ==
    /\ "agent" \in Faults
    /\ phase[n] = "agent"
    /\ AttemptFails(n)
    /\ snapshot' = [snapshot EXCEPT ![n] = {}]
    /\ UNCHANGED <<loopVars, memory, eventVars>>

UpdateMemory(n) ==
    /\ memory.present
    /\ Move(n, "updating", "announcing")
    /\ memory' = WithOutput(n)
    /\ UNCHANGED <<loopVars, attempt, snapshot, eventVars>>

\* The record is gone, or Redis fails before or after applying the update.
UpdateFails(n) ==
    /\ phase[n] = "updating"
    /\ \/ ~ memory.present /\ UNCHANGED memory
       \/ "memory" \in Faults /\ memory.present /\ memory' \in {memory, WithOutput(n)}
    /\ AttemptFails(n)
    /\ UNCHANGED <<loopVars, snapshot, eventVars>>

AnnounceNode(n) ==
    /\ Move(n, "announcing", "done")
    /\ nodeEvents' = nodeEvents \cup {<<"node_completed", n>>}
    /\ UNCHANGED <<loopVars, attempt, snapshot, memory, workflowEvents>>

\* Inside the retry loop: a hook that raises on node_completed sends the
\* node back to its agent although its output is already in the memory.
AnnounceFails(n) ==
    /\ "hook" \in Faults
    /\ phase[n] = "announcing"
    /\ AttemptFails(n)
    /\ nodeEvents' \in {nodeEvents, nodeEvents \cup {<<"node_completed", n>>}}
    /\ UNCHANGED <<loopVars, snapshot, memory, workflowEvents>>

NodeStep(n) ==
    \/ StartNode(n)
    \/ StartFails(n)
    \/ ReadMemory(n)
    \/ ReadFails(n)
    \/ AgentReturns(n)
    \/ AgentFails(n)
    \/ UpdateMemory(n)
    \/ UpdateFails(n)
    \/ AnnounceNode(n)
    \/ AnnounceFails(n)
-----------------------------------------------------------------------------
\* The keys' time to live runs out, or Redis is flushed.
LoseMemory ==
    /\ "loss" \in Faults
    /\ memory.present
    /\ memory' = NoRecord
    /\ UNCHANGED <<loopVars, taskVars, eventVars>>

\* execute has returned or raised: nothing more is due.
Over ==
    /\ control \in {"returned", "raised"}
    /\ UNCHANGED vars

Next ==
    \/ EngineStep
    \/ \E n \in Nodes : NodeStep(n)
    \/ LoseMemory
    \/ Over

(***************************************************************************)
(* The event loop resumes every coroutine whose await is over; an agent is *)
(* over at the latest at its wait_for timeout, and a Redis call or a hook  *)
(* is assumed to answer or to raise.                                       *)
(***************************************************************************)
Fairness == WF_vars(EngineStep) /\ \A n \in Nodes : WF_vars(NodeStep(n))

Spec == Init /\ [][Next]_vars /\ Fairness
-----------------------------------------------------------------------------
(***************************************************************************)
(* Properties.                                                             *)
(***************************************************************************)

\* Every variable has the type its declaration announces.
TypeOK ==
    /\ control \in Controls
    /\ error \in {"none", "environment", "workflow_deadlock", "node_failed"}
    /\ completed \subseteq Nodes
    /\ failed \subseteq Nodes
    /\ running \subseteq Nodes
    /\ phase \in [Nodes -> Phases]
    /\ attempt \in [Nodes -> Nat]
    /\ \A n \in Nodes : attempt[n] <= Attempts(n)
    /\ snapshot \in [Nodes -> SUBSET Nodes]
    /\ memory \in Memory
    /\ nodeEvents \subseteq NodeEvents
    /\ workflowEvents \subseteq WorkflowEvents

\* An agent, on any attempt, is handed a snapshot that holds the output of
\* every node its own node depends on (engine.py 106-114).
AgentsSeeDependencies ==
    \A n \in Nodes : phase[n] = "agent" => DependsOn[n] \subseteq snapshot[n]

\* A node that execute counts as completed has announced its completion and
\* has its output in the memory, unless the record was lost (engine.py 117-131
\* against 74-89, where a raised exception must never read as a result).
CompletedIsBacked ==
    \A n \in completed :
        /\ <<"node_completed", n>> \in nodeEvents
        /\ memory.present => n \in memory.outputs

\* The loop head never meets a running task or a failed node: the branch of
\* engine.py 61-63 that sleeps and tries again is dead.
LoopHeadIsQuiet ==
    control = "schedule" =>
        /\ running = {} /\ failed = {}
        /\ \A n \in Nodes : phase[n] \in {"idle", "done"}

\* Whoever listens to the hooks hears of a node's start only after the
\* completion of everything the node depends on.
ObserverOrder ==
    \A n \in Nodes : <<"node_started", n>> \in nodeEvents =>
        \A m \in DependsOn[n] : <<"node_completed", m>> \in nodeEvents

\* A record that says "completed" lists every node and holds every output,
\* and so does what execute returns (engine.py 91-96).
ResultIsWhole ==
    /\ control \in {"announce_end", "returned"} => completed = Nodes /\ failed = {}
    /\ memory.status = "completed" =>
          memory.completedNodes = Nodes /\ memory.outputs = Nodes

\* A set of nodes none of which can ever be the first to start: each waits
\* for another of them, or for a name that is not a node.
Blocked(S) == S # {} /\ \A n \in S : ~ (DependsOn[n] \subseteq Nodes \ S)
Schedulable == \A S \in SUBSET Nodes : ~ Blocked(S)

\* "Workflow graph cannot make progress" is raised only over nodes that no
\* schedule could ever start (engine.py 60-68).
DeadlockIsReal == error = "workflow_deadlock" => Blocked(Nodes \ completed)

\* Once execute has collected a failure or has ended, no task is left to
\* write to the memory or to announce a node behind the caller's back
\* (gather with return_exceptions=True waits for the failed node's siblings).
NothingAfterTheEnd ==
    [][(control \in {"announce_failure", "returned", "raised"}) =>
          UNCHANGED taskVars /\ memory' \in {memory, NoRecord}]_vars

\* The failure that is reported is that of the first failed node in the
\* graph's own order, whichever task of the wave failed first in time
\* (engine.py 74-88), and nothing before it is left uncounted.
BlameIsFirst ==
    \A n \in failed, m \in Nodes :
        /\ phase[m] = "failed" => Position[n] <= Position[m]
        /\ phase[m] = "done" /\ Position[m] < Position[n] => m \in completed

\* A node gets one task per execution; only the task itself repeats work.
OneTaskPerNode ==
    [][\A n \in Nodes :
          phase[n] \notin {"idle", "spawned"} => phase'[n] \notin {"idle", "spawned"}]_vars

\* A leveling puts a node without dependencies on level 0 and any other one
\* level above the highest of its dependencies.
IsLeveling(L) ==
    /\ L \in [Nodes -> Nat]
    /\ \A n \in Nodes :
          \/ DependsOn[n] = {} /\ L[n] = 0
          \/ /\ \A m \in DependsOn[n] : m \in Nodes /\ L[m] < L[n]
             /\ \E m \in DependsOn[n] : L[m] + 1 = L[n]

\* When a node starts, every node of every lower level is complete, whether
\* or not the graph has a path between the two (engine.py 58-89).
BarrierHolds(L) ==
    \A m, n \in Nodes : L[m] < L[n] /\ phase[n] # "idle" => phase[m] = "done"

\* execute returns or raises.
Termination == <>(control \in {"returned", "raised"})

(***************************************************************************)
(* The inductive invariant behind these properties.                        *)
(***************************************************************************)

\* What "completed", "failed" and "running" say of the tasks: tasks are at
\* work only while execute awaits a gather, and then only the tasks of
\* "running"; everywhere else but after a failure "completed" is exactly
\* the set of finished tasks.
LoopInv ==
    /\ control # "gather" => \A n \in Nodes : phase[n] \in {"idle", "done", "failed"}
    /\ control = "gather" =>
          failed = {} /\ \A n \in Nodes : phase[n] # "idle" => n \in running \cup completed
    /\ control \notin {"gather", "announce_failure", "raised"} =>
          /\ running = {} /\ failed = {}
          /\ \A n \in Nodes : phase[n] = "idle" \/ (phase[n] = "done" /\ n \in completed)
    /\ \A n \in completed : phase[n] = "done"

\* A task exists only when everything its node depends on is completed.
OrderInv == \A n \in Nodes : phase[n] # "idle" => DependsOn[n] \subseteq completed

\* What the record and the observers hold of each node.
TraceInv ==
    \A n \in Nodes :
        /\ phase[n] \in {"announcing", "done"} /\ memory.present => n \in memory.outputs
        /\ phase[n] = "done" => <<"node_completed", n>> \in nodeEvents
        /\ <<"node_started", n>> \in nodeEvents => phase[n] # "idle"
        /\ phase[n] = "agent" => DependsOn[n] \subseteq snapshot[n]

\* The end of the loop is reached with every node completed, and only from
\* there on does the record say so.
EndInv ==
    /\ control \in {"finish", "announce_end", "returned"} => completed = Nodes
    /\ memory.status = "completed" =>
          /\ control \in {"announce_end", "returned", "raised"}
          /\ memory.completedNodes = Nodes
          /\ memory.outputs = Nodes

\* execute raises at most once, and for a deadlock only over blocked nodes.
ErrorInv ==
    /\ error # "none" => control = "raised"
    /\ DeadlockIsReal

IInv == TypeOK /\ LoopInv /\ OrderInv /\ TraceInv /\ EndInv /\ ErrorInv

(***************************************************************************)
(* What the engine promises its caller is DagExecution.                    *)
(***************************************************************************)
Dag == INSTANCE DagExecution WITH
         launched <- {n \in Nodes : phase[n] # "idle"},
         succeeded <- {n \in Nodes : phase[n] = "done"},
         broken <- {n \in Nodes : phase[n] = "failed"},
         outcome <- IF control = "returned" THEN "success"
                    ELSE IF control = "raised" THEN "failure"
                    ELSE "pending"

\* Every behaviour of the engine is one of DagExecution: nodes are launched
\* once and in order, and the caller is answered over no running task.
ImplementsDag == Dag!Spec
=============================================================================

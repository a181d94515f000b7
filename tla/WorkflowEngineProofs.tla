------------------------ MODULE WorkflowEngineProofs ------------------------
(***************************************************************************)
(* Proofs about WorkflowEngine, for every graph, every number of retries   *)
(* and every combination of faults.                                        *)
(***************************************************************************)
EXTENDS WorkflowEngine, FiniteSetTheorems, TLAPS

USE GraphAssumption, PositionAssumption
-----------------------------------------------------------------------------
(***************************************************************************)
(* Types.                                                                  *)
(***************************************************************************)

\* The record stays a record of memory whatever update is applied to it.
LEMMA RecordType ==
    ASSUME TypeOK
    PROVE  /\ NoRecord \in Memory
           /\ FirstRecord \in Memory
           /\ WithResult \in Memory
           /\ \A n \in Nodes : WithOutput(n) \in Memory
  BY DEF TypeOK, Memory, NoRecord, FirstRecord, WithResult, WithOutput

\* One more attempt, or giving up, keeps the attempts within their number.
LEMMA AttemptType ==
    ASSUME TypeOK, NEW n \in Nodes, AttemptFails(n)
    PROVE  /\ phase' \in [Nodes -> Phases]
           /\ attempt' \in [Nodes -> Nat]
           /\ \A m \in Nodes : attempt'[m] <= Attempts(m)
  BY DEF TypeOK, AttemptFails, Attempts, Phases

LEMMA InitType == Init => TypeOK
  BY DEF Init, TypeOK, Controls, Phases, Memory, NoRecord, NodeEvents, WorkflowEvents, Attempts

\* A step of execute keeps the types.
LEMMA EngineType ==
    ASSUME TypeOK, EngineStep
    PROVE  TypeOK'
  <1> USE DEF TypeOK, Controls, Phases, loopVars, taskVars, eventVars, Goto, Raise, Attempts
  <1>1. CASE Initialize
    BY <1>1, RecordType DEF Initialize
  <1>2. CASE InitializeFails
    BY <1>2, RecordType DEF InitializeFails
  <1>3. CASE AnnounceStart
    BY <1>3 DEF AnnounceStart, WorkflowEvents
  <1>4. CASE AnnounceStartFails
    BY <1>4 DEF AnnounceStartFails, WorkflowEvents
  <1>5. CASE Schedule
    BY <1>5 DEF Schedule, ReadyNodes
  <1>6. CASE RaiseDeadlock
    BY <1>6 DEF RaiseDeadlock
  <1>7. CASE LeaveLoop
    BY <1>7 DEF LeaveLoop
  <1>8. CASE CollectSuccess
    BY <1>8 DEF CollectSuccess
  <1>9. CASE CollectFailure
    BY <1>9 DEF CollectFailure, Broken, Before
  <1>10. CASE AnnounceFailure
    BY <1>10 DEF AnnounceFailure, NodeEvents
  <1>11. CASE AnnounceFailureFails
    BY <1>11 DEF AnnounceFailureFails, NodeEvents
  <1>12. CASE Finish
    BY <1>12, RecordType DEF Finish
  <1>13. CASE FinishFails
    BY <1>13, RecordType DEF FinishFails
  <1>14. CASE AnnounceEnd
    BY <1>14 DEF AnnounceEnd, WorkflowEvents
  <1>15. CASE AnnounceEndFails
    BY <1>15 DEF AnnounceEndFails, WorkflowEvents
  <1> QED
    BY <1>1, <1>2, <1>3, <1>4, <1>5, <1>6, <1>7, <1>8, <1>9, <1>10, <1>11, <1>12,
       <1>13, <1>14, <1>15 DEF EngineStep

\* A step of a task keeps the types.
LEMMA NodeType ==
    ASSUME TypeOK, NEW n \in Nodes, NodeStep(n)
    PROVE  TypeOK'
  <1> USE DEF TypeOK, loopVars, eventVars, Move
  <1>1. CASE StartNode(n)
    BY <1>1 DEF StartNode, NodeEvents, Attempts, Phases
  <1>2. CASE StartFails(n)
    BY <1>2 DEF StartFails, NodeEvents, Phases
  <1>3. CASE ReadMemory(n)
    BY <1>3 DEF ReadMemory, Memory, Phases
  <1>4. CASE ReadFails(n)
    BY <1>4, AttemptType DEF ReadFails
  <1>5. CASE AgentReturns(n)
    BY <1>5 DEF AgentReturns, Phases
  <1>6. CASE AgentFails(n)
    BY <1>6, AttemptType DEF AgentFails
  <1>7. CASE UpdateMemory(n)
    BY <1>7, RecordType DEF UpdateMemory, Phases
  <1>8. CASE UpdateFails(n)
    BY <1>8, AttemptType, RecordType DEF UpdateFails
  <1>9. CASE AnnounceNode(n)
    BY <1>9 DEF AnnounceNode, NodeEvents, Phases
  <1>10. CASE AnnounceFails(n)
    BY <1>10, AttemptType DEF AnnounceFails, NodeEvents
  <1> QED
    BY <1>1, <1>2, <1>3, <1>4, <1>5, <1>6, <1>7, <1>8, <1>9, <1>10 DEF NodeStep

\* ...and by every step.
LEMMA NextType ==
    ASSUME TypeOK, [Next]_vars
    PROVE  TypeOK'
  <1>1. CASE LoseMemory
    BY <1>1, RecordType DEF LoseMemory, TypeOK, loopVars, taskVars, eventVars
  <1>2. CASE UNCHANGED vars
    BY <1>2 DEF TypeOK, vars, loopVars, taskVars, eventVars
  <1> QED
    BY <1>1, <1>2, EngineType, NodeType DEF Next, Over

\* Every variable keeps its type in every behaviour of the engine.
THEOREM TypeCorrect == Spec => []TypeOK
  BY InitType, NextType, PTL DEF Spec
-----------------------------------------------------------------------------
(***************************************************************************)
(* The loop and its tasks.                                                 *)
(***************************************************************************)

\* A task moves itself only, and only while it is at work.
LEMMA TaskMoves ==
    ASSUME TypeOK, NEW n \in Nodes, NodeStep(n)
    PROVE  /\ UNCHANGED loopVars
           /\ phase[n] \in {"spawned", "reading", "agent", "updating", "announcing"}
           /\ phase'[n] \in Phases \ {"idle", "spawned"}
           /\ \A m \in Nodes \ {n} : phase'[m] = phase[m]
  BY DEF TypeOK, NodeStep, StartNode, StartFails, ReadMemory, ReadFails, AgentReturns,
         AgentFails, UpdateMemory, UpdateFails, AnnounceNode, AnnounceFails, AttemptFails,
         Move, Phases

\* The loop is left exactly when every node is completed.
LEMMA LoopExit ==
    ASSUME TypeOK, failed = {}
    PROVE  AllAccounted(completed, failed) <=> completed = Nodes
  <1>1. /\ Cardinality(Nodes) \in Nat
        /\ Cardinality(completed) \in Nat
        /\ Cardinality(completed) <= Cardinality(Nodes)
        /\ Cardinality(Nodes) = Cardinality(completed) => Nodes = completed
    BY FS_Subset, FS_CardinalityType DEF TypeOK
  <1>2. Cardinality(failed) = 0
    BY FS_EmptySet
  <1> QED
    BY <1>1, <1>2 DEF AllAccounted

LEMMA InitLoop == Init => LoopInv /\ OrderInv
  BY DEF Init, LoopInv, OrderInv

\* The sets of the loop keep their meaning when execute takes a step.
LEMMA EngineLoop ==
    ASSUME TypeOK, LoopInv, EngineStep
    PROVE  LoopInv'
  <1> USE DEF LoopInv, TypeOK, loopVars, taskVars, Goto, Raise
  <1>1. CASE Initialize \/ InitializeFails
    BY <1>1 DEF Initialize, InitializeFails
  <1>2. CASE AnnounceStart \/ AnnounceStartFails
    BY <1>2 DEF AnnounceStart, AnnounceStartFails
  <1>3. CASE Schedule
    BY <1>3 DEF Schedule, ReadyNodes
  <1>4. CASE RaiseDeadlock \/ LeaveLoop
    BY <1>4 DEF RaiseDeadlock, LeaveLoop
  <1>5. CASE CollectSuccess
    BY <1>5 DEF CollectSuccess, WaveEnded, Ended, Broken
  <1>6. CASE CollectFailure
    <2>1. PICK n \in Broken :
            /\ Broken \cap Before(n) = {}
            /\ completed' = completed \cup Before(n)
      BY <1>6 DEF CollectFailure
    <2>2. /\ control = "gather" /\ control' = "announce_failure"
          /\ WaveEnded /\ UNCHANGED phase
      BY <1>6 DEF CollectFailure
    <2>3. \A m \in Nodes : phase[m] \in {"idle", "done", "failed"}
      BY <2>2 DEF WaveEnded, Ended
    <2>4. \A m \in Before(n) : phase[m] = "done"
      BY <2>1, <2>2 DEF WaveEnded, Ended, Broken, Before
    <2> QED
      BY <2>1, <2>2, <2>3, <2>4
  <1>7. CASE AnnounceFailure \/ AnnounceFailureFails
    BY <1>7 DEF AnnounceFailure, AnnounceFailureFails
  <1>8. CASE Finish \/ FinishFails
    BY <1>8 DEF Finish, FinishFails
  <1>9. CASE AnnounceEnd \/ AnnounceEndFails
    BY <1>9 DEF AnnounceEnd, AnnounceEndFails
  <1> QED
    BY <1>1, <1>2, <1>3, <1>4, <1>5, <1>6, <1>7, <1>8, <1>9 DEF EngineStep

\* A task is only ever created over completed dependencies.
LEMMA EngineOrder ==
    ASSUME TypeOK, LoopInv, OrderInv, EngineStep
    PROVE  OrderInv'
  <1>1. completed \subseteq completed'
    BY DEF EngineStep, Initialize, InitializeFails, AnnounceStart, AnnounceStartFails, Schedule,
           RaiseDeadlock, LeaveLoop, CollectSuccess, CollectFailure, AnnounceFailure,
           AnnounceFailureFails, Finish, FinishFails, AnnounceEnd, AnnounceEndFails,
           Goto, Raise
  <1>2. CASE Schedule
    BY <1>2 DEF Schedule, ReadyNodes, OrderInv, TypeOK
  <1>3. CASE UNCHANGED phase
    BY <1>1, <1>3 DEF OrderInv
  <1> QED
    BY <1>2, <1>3
    DEF EngineStep, Initialize, InitializeFails, AnnounceStart, AnnounceStartFails,
        RaiseDeadlock, LeaveLoop, CollectSuccess, CollectFailure, AnnounceFailure,
        AnnounceFailureFails, Finish, FinishFails, AnnounceEnd, AnnounceEndFails, taskVars

\* A step of a task disturbs neither.
LEMMA NodeLoop ==
    ASSUME TypeOK, LoopInv, OrderInv, NEW n \in Nodes, NodeStep(n)
    PROVE  LoopInv' /\ OrderInv'
  <1>1. /\ UNCHANGED <<control, completed, failed, running>>
        /\ phase[n] \notin {"idle", "done", "failed"}
        /\ phase'[n] # "idle"
        /\ \A m \in Nodes \ {n} : phase'[m] = phase[m]
    BY TaskMoves DEF loopVars
  <1>2. control = "gather"
    BY <1>1 DEF LoopInv
  <1>3. n \notin completed
    BY <1>1 DEF LoopInv
  <1>4. LoopInv'
    BY <1>1, <1>2, <1>3 DEF LoopInv, TypeOK
  <1>5. OrderInv'
    BY <1>1 DEF OrderInv
  <1> QED
    BY <1>4, <1>5

LEMMA NextLoop ==
    ASSUME TypeOK, LoopInv, OrderInv, [Next]_vars
    PROVE  LoopInv' /\ OrderInv'
  <1>1. CASE LoseMemory \/ UNCHANGED vars
    BY <1>1 DEF LoseMemory, vars, loopVars, taskVars, LoopInv, OrderInv
  <1> QED
    BY <1>1, EngineLoop, EngineOrder, NodeLoop DEF Next, Over

LEMMA LoopCorrect == Spec => [](LoopInv /\ OrderInv)
  <1>1. TypeOK /\ LoopInv /\ OrderInv /\ [Next]_vars => (LoopInv /\ OrderInv)'
    BY NextLoop
  <1> QED
    BY <1>1, InitLoop, TypeCorrect, PTL DEF Spec

\* The loop head never meets a running task or a failed node, so that the
\* branch that sleeps while something is running is never taken.
THEOREM LoopHeadCorrect == Spec => []LoopHeadIsQuiet
  <1>1. LoopInv => LoopHeadIsQuiet
    BY DEF LoopInv, LoopHeadIsQuiet
  <1> QED
    BY <1>1, LoopCorrect, PTL
-----------------------------------------------------------------------------
(***************************************************************************)
(* What the record and the observers hold.                                 *)
(***************************************************************************)

\* A step of execute neither moves a task that is at work nor takes anything
\* away from the observers.
LEMMA EngineKeeps ==
    ASSUME TypeOK, LoopInv, EngineStep
    PROVE  /\ nodeEvents \subseteq nodeEvents'
           /\ \A n \in Nodes : <<"node_started", n>> \in nodeEvents' => <<"node_started", n>> \in nodeEvents
           /\ UNCHANGED snapshot
           /\ \A n \in Nodes : phase'[n] # phase[n] => phase[n] = "idle" /\ phase'[n] = "spawned"
  <1>1. CASE Schedule
    BY <1>1 DEF Schedule, ReadyNodes, eventVars, LoopInv, TypeOK
  <1>2. CASE AnnounceFailure \/ AnnounceFailureFails
    BY <1>2 DEF AnnounceFailure, AnnounceFailureFails, taskVars
  <1> QED
    BY <1>1, <1>2
    DEF EngineStep, Initialize, InitializeFails, AnnounceStart, AnnounceStartFails,
        RaiseDeadlock, LeaveLoop, CollectSuccess, CollectFailure, Finish, FinishFails,
        AnnounceEnd, AnnounceEndFails, taskVars, eventVars

\* What a step of execute may do to the outputs in the record.
LEMMA EngineRecord ==
    ASSUME TypeOK, EngineStep
    PROVE  \/ memory'.present => memory.present /\ memory.outputs \subseteq memory'.outputs
           \/ control = "initialize"
  BY DEF EngineStep, Initialize, InitializeFails, AnnounceStart, AnnounceStartFails, Schedule,
         RaiseDeadlock, LeaveLoop, CollectSuccess, CollectFailure, AnnounceFailure,
         AnnounceFailureFails, Finish, FinishFails, AnnounceEnd, AnnounceEndFails,
         WithResult, eventVars, TypeOK, Memory

\* At the very start no task has been created.
NothingYet ==
    control \in {"initialize", "announce_start"} => completed = {} /\ \A n \in Nodes : phase[n] = "idle"

LEMMA NothingYetStep ==
    ASSUME TypeOK, LoopInv, NothingYet, [Next]_vars
    PROVE  NothingYet'
  <1>1. CASE EngineStep
    BY <1>1
    DEF EngineStep, Initialize, InitializeFails, AnnounceStart, AnnounceStartFails, Schedule,
        RaiseDeadlock, LeaveLoop, CollectSuccess, CollectFailure, AnnounceFailure,
        AnnounceFailureFails, Finish, FinishFails, AnnounceEnd, AnnounceEndFails, Goto, Raise,
        taskVars, NothingYet
  <1>2. CASE \E n \in Nodes : NodeStep(n)
    BY <1>2, TaskMoves DEF NothingYet, LoopInv, loopVars
  <1>3. CASE LoseMemory \/ UNCHANGED vars
    BY <1>3 DEF LoseMemory, vars, loopVars, taskVars, NothingYet
  <1> QED
    BY <1>1, <1>2, <1>3 DEF Next, Over

LEMMA InitTrace == Init => TraceInv /\ NothingYet
  BY DEF Init, TraceInv, NothingYet

LEMMA EngineTrace ==
    ASSUME TypeOK, LoopInv, NothingYet, TraceInv, EngineStep
    PROVE  TraceInv'
  <1>1. CASE control = "initialize"
    <2>1. \A n \in Nodes : phase[n] = "idle"
      BY <1>1 DEF NothingYet
    <2>2. \A n \in Nodes : phase'[n] \in {"idle", "spawned"}
      BY <2>1, EngineKeeps
    <2>3. UNCHANGED <<phase, nodeEvents>>
      BY <1>1 DEF EngineStep, Initialize, InitializeFails, AnnounceStart, AnnounceStartFails,
           Schedule, RaiseDeadlock, LeaveLoop, CollectSuccess, CollectFailure, AnnounceFailure,
           AnnounceFailureFails, Finish, FinishFails, AnnounceEnd, AnnounceEndFails,
           taskVars, eventVars
    <2> QED
      BY <2>2, <2>3 DEF TraceInv
  <1>2. CASE control # "initialize"
    <2>1. memory'.present => memory.present /\ memory.outputs \subseteq memory'.outputs
      BY <1>2, EngineRecord
    <2> QED
      BY <2>1, EngineKeeps DEF TraceInv
  <1> QED
    BY <1>1, <1>2

\* A task finds in the record what its dependencies have left there.
LEMMA NodeTrace ==
    ASSUME TypeOK, LoopInv, OrderInv, TraceInv, NEW n \in Nodes, NodeStep(n)
    PROVE  TraceInv'
  <1>1. /\ completed' = completed
        /\ phase'[n] # "idle"
        /\ \A m \in Nodes \ {n} : phase'[m] = phase[m]
    BY TaskMoves DEF loopVars
  <1>2. /\ memory'.present <=> memory.present
        /\ memory.outputs \subseteq memory'.outputs
        /\ nodeEvents \subseteq nodeEvents'
        /\ \A m \in Nodes \ {n} : snapshot'[m] = snapshot[m]
        /\ \A m \in Nodes \ {n} : <<"node_started", m>> \in nodeEvents' => <<"node_started", m>> \in nodeEvents
    BY DEF NodeStep, StartNode, StartFails, ReadMemory, ReadFails, AgentReturns,
         AgentFails, UpdateMemory, UpdateFails, AnnounceNode, AnnounceFails, eventVars,
         TypeOK, Memory, WithOutput
  <1>3. \A m \in Nodes \ {n} :
          /\ phase'[m] \in {"announcing", "done"} /\ memory'.present => m \in memory'.outputs
          /\ phase'[m] = "done" => <<"node_completed", m>> \in nodeEvents'
          /\ <<"node_started", m>> \in nodeEvents' => phase'[m] # "idle"
          /\ phase'[m] = "agent" => DependsOn[m] \subseteq snapshot'[m]
    BY <1>1, <1>2 DEF TraceInv
  <1>4. phase'[n] \in {"announcing", "done"} /\ memory'.present => n \in memory'.outputs
    <2>1. CASE UpdateMemory(n)
      BY <2>1 DEF UpdateMemory, WithOutput, TypeOK, Memory
    <2>2. CASE AnnounceNode(n)
      BY <2>2, <1>2 DEF AnnounceNode, Move, TraceInv
    <2>3. CASE ~ UpdateMemory(n) /\ ~ AnnounceNode(n)
      BY <2>3 DEF NodeStep, StartNode, StartFails, ReadMemory, ReadFails, AgentReturns,
           AgentFails, UpdateFails, AnnounceFails, Move, AttemptFails, TypeOK
    <2> QED
      BY <2>1, <2>2, <2>3
  <1>5. phase'[n] = "done" => <<"node_completed", n>> \in nodeEvents'
    BY DEF NodeStep, StartNode, StartFails, ReadMemory, ReadFails, AgentReturns, AgentFails,
         UpdateMemory, UpdateFails, AnnounceNode, AnnounceFails, Move, AttemptFails, TypeOK
  <1>6. phase'[n] = "agent" => DependsOn[n] \subseteq snapshot'[n]
    <2>1. CASE ReadMemory(n)
      <3>1. DependsOn[n] \subseteq completed
        BY <2>1 DEF ReadMemory, Move, OrderInv
      <3>2. \A m \in completed : m \in memory.outputs
        BY <2>1 DEF ReadMemory, LoopInv, TraceInv, TypeOK
      <3> QED
        BY <2>1, <3>1, <3>2 DEF ReadMemory, TypeOK
    <2>2. CASE ~ ReadMemory(n)
      BY <2>2 DEF NodeStep, StartNode, StartFails, ReadFails, AgentReturns, AgentFails,
           UpdateMemory, UpdateFails, AnnounceNode, AnnounceFails, Move, AttemptFails, TypeOK
    <2> QED
      BY <2>1, <2>2
  <1> QED
    BY <1>1, <1>3, <1>4, <1>5, <1>6 DEF TraceInv

LEMMA NextTrace ==
    ASSUME TypeOK, LoopInv, OrderInv, NothingYet, TraceInv, [Next]_vars
    PROVE  TraceInv'
  <1>1. CASE LoseMemory
    BY <1>1 DEF LoseMemory, NoRecord, loopVars, taskVars, eventVars, TraceInv
  <1>2. CASE UNCHANGED vars
    BY <1>2 DEF vars, loopVars, taskVars, eventVars, TraceInv
  <1> QED
    BY <1>1, <1>2, EngineTrace, NodeTrace DEF Next, Over

LEMMA TraceCorrect == Spec => []TraceInv
  <1>1. /\ TypeOK /\ LoopInv /\ OrderInv /\ NothingYet /\ TraceInv /\ [Next]_vars
        => (NothingYet /\ TraceInv)'
    BY NextTrace, NothingYetStep
  <1> QED
    BY <1>1, InitTrace, TypeCorrect, LoopCorrect, PTL DEF Spec

\* On every attempt of every node, the snapshot its agent works on holds the
\* outputs of all the nodes it depends on, whatever failed before.
THEOREM DependenciesSeen == Spec => []AgentsSeeDependencies
  <1>1. TraceInv => AgentsSeeDependencies
    BY DEF TraceInv, AgentsSeeDependencies
  <1> QED
    BY <1>1, TraceCorrect, PTL

\* A failure is never counted as a completion: a completed node has announced
\* itself and, while the record exists, its output is in it.
THEOREM CompletedCorrect == Spec => []CompletedIsBacked
  <1>1. TypeOK /\ LoopInv /\ TraceInv => CompletedIsBacked
    BY DEF TypeOK, LoopInv, TraceInv, CompletedIsBacked
  <1> QED
    BY <1>1, TypeCorrect, LoopCorrect, TraceCorrect, PTL

\* Observers hear of a node only after the completion of its dependencies.
THEOREM ObserverCorrect == Spec => []ObserverOrder
  <1>1. TypeOK /\ LoopInv /\ OrderInv /\ TraceInv => ObserverOrder
    BY DEF TypeOK, LoopInv, OrderInv, TraceInv, ObserverOrder
  <1> QED
    BY <1>1, TypeCorrect, LoopCorrect, TraceCorrect, PTL
-----------------------------------------------------------------------------
(***************************************************************************)
(* How an execution ends.                                                  *)
(***************************************************************************)
LEMMA InitEnd == Init => EndInv /\ ErrorInv
  BY DEF Init, EndInv, ErrorInv, DeadlockIsReal, NoRecord

LEMMA EngineEnd ==
    ASSUME TypeOK, LoopInv, TraceInv, EndInv, EngineStep
    PROVE  EndInv'
  <1> USE DEF EndInv, Goto, Raise
  <1>1. CASE Initialize \/ InitializeFails
    BY <1>1 DEF Initialize, InitializeFails, FirstRecord
  <1>2. CASE AnnounceStart \/ AnnounceStartFails
    BY <1>2 DEF AnnounceStart, AnnounceStartFails
  <1>3. CASE Schedule \/ RaiseDeadlock
    BY <1>3 DEF Schedule, RaiseDeadlock
  <1>4. CASE LeaveLoop
    <2>1. completed = Nodes
      BY <1>4, LoopExit DEF LeaveLoop, LoopInv
    <2> QED
      BY <1>4, <2>1 DEF LeaveLoop
  <1>5. CASE CollectSuccess \/ CollectFailure
    BY <1>5 DEF CollectSuccess, CollectFailure
  <1>6. CASE AnnounceFailure \/ AnnounceFailureFails
    BY <1>6 DEF AnnounceFailure, AnnounceFailureFails
  <1>7. CASE Finish \/ FinishFails
    <2>1. memory.present => memory.outputs = Nodes
      <3>1. completed = Nodes
        BY <1>7 DEF Finish, FinishFails
      <3>2. \A n \in Nodes : phase[n] = "done"
        BY <3>1 DEF LoopInv
      <3>3. memory.present => \A n \in Nodes : n \in memory.outputs
        BY <3>2 DEF TraceInv
      <3>4. memory.outputs \subseteq Nodes
        BY DEF TypeOK, Memory
      <3> QED
        BY <3>3, <3>4
    <2> QED
      BY <1>7, <2>1 DEF Finish, FinishFails, WithResult, TypeOK, Memory
  <1>8. CASE AnnounceEnd \/ AnnounceEndFails
    BY <1>8 DEF AnnounceEnd, AnnounceEndFails
  <1> QED
    BY <1>1, <1>2, <1>3, <1>4, <1>5, <1>6, <1>7, <1>8 DEF EngineStep

LEMMA NodeEnd ==
    ASSUME TypeOK, LoopInv, EndInv, NEW n \in Nodes, NodeStep(n)
    PROVE  EndInv'
  <1>1. control = "gather" /\ UNCHANGED loopVars
    BY TaskMoves DEF LoopInv
  <1>2. memory.status # "completed"
    BY <1>1 DEF EndInv
  <1>3. memory'.status = memory.status
    BY DEF NodeStep, StartNode, StartFails, ReadMemory, ReadFails, AgentReturns, AgentFails,
         UpdateMemory, UpdateFails, AnnounceNode, AnnounceFails, WithOutput, TypeOK, Memory
  <1> QED
    BY <1>1, <1>2, <1>3 DEF EndInv, loopVars

LEMMA NextEnd ==
    ASSUME TypeOK, LoopInv, TraceInv, EndInv, [Next]_vars
    PROVE  EndInv'
  <1>1. CASE LoseMemory
    BY <1>1 DEF LoseMemory, NoRecord, loopVars, EndInv
  <1>2. CASE UNCHANGED vars
    BY <1>2 DEF vars, loopVars, EndInv
  <1> QED
    BY <1>1, <1>2, EngineEnd, NodeEnd DEF Next, Over

\* The deadlock error is raised over nodes none of which can ever start.
LEMMA DeadlockBlocked ==
    ASSUME TypeOK, LoopInv, RaiseDeadlock
    PROVE  Blocked(Nodes \ completed)
  <1>1. running = {} /\ failed = {}
    BY DEF RaiseDeadlock, LoopInv
  <1>2. completed # Nodes
    BY <1>1, LoopExit DEF RaiseDeadlock
  <1>3. Nodes \ completed # {} /\ Nodes \ (Nodes \ completed) = completed
    BY <1>2 DEF TypeOK
  <1>4. \A n \in Nodes \ completed : ~ (DependsOn[n] \subseteq completed)
    BY <1>1 DEF RaiseDeadlock, ReadyNodes
  <1> QED
    BY <1>3, <1>4 DEF Blocked

LEMMA NextError ==
    ASSUME TypeOK, LoopInv, ErrorInv, [Next]_vars
    PROVE  ErrorInv'
  <1> USE DEF ErrorInv, DeadlockIsReal
  <1>1. CASE RaiseDeadlock
    BY <1>1, DeadlockBlocked DEF RaiseDeadlock, Raise
  <1>2. CASE EngineStep /\ ~ RaiseDeadlock
    BY <1>2
    DEF EngineStep, Initialize, InitializeFails, AnnounceStart, AnnounceStartFails, Schedule,
        LeaveLoop, CollectSuccess, CollectFailure, AnnounceFailure, AnnounceFailureFails,
        Finish, FinishFails, AnnounceEnd, AnnounceEndFails, Goto, Raise
  <1>3. CASE \E n \in Nodes : NodeStep(n)
    BY <1>3, TaskMoves DEF loopVars
  <1>4. CASE LoseMemory \/ UNCHANGED vars
    BY <1>4 DEF LoseMemory, vars, loopVars
  <1> QED
    BY <1>1, <1>2, <1>3, <1>4 DEF Next, Over

LEMMA EndCorrect == Spec => [](EndInv /\ ErrorInv)
  <1>1. TypeOK /\ LoopInv /\ TraceInv /\ EndInv /\ ErrorInv /\ [Next]_vars => (EndInv /\ ErrorInv)'
    BY NextEnd, NextError
  <1> QED
    BY <1>1, InitEnd, TypeCorrect, LoopCorrect, TraceCorrect, PTL DEF Spec

\* The invariant that all the others rest on.
THEOREM Invariant == Spec => []IInv
  BY TypeCorrect, LoopCorrect, TraceCorrect, EndCorrect, PTL DEF IInv

\* What is recorded and returned as complete is complete.
THEOREM ResultCorrect == Spec => []ResultIsWhole
  <1>1. LoopInv /\ EndInv => ResultIsWhole
    BY DEF LoopInv, EndInv, ResultIsWhole
  <1> QED
    BY <1>1, LoopCorrect, EndCorrect, PTL

\* "Workflow graph cannot make progress" is only said of nodes that no
\* schedule could start.
THEOREM DeadlockCorrect == Spec => []DeadlockIsReal
  <1>1. ErrorInv => DeadlockIsReal
    BY DEF ErrorInv
  <1> QED
    BY <1>1, EndCorrect, PTL

\* A graph without cycles and unknown names is never declared deadlocked.
THEOREM NoFalseDeadlock ==
    ASSUME Schedulable
    PROVE  Spec => [](error # "workflow_deadlock")
  <1>1. DeadlockIsReal => error # "workflow_deadlock"
    BY DEF DeadlockIsReal, Schedulable
  <1> QED
    BY <1>1, DeadlockCorrect, PTL

\* After a failure has been collected, and after the end, nothing the
\* workflow has started writes or announces anything.
THEOREM EndIsFinal == Spec => NothingAfterTheEnd
  <1> DEFINE Closed == control \in {"announce_failure", "returned", "raised"}
             Still == UNCHANGED taskVars /\ memory' \in {memory, NoRecord}
  <1>1. LoopInv /\ TypeOK /\ [Next]_vars => (Closed => Still)
    <2> SUFFICES ASSUME LoopInv, TypeOK, [Next]_vars, Closed
                 PROVE  Still
      OBVIOUS
    <2>1. CASE EngineStep
      BY <2>1
      DEF EngineStep, Initialize, InitializeFails, AnnounceStart, AnnounceStartFails, Schedule,
          RaiseDeadlock, LeaveLoop, CollectSuccess, CollectFailure, AnnounceFailure,
          AnnounceFailureFails, Finish, FinishFails, AnnounceEnd, AnnounceEndFails
    <2>2. CASE \E n \in Nodes : NodeStep(n)
      BY <2>2, TaskMoves DEF LoopInv
    <2>3. CASE LoseMemory \/ UNCHANGED vars
      BY <2>3 DEF LoseMemory, vars, loopVars
    <2> QED
      BY <2>1, <2>2, <2>3 DEF Next, Over
  <1> QED
    BY <1>1, TypeCorrect, LoopCorrect, PTL DEF Spec, NothingAfterTheEnd

\* No node is given a second task.
THEOREM OneTask == Spec => OneTaskPerNode
  <1> DEFINE Kept == \A n \in Nodes :
                 phase[n] \notin {"idle", "spawned"} => phase'[n] \notin {"idle", "spawned"}
  <1>1. LoopInv /\ TypeOK /\ [Next]_vars => Kept
    <2> SUFFICES ASSUME LoopInv, TypeOK, [Next]_vars
                 PROVE  Kept
      OBVIOUS
    <2>1. CASE EngineStep
      BY <2>1, EngineKeeps
    <2>2. CASE \E n \in Nodes : NodeStep(n)
      BY <2>2, TaskMoves
    <2>3. CASE LoseMemory \/ UNCHANGED vars
      BY <2>3 DEF LoseMemory, vars, taskVars
    <2> QED
      BY <2>1, <2>2, <2>3 DEF Next, Over
  <1> QED
    BY <1>1, TypeCorrect, LoopCorrect, PTL DEF Spec, OneTaskPerNode
-----------------------------------------------------------------------------
(***************************************************************************)
(* Who is blamed.                                                          *)
(***************************************************************************)
LEMMA NextBlame ==
    ASSUME TypeOK, LoopInv, BlameIsFirst, [Next]_vars
    PROVE  BlameIsFirst'
  <1>1. CASE CollectFailure
    <2>1. PICK n \in Broken :
            /\ Broken \cap Before(n) = {}
            /\ completed' = completed \cup Before(n)
            /\ failed' = failed \cup {n}
      BY <1>1 DEF CollectFailure
    <2>2. failed' = {n} /\ n \in Nodes /\ UNCHANGED phase
      BY <1>1, <2>1 DEF CollectFailure, LoopInv, taskVars, Broken, TypeOK
    <2>3. \A m \in Nodes : phase[m] # "idle" => m \in running \cup completed
      BY <1>1 DEF CollectFailure, LoopInv
    <2>4. \A m \in Nodes : phase[m] = "failed" => m \in Broken
      BY <2>3 DEF Broken, LoopInv
    <2>5. \A m \in Nodes : phase[m] = "failed" => Position[n] <= Position[m]
      BY <2>1, <2>2, <2>4 DEF Before, Broken
    <2>6. \A m \in Nodes : phase[m] = "done" /\ Position[m] < Position[n] => m \in completed'
      BY <2>1, <2>3 DEF Before
    <2> QED
      BY <2>2, <2>5, <2>6 DEF BlameIsFirst
  <1>2. CASE EngineStep /\ ~ CollectFailure
    <2>1. failed' = failed /\ (failed = {} \/ UNCHANGED <<phase, completed>>)
      BY <1>2
      DEF EngineStep, Initialize, InitializeFails, AnnounceStart, AnnounceStartFails, Schedule,
          RaiseDeadlock, LeaveLoop, CollectSuccess, AnnounceFailure, AnnounceFailureFails,
          Finish, FinishFails, AnnounceEnd, AnnounceEndFails, Goto, Raise, taskVars, LoopInv
    <2> QED
      BY <2>1 DEF BlameIsFirst
  <1>3. CASE \E n \in Nodes : NodeStep(n)
    BY <1>3, TaskMoves DEF BlameIsFirst, LoopInv, loopVars
  <1>4. CASE LoseMemory \/ UNCHANGED vars
    BY <1>4 DEF LoseMemory, vars, loopVars, taskVars, BlameIsFirst
  <1> QED
    BY <1>1, <1>2, <1>3, <1>4 DEF Next, Over

\* The reported failure is the first one in the order of the graph.
THEOREM BlameCorrect == Spec => []BlameIsFirst
  <1>1. Init => BlameIsFirst
    BY DEF Init, BlameIsFirst
  <1>2. TypeOK /\ LoopInv /\ BlameIsFirst /\ [Next]_vars => BlameIsFirst'
    BY NextBlame
  <1> QED
    BY <1>1, <1>2, TypeCorrect, LoopCorrect, PTL DEF Spec
-----------------------------------------------------------------------------
(***************************************************************************)
(* The barrier between levels.                                             *)
(***************************************************************************)

\* Nodes start level by level, a whole level at a time, and a level starts
\* when the levels below it are completed.
LevelInv(L) ==
    \A m, n \in Nodes : phase[n] # "idle" =>
        /\ L[m] <= L[n] => phase[m] # "idle"
        /\ L[m] < L[n] => m \in completed

LEMMA ScheduleLevel ==
    ASSUME NEW L, IsLeveling(L), TypeOK, LoopInv, LevelInv(L), Schedule
    PROVE  LevelInv(L)'
  <1>1. /\ running = {} /\ failed = {}
        /\ \A n \in Nodes : phase[n] # "idle" => n \in completed
        /\ completed' = completed
    BY DEF Schedule, LoopInv
  <1>2. \A n \in Nodes : phase'[n] # "idle" <=> phase[n] # "idle" \/ DependsOn[n] \subseteq completed
    <2>1. ReadyNodes(completed, running, failed)
            = {n \in Nodes \ completed : DependsOn[n] \subseteq completed}
      BY <1>1 DEF ReadyNodes
    <2> QED
      BY <1>1, <2>1 DEF Schedule, LoopInv, TypeOK
  <1> SUFFICES ASSUME NEW m \in Nodes, NEW n \in Nodes, phase'[n] # "idle"
               PROVE  /\ L[m] <= L[n] => phase'[m] # "idle"
                      /\ L[m] < L[n] => m \in completed'
    BY DEF LevelInv
  <1>3. CASE phase[n] # "idle"
    BY <1>1, <1>2, <1>3 DEF LevelInv
  <1>4. CASE phase[n] = "idle" /\ DependsOn[n] = {}
    BY <1>2, <1>4 DEF IsLeveling
  <1>5. CASE phase[n] = "idle" /\ DependsOn[n] # {}
    <2>1. DependsOn[n] \subseteq completed
      BY <1>2, <1>5
    <2>2. PICK d \in DependsOn[n] : d \in Nodes /\ L[d] + 1 = L[n]
      BY <1>5 DEF IsLeveling
    <2>3. phase[d] # "idle"
      BY <2>1, <2>2 DEF LoopInv
    <2>4. \A k \in Nodes : L[k] < L[n] => k \in completed
      BY <1>1, <2>2, <2>3 DEF LevelInv, IsLeveling
    <2>5. L[m] <= L[n] => DependsOn[m] \subseteq completed
      BY <2>4 DEF IsLeveling
    <2> QED
      BY <1>1, <1>2, <2>4, <2>5
  <1> QED
    BY <1>2, <1>3, <1>4, <1>5

LEMMA NextLevel ==
    ASSUME NEW L, IsLeveling(L), TypeOK, LoopInv, LevelInv(L), [Next]_vars
    PROVE  LevelInv(L)'
  <1>1. CASE EngineStep /\ ~ Schedule
    <2>1. UNCHANGED phase /\ completed \subseteq completed'
      BY <1>1
      DEF EngineStep, Initialize, InitializeFails, AnnounceStart, AnnounceStartFails,
          RaiseDeadlock, LeaveLoop, CollectSuccess, CollectFailure, AnnounceFailure,
          AnnounceFailureFails, Finish, FinishFails, AnnounceEnd, AnnounceEndFails,
          Goto, Raise, taskVars
    <2> QED
      BY <2>1 DEF LevelInv
  <1>2. CASE \E n \in Nodes : NodeStep(n)
    <2>1. PICK k \in Nodes : NodeStep(k)
      BY <1>2
    <2>2. \A n \in Nodes : phase'[n] # "idle" <=> phase[n] # "idle"
      BY <2>1, TaskMoves
    <2>3. UNCHANGED completed
      BY <2>1, TaskMoves DEF loopVars
    <2> QED
      BY <2>2, <2>3 DEF LevelInv
  <1>3. CASE LoseMemory \/ UNCHANGED vars
    BY <1>3 DEF LoseMemory, vars, loopVars, taskVars, LevelInv
  <1> QED
    BY <1>1, <1>2, <1>3, ScheduleLevel DEF Next, Over

\* Whatever the graph, a node starts only when every node of every lower
\* level has finished, related to it or not: a node may read any output of a
\* lower level although it does not depend on it.
THEOREM BarrierCorrect ==
    ASSUME NEW CONSTANT L, IsLeveling(L)
    PROVE  Spec => []BarrierHolds(L)
  <1>1. Init => LevelInv(L)
    BY DEF Init, LevelInv
  <1>2. TypeOK /\ LoopInv /\ LevelInv(L) /\ [Next]_vars => LevelInv(L)'
    BY NextLevel
  <1>3. LoopInv /\ LevelInv(L) => BarrierHolds(L)
    BY DEF LoopInv, LevelInv, BarrierHolds
  <1> QED
    BY <1>1, <1>2, <1>3, TypeCorrect, LoopCorrect, PTL DEF Spec
-----------------------------------------------------------------------------
(***************************************************************************)
(* The engine implements DagExecution.                                     *)
(***************************************************************************)
Launched == {n \in Nodes : phase[n] # "idle"}
Succeeded == {n \in Nodes : phase[n] = "done"}
GaveUp == {n \in Nodes : phase[n] = "failed"}

\* Outside a gather no launched node is at work.
LEMMA Idle ==
    ASSUME LoopInv, control # "gather"
    PROVE  Launched \ (Succeeded \cup GaveUp) = {}
  BY DEF LoopInv, Launched, Succeeded, GaveUp

\* A wave is one launch.
LEMMA ScheduleLaunches ==
    ASSUME TypeOK, LoopInv, Schedule
    PROVE  \E batch \in SUBSET Nodes : Dag!Launch(batch)
  <1> DEFINE ready == ReadyNodes(completed, running, failed)
  <1>1. /\ control = "schedule" /\ control' = "gather" /\ ready # {}
        /\ phase' = [n \in Nodes |-> IF n \in ready THEN "spawned" ELSE phase[n]]
    BY DEF Schedule
  <1>2. \A n \in Nodes : phase[n] = "idle" \/ (phase[n] = "done" /\ n \in completed)
    BY <1>1 DEF LoopInv
  <1>3. /\ ready \subseteq Nodes
        /\ \A n \in ready : n \notin completed /\ DependsOn[n] \subseteq completed
    BY DEF ReadyNodes
  <1>4. \A n \in ready : phase[n] = "idle"
    BY <1>2, <1>3
  <1>5. \A n \in completed : n \in Nodes /\ phase[n] = "done"
    BY DEF LoopInv, TypeOK
  <1>6. \A n \in ready : DependsOn[n] \subseteq Succeeded
    BY <1>3, <1>5 DEF Succeeded
  <1>7. /\ Launched' = Launched \cup ready
        /\ Succeeded' = Succeeded
        /\ GaveUp' = GaveUp
        /\ GaveUp = {}
        /\ ready \cap Launched = {}
    <2>1. \A n \in Nodes : n \in ready => phase'[n] = "spawned" /\ phase[n] = "idle"
      BY <1>1, <1>4
    <2>2. \A n \in Nodes : n \notin ready => phase'[n] = phase[n]
      BY <1>1
    <2> QED
      BY <1>2, <1>3, <2>1, <2>2 DEF Launched, Succeeded, GaveUp
  <1>8. ready \in SUBSET Nodes
    BY <1>3
  <1> HIDE DEF ready
  <1> QED
    BY <1>1, <1>6, <1>7, <1>8 DEF Dag!Launch, Launched, Succeeded, GaveUp

\* Every other step of execute leaves the tasks alone; it may give the
\* caller the answer, and does so over idle tasks only.
LEMMA EngineAnswers ==
    ASSUME TypeOK, LoopInv, EndInv, EngineStep, ~ Schedule
    PROVE  Dag!AnswerSuccess \/ Dag!AnswerFailure \/ UNCHANGED Dag!vars
  <1>1. /\ UNCHANGED phase
        /\ control \notin {"returned", "raised"}
        /\ control' = "returned" => control = "announce_end"
        /\ control' = "raised" => control # "gather"
    BY DEF EngineStep, Initialize, InitializeFails, AnnounceStart, AnnounceStartFails,
         RaiseDeadlock, LeaveLoop, CollectSuccess, CollectFailure, AnnounceFailure,
         AnnounceFailureFails, Finish, FinishFails, AnnounceEnd, AnnounceEndFails,
         Goto, Raise, taskVars
  <1>2. UNCHANGED <<Launched, Succeeded, GaveUp>>
    BY <1>1 DEF Launched, Succeeded, GaveUp
  <1>3. CASE control' = "returned"
    <2>1. Succeeded = Nodes
      BY <1>1, <1>3 DEF EndInv, LoopInv, Succeeded
    <2> QED
      BY <1>1, <1>2, <1>3, <2>1 DEF Dag!AnswerSuccess, Launched, Succeeded, GaveUp
  <1>4. CASE control' = "raised"
    <2>1. Launched \ (Succeeded \cup GaveUp) = {}
      BY <1>1, <1>4, Idle
    <2> QED
      BY <1>1, <1>2, <1>4, <2>1 DEF Dag!AnswerFailure, Dag!Active, Launched, Succeeded, GaveUp
  <1>5. CASE control' \notin {"returned", "raised"}
    BY <1>1, <1>2, <1>5 DEF Dag!vars, Launched, Succeeded, GaveUp
  <1> QED
    BY <1>3, <1>4, <1>5

\* A step of a task ends it or is invisible.
LEMMA NodeEnds ==
    ASSUME TypeOK, NEW n \in Nodes, NodeStep(n)
    PROVE  Dag!Succeed(n) \/ Dag!Break(n) \/ UNCHANGED Dag!vars
  <1>1. /\ UNCHANGED control
        /\ phase[n] \notin {"idle", "done", "failed"}
        /\ phase'[n] # "idle"
        /\ \A m \in Nodes \ {n} : phase'[m] = phase[m]
    BY TaskMoves DEF loopVars
  <1>2. Launched' = Launched /\ n \in Launched \ (Succeeded \cup GaveUp)
    BY <1>1 DEF Launched, Succeeded, GaveUp
  <1>3. CASE phase'[n] = "done"
    <2>1. Succeeded' = Succeeded \cup {n} /\ GaveUp' = GaveUp
      BY <1>1, <1>3 DEF Succeeded, GaveUp
    <2> QED
      BY <1>1, <1>2, <2>1 DEF Dag!Succeed, Dag!Active, Launched, Succeeded, GaveUp
  <1>4. CASE phase'[n] = "failed"
    <2>1. GaveUp' = GaveUp \cup {n} /\ Succeeded' = Succeeded
      BY <1>1, <1>4 DEF Succeeded, GaveUp
    <2> QED
      BY <1>1, <1>2, <2>1 DEF Dag!Break, Dag!Active, Launched, Succeeded, GaveUp
  <1>5. CASE phase'[n] \notin {"done", "failed"}
    <2>1. Succeeded' = Succeeded /\ GaveUp' = GaveUp
      BY <1>1, <1>5 DEF Succeeded, GaveUp
    <2> QED
      BY <1>1, <1>2, <2>1 DEF Dag!vars, Launched, Succeeded, GaveUp
  <1> QED
    BY <1>3, <1>4, <1>5

LEMMA NextDag ==
    ASSUME TypeOK, LoopInv, EndInv, [Next]_vars
    PROVE  [Dag!Next]_(Dag!vars)
  <1>1. CASE Schedule
    BY <1>1, ScheduleLaunches DEF Dag!Next
  <1>2. CASE EngineStep /\ ~ Schedule
    BY <1>2, EngineAnswers DEF Dag!Next
  <1>3. CASE \E n \in Nodes : NodeStep(n)
    BY <1>3, NodeEnds DEF Dag!Next
  <1>4. CASE LoseMemory \/ UNCHANGED vars
    BY <1>4 DEF LoseMemory, vars, loopVars, taskVars, Dag!vars
  <1> QED
    BY <1>1, <1>2, <1>3, <1>4 DEF Next, Over

\* Every execution is one that DagExecution allows.
THEOREM DagImplemented == Spec => ImplementsDag
  <1>1. Init => Dag!Init
    BY DEF Init, Dag!Init
  <1>2. TypeOK /\ LoopInv /\ EndInv /\ [Next]_vars => [Dag!Next]_(Dag!vars)
    BY NextDag
  <1> QED
    BY <1>1, <1>2, TypeCorrect, LoopCorrect, EndCorrect, PTL DEF Spec, ImplementsDag, Dag!Spec
-----------------------------------------------------------------------------
(***************************************************************************)
(* How much there is left to do.                                           *)
(***************************************************************************)

\* The steps that the task of a node may still take, at most: five for each
\* attempt, one to begin and one to be created.
StepsLeft(n) ==
    CASE phase[n] = "idle" -> 5 * Attempts(n) + 2
      [] phase[n] = "spawned" -> 5 * Attempts(n) + 1
      [] phase[n] = "reading" -> 5 * (Attempts(n) - attempt[n]) + 4
      [] phase[n] = "agent" -> 5 * (Attempts(n) - attempt[n]) + 3
      [] phase[n] = "updating" -> 5 * (Attempts(n) - attempt[n]) + 2
      [] phase[n] = "announcing" -> 5 * (Attempts(n) - attempt[n]) + 1
      [] OTHER -> 0

\* The steps that execute may still take unless it creates another task.
LoopLeft ==
    CASE control = "initialize" -> 7
      [] control = "announce_start" -> 6
      [] control = "gather" -> 5
      [] control = "schedule" -> 4
      [] control = "finish" -> 3
      [] control = "announce_end" -> 2
      [] control = "announce_failure" -> 1
      [] OTHER -> 0

\* Nobody is given more to do, and somebody less; or execute itself comes
\* closer to its end.
Advances ==
    \/ /\ \A n \in Nodes : StepsLeft(n)' <= StepsLeft(n)
       /\ \E n \in Nodes : StepsLeft(n)' < StepsLeft(n)
    \/ /\ \A n \in Nodes : StepsLeft(n)' = StepsLeft(n)
       /\ LoopLeft' < LoopLeft

\* Both are counted in natural numbers.
LEMMA LeftType == TypeOK => LoopLeft \in Nat /\ \A n \in Nodes : StepsLeft(n) \in Nat
  <1> SUFFICES ASSUME TypeOK, NEW n \in Nodes
               PROVE  LoopLeft \in Nat /\ StepsLeft(n) \in Nat
    BY DEF LoopLeft
  <1>1. LoopLeft \in Nat
    BY DEF LoopLeft
  <1>2. /\ Attempts(n) \in Nat /\ attempt[n] \in Nat
        /\ Attempts(n) - attempt[n] \in Nat
    BY DEF TypeOK, Attempts
  <1> QED
    BY <1>1, <1>2 DEF StepsLeft

\* A step of a task leaves it less to do, and the other tasks as much.
LEMMA TaskAdvances ==
    ASSUME TypeOK, NEW n \in Nodes, NodeStep(n)
    PROVE  /\ StepsLeft(n)' < StepsLeft(n) /\ StepsLeft(n)' <= StepsLeft(n)
           /\ \A m \in Nodes \ {n} : StepsLeft(m)' = StepsLeft(m)
  <1>1. /\ Attempts(n) \in Nat /\ attempt[n] \in Nat
        /\ Attempts(n) - attempt[n] \in Nat
        /\ \A m \in Nodes : Attempts(m)' = Attempts(m)
    BY DEF TypeOK, Attempts
  <1>2. \A m \in Nodes \ {n} : phase'[m] = phase[m] /\ attempt'[m] = attempt[m]
    BY TaskMoves DEF TypeOK, NodeStep, StartNode, StartFails, ReadMemory, ReadFails, AgentReturns,
       AgentFails, UpdateMemory, UpdateFails, AnnounceNode, AnnounceFails, AttemptFails
  <1>3. StepsLeft(n)' < StepsLeft(n) /\ StepsLeft(n)' <= StepsLeft(n)
    <2>1. CASE AttemptFails(n) /\ phase[n] \in {"reading", "agent", "updating", "announcing"}
      <3>1. CASE attempt[n] < Attempts(n)
        <4>1. phase'[n] = "reading" /\ attempt'[n] = attempt[n] + 1
          BY <2>1, <3>1 DEF AttemptFails, TypeOK
        <4> QED
          BY <1>1, <2>1, <3>1, <4>1 DEF StepsLeft
      <3>2. CASE ~ (attempt[n] < Attempts(n))
        <4>1. phase'[n] = "failed"
          BY <2>1, <3>2 DEF AttemptFails, TypeOK
        <4> QED
          BY <1>1, <2>1, <4>1 DEF StepsLeft
      <3> QED
        BY <3>1, <3>2
    <2>2. CASE StartNode(n)
      <3>1. phase[n] = "spawned" /\ phase'[n] = "reading" /\ attempt'[n] = 1
        BY <2>2 DEF StartNode, Move, TypeOK
      <3> QED
        BY <1>1, <3>1 DEF StepsLeft
    <2>3. CASE StartFails(n)
      <3>1. phase[n] = "spawned" /\ phase'[n] = "failed"
        BY <2>3 DEF StartFails, Move, TypeOK
      <3> QED
        BY <1>1, <3>1 DEF StepsLeft
    <2>4. CASE ReadMemory(n) \/ AgentReturns(n) \/ UpdateMemory(n) \/ AnnounceNode(n)
      <3>1. /\ attempt'[n] = attempt[n]
            /\ \/ phase[n] = "reading" /\ phase'[n] = "agent"
               \/ phase[n] = "agent" /\ phase'[n] = "updating"
               \/ phase[n] = "updating" /\ phase'[n] = "announcing"
               \/ phase[n] = "announcing" /\ phase'[n] = "done"
        BY <2>4 DEF ReadMemory, AgentReturns, UpdateMemory, AnnounceNode, Move, TypeOK
      <3> QED
        BY <1>1, <3>1 DEF StepsLeft
    <2> QED
      BY <2>1, <2>2, <2>3, <2>4 DEF NodeStep, ReadFails, AgentFails, UpdateFails, AnnounceFails
  <1>4. \A m \in Nodes \ {n} : StepsLeft(m)' = StepsLeft(m)
    BY <1>1, <1>2 DEF StepsLeft
  <1> QED
    BY <1>3, <1>4

\* Execute makes tasks of nodes that had none, or comes closer to its end.
LEMMA LoopAdvances ==
    ASSUME TypeOK, LoopInv, EngineStep
    PROVE  Advances
  <1>1. \A m \in Nodes : Attempts(m)' = Attempts(m) /\ Attempts(m) \in Nat
    BY DEF TypeOK, Attempts
  <1>2. CASE Schedule
    <2> DEFINE ready == ReadyNodes(completed, running, failed)
    <2>1. ready # {} /\ ready \subseteq Nodes /\ UNCHANGED attempt
      BY <1>2 DEF Schedule, ReadyNodes
    <2>2. \A n \in ready : phase[n] = "idle" /\ phase'[n] = "spawned"
      BY <1>2 DEF Schedule, ReadyNodes, LoopInv
    <2>3. \A n \in Nodes \ ready : phase'[n] = phase[n]
      BY <1>2 DEF Schedule
    <2> HIDE DEF ready
    <2>4. \A n \in ready : StepsLeft(n)' < StepsLeft(n) /\ StepsLeft(n)' <= StepsLeft(n)
      BY <1>1, <2>1, <2>2 DEF StepsLeft
    <2>5. \A n \in Nodes \ ready : StepsLeft(n)' = StepsLeft(n)
      BY <1>1, <2>1, <2>3 DEF StepsLeft
    <2>6. \A n \in Nodes : StepsLeft(n)' <= StepsLeft(n)
      BY <2>4, <2>5, LeftType
    <2> QED
      BY <2>1, <2>4, <2>6 DEF Advances
  <1>3. CASE ~ Schedule
    <2>1. phase' = phase /\ attempt' = attempt
      BY <1>3 DEF EngineStep, Initialize, InitializeFails, AnnounceStart, AnnounceStartFails,
         RaiseDeadlock, LeaveLoop, CollectSuccess, CollectFailure, AnnounceFailure,
         AnnounceFailureFails, Finish, FinishFails, AnnounceEnd, AnnounceEndFails, taskVars
    <2>2. \A n \in Nodes : StepsLeft(n)' = StepsLeft(n)
      BY <1>1, <2>1 DEF StepsLeft
    <2>3. LoopLeft' < LoopLeft
      BY <1>3 DEF EngineStep, Initialize, InitializeFails, AnnounceStart, AnnounceStartFails,
         RaiseDeadlock, LeaveLoop, CollectSuccess, CollectFailure, AnnounceFailure,
         AnnounceFailureFails, Finish, FinishFails, AnnounceEnd, AnnounceEndFails, Goto, Raise,
         LoopLeft
    <2> QED
      BY <2>2, <2>3 DEF Advances
  <1> QED
    BY <1>2, <1>3

\* The work is bounded: each step, other than the loss of the record, leaves
\* the tasks less to do or brings execute closer to its end, whatever fails
\* and is retried.  No node is tried for ever, no wave follows another one
\* without end (engine.py 58-89, 106-140); that execute ends is then a matter
\* of fairness alone.
THEOREM WorkIsBounded == Spec => [][Advances \/ LoseMemory]_vars
  <1>1. TypeOK /\ LoopInv /\ [Next]_vars => [Advances \/ LoseMemory]_vars
    <2> SUFFICES ASSUME TypeOK, LoopInv, Next
                 PROVE  Advances \/ LoseMemory \/ UNCHANGED vars
      OBVIOUS
    <2>1. ASSUME NEW n \in Nodes, NodeStep(n)
          PROVE  Advances
      <3>1. \A m \in Nodes : StepsLeft(m)' <= StepsLeft(m)
        BY <2>1, TaskAdvances, LeftType
      <3> QED
        BY <2>1, <3>1, TaskAdvances DEF Advances
    <2> QED
      BY <2>1, LoopAdvances DEF Next, Over
  <1> QED
    BY <1>1, TypeCorrect, LoopCorrect, PTL DEF Spec
-----------------------------------------------------------------------------
(***************************************************************************)
(* Somebody can always go on.                                              *)
(***************************************************************************)

\* One of any failed tasks of a wave comes first in the graph's order.
LEMMA FirstOfMany ==
    ASSUME TypeOK, Broken # {}
    PROVE  \E n \in Broken : Broken \cap Before(n) = {}
  <1> DEFINE Earlier(n) == Broken \cap Before(n)
             T == {Earlier(n) : n \in Broken}
             R == StrictSubsetOrdering(Nodes)
  <1>1. Broken \subseteq Nodes /\ \A n \in Broken : Earlier(n) \subseteq Nodes
    BY DEF TypeOK, Broken
  <1>2. IsWellFoundedOn(R, SUBSET Nodes)
    BY FS_StrictSubsetOrderingWellFounded, FS_FiniteSubsetsOfFinite, GraphAssumption
  <1>3. T \subseteq SUBSET Nodes /\ T # {}
    <2> HIDE DEF Earlier
    <2> QED
      BY <1>1
  <1>4. PICK S \in T : \A U \in T : ~ (<<U, S>> \in R)
    <2> HIDE DEF T, R
    <2> QED
      BY <1>2, <1>3, WFMin
  <1>5. PICK n \in Broken : S = Earlier(n)
    BY <1>4
  <1>6. ASSUME NEW m \in Earlier(n)
        PROVE  FALSE
    <2>1. m \in Broken /\ Position[m] < Position[n]
      BY DEF Before
    <2>2. Position[m] \in Nat /\ Position[n] \in Nat
      BY <1>1, <2>1, PositionAssumption
    <2>3. Earlier(m) \subseteq Earlier(n)
      <3> SUFFICES ASSUME NEW k \in Earlier(m)
                   PROVE  k \in Earlier(n)
        OBVIOUS
      <3>1. k \in Broken /\ k \in running /\ Position[k] < Position[m]
        BY DEF Before
      <3>2. Position[k] \in Nat
        BY <1>1, <3>1, PositionAssumption
      <3> QED
        BY <2>1, <2>2, <3>1, <3>2 DEF Before
    <2>4. m \in Earlier(n) /\ m \notin Earlier(m)
      BY <2>2 DEF Before
    <2>5. <<Earlier(m), Earlier(n)>> \in R
      BY <1>1, <2>1, <2>3, <2>4 DEF StrictSubsetOrdering
    <2>6. Earlier(m) \in T
      BY <2>1
    <2> QED
      BY <1>4, <1>5, <2>5, <2>6
  <1> QED
    BY <1>6

\* While execute awaits a wave, each of its nodes has a task.
WaveStarted == control = "gather" => \A n \in running : phase[n] # "idle"

\* A wave is made of nodes that are given a task in the same step.
LEMMA NextStarted ==
    ASSUME TypeOK, LoopInv, WaveStarted, [Next]_vars
    PROVE  WaveStarted'
  <1>1. CASE Schedule
    <2>1. running = {} /\ running' = ReadyNodes(completed, running, failed)
      BY <1>1 DEF Schedule, LoopInv
    <2>2. \A n \in running' : phase'[n] = "spawned"
      BY <1>1, <2>1 DEF Schedule, ReadyNodes
    <2> QED
      BY <2>2 DEF WaveStarted
  <1>2. CASE EngineStep /\ ~ Schedule
    BY <1>2 DEF EngineStep, Initialize, InitializeFails, AnnounceStart, AnnounceStartFails,
       RaiseDeadlock, LeaveLoop, CollectSuccess, CollectFailure, AnnounceFailure,
       AnnounceFailureFails, Finish, FinishFails, AnnounceEnd, AnnounceEndFails, Goto, Raise,
       WaveStarted
  <1>3. ASSUME NEW n \in Nodes, NodeStep(n)
        PROVE  WaveStarted'
    BY <1>3, TaskMoves DEF WaveStarted, loopVars, TypeOK
  <1>4. CASE LoseMemory \/ UNCHANGED vars
    BY <1>4 DEF LoseMemory, WaveStarted, vars, loopVars, taskVars
  <1> QED
    BY <1>1, <1>2, <1>3, <1>4 DEF Next, Over

\* A condition under which there is a step to take: execute is at an await
\* that answers or raises, its loop has a branch for what it finds, a task of
\* the awaited wave is not over, or all are and the results can be read.
CanStep ==
    \/ control \in {"initialize", "announce_start", "announce_failure", "finish", "announce_end"}
    \/ /\ control = "schedule"
       /\ \/ AllAccounted(completed, failed)
          \/ ReadyNodes(completed, running, failed) # {}
          \/ running = {}
    \/ /\ control = "gather"
       /\ \/ \E n \in running : phase[n] \in {"spawned", "reading", "agent", "updating", "announcing"}
          \/ WaveEnded /\ (Broken = {} \/ \E n \in Broken : Broken \cap Before(n) = {})

\* execute is never stuck before its end: not at the head of its loop, where
\* it would sleep if tasks were running that nobody awaits (engine.py 61-63),
\* and not in a gather, whose tasks have all been created and whose results
\* have a first exception if they have one.
THEOREM NeverStuck == Spec => [](control \notin {"returned", "raised"} => CanStep)
  <1>1. Init => WaveStarted
    BY DEF Init, WaveStarted
  <1>2. TypeOK /\ LoopInv /\ WaveStarted => (control \notin {"returned", "raised"} => CanStep)
    <2> SUFFICES ASSUME TypeOK, LoopInv, WaveStarted, control \in {"schedule", "gather"}
                 PROVE  CanStep
      BY DEF TypeOK, Controls, CanStep
    <2>1. CASE control = "schedule"
      BY <2>1 DEF LoopInv, CanStep
    <2>2. CASE control = "gather"
      <3>1. CASE WaveEnded
        BY <2>2, <3>1, FirstOfMany DEF CanStep
      <3>2. CASE ~ WaveEnded
        <4>1. PICK n \in running : phase[n] \notin {"done", "failed"}
          BY <3>2 DEF WaveEnded, Ended
        <4>2. phase[n] \in {"spawned", "reading", "agent", "updating", "announcing"}
          BY <2>2, <4>1 DEF WaveStarted, TypeOK, Phases
        <4> QED
          BY <2>2, <4>2 DEF CanStep
      <3> QED
        BY <3>1, <3>2
    <2> QED
      BY <2>1, <2>2
  <1>3. TypeOK /\ LoopInv /\ WaveStarted /\ [Next]_vars => WaveStarted'
    BY NextStarted
  <1> QED
    BY <1>1, <1>2, <1>3, TypeCorrect, LoopCorrect, PTL DEF Spec
=============================================================================

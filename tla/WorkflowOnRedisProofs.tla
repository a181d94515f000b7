----------------------- MODULE WorkflowOnRedisProofs -----------------------
(***************************************************************************)
(* The proof that the engine over the lock protocol does what the engine   *)
(* over a memory of one step does, for every graph, every number of        *)
(* retries and every combination of faults.                                *)
(*                                                                         *)
(* The steps of the protocol are those of SharedMemory, so its invariants  *)
(* hold here by the step lemmas of SharedMemoryProofs; the steps that      *)
(* leave the memory alone are those of WorkflowEngine.  What is new is how *)
(* the calls of update are tied to the attempts that make them.            *)
(***************************************************************************)
EXTENDS WorkflowOnRedis, WorkflowEngineProofs

USE OwnerAssumption, GraphAssumption

SMP == INSTANCE SharedMemoryProofs WITH
        Updates <- Calls,
        Checked <- {},
        SlowHolders <- FALSE,
        Faults <- IF "memory" \in Faults THEN {"redis"} ELSE {}
-----------------------------------------------------------------------------
(***************************************************************************)
(* The calls.                                                              *)
(***************************************************************************)
\* What the calls are called.
LEMMA CallNames ==
    /\ Closing \in Calls
    /\ \A n \in Nodes : \A k \in 1 .. Attempts(n) : <<n, k>> \in Calls /\ <<n, k>> # Closing
    /\ \A u \in Calls : u # Closing => \E n \in Nodes : \E k \in 1 .. Attempts(n) : u = <<n, k>>
  BY DEF Calls, Closing, Attempts

\* A finite graph makes finitely many calls.
LEMMA CallsFinite == IsFiniteSet(Calls)
  <1> DEFINE Of(n) == {<<n, k>> : k \in 1 .. Attempts(n)}
             Sets == {Of(n) : n \in Nodes}
             f == [n \in Nodes |-> Of(n)]
  <1>1. ASSUME NEW n \in Nodes
        PROVE  IsFiniteSet(Of(n))
    <2> DEFINE g == [k \in 1 .. Attempts(n) |-> <<n, k>>]
    <2>1. IsFiniteSet(1 .. Attempts(n))
      <3>1. 1 \in Int /\ Attempts(n) \in Int
        BY DEF Attempts
      <3> QED
        BY <3>1, FS_Interval
    <2>2. g \in Surjection(1 .. Attempts(n), Of(n))
      BY DEF Surjection
    <2> QED
      BY <2>1, <2>2, FS_Surjection
  <1>2. f \in Surjection(Nodes, Sets)
    <2>1. f \in [Nodes -> Sets] /\ \A S \in Sets : \E n \in Nodes : f[n] = S
      <3> HIDE DEF Of
      <3> QED
        OBVIOUS
    <2> QED
      BY <2>1 DEF Surjection
  <1> HIDE DEF Sets, f
  <1>3. IsFiniteSet(Sets)
    BY <1>2, FS_Surjection, GraphAssumption
  <1>4. \A S \in Sets : IsFiniteSet(S)
    BY <1>1 DEF Sets
  <1>5. IsFiniteSet(UNION Sets)
    BY <1>3, <1>4, FS_UNION
  <1> QED
    BY <1>5, FS_Union, FS_Singleton DEF Calls, Sets

\* SharedMemory may be instantiated with these calls.
LEMMA CallsFit == SMP!MemoryAssumption
  <1>1. ASSUME NEW S, IsFiniteSet(S)
        PROVE  SMP!IsFiniteSet(S)
    BY <1>1 DEF IsFiniteSet, SMP!IsFiniteSet
  <1> QED
    BY <1>1, CallsFinite DEF SMP!MemoryAssumption, SMP!FaultKinds

\* The two instances say the same.
LEMMA SameMemory ==
    /\ SM!TypeOK <=> SMP!TypeOK
    /\ SM!LockInv <=> SMP!LockInv
    /\ SM!RecordInv <=> SMP!RecordInv
  <1>1. SM!TypeOK <=> SMP!TypeOK
    BY DEF SM!TypeOK, SMP!TypeOK, SM!Record, SMP!Record, SM!Places, SMP!Places
  <1>2. SM!LockInv <=> SMP!LockInv
    BY DEF SM!LockInv, SMP!LockInv
  <1>3. ASSUME NEW S
        PROVE  SM!Cardinality(S) = SMP!Cardinality(S)
    BY DEF SM!Cardinality, SMP!Cardinality
  <1>4. ASSUME NEW r 
        PROVE  SM!Sound(r) <=> SMP!Sound(r)
    BY <1>3 DEF SM!Sound, SMP!Sound, SM!Ending, SMP!Ending, SM!Over, SMP!Over
  <1>5. SM!RecordInv <=> SMP!RecordInv
    BY <1>4 DEF SM!RecordInv, SMP!RecordInv, SM!Ending, SMP!Ending, SM!Over, SMP!Over
  <1> QED
    BY <1>1, <1>2, <1>5

\* A step of a call is one of SharedMemory.
LEMMA SameSteps ==
    /\ SM!Initialize \/ SM!Expire => SMP!Next
    /\ \A u \in Calls :
          SM!Call(u) \/ SM!Acquire(u) \/ SM!AcquireFails(u) \/ SM!ReadRecord(u) \/ SM!ReadFails(u)
          \/ SM!WriteRecord(u) \/ SM!WriteFails(u) \/ SM!Release(u) \/ SM!ReleaseFails(u)
             => SMP!Next
    /\ UNCHANGED redisVars => UNCHANGED SMP!vars
  <1> USE DEF SM!Move, SMP!Move, SM!Leave, SMP!Leave, SM!Merged, SMP!Merged,
        SM!NoRecord, SMP!NoRecord, SM!FirstRecord, SMP!FirstRecord
  <1>1. SM!Initialize => SMP!Initialize
    BY DEF SM!Initialize, SMP!Initialize
  <1>2. SM!Expire => SMP!Expire
    BY DEF SM!Expire, SMP!Expire, SM!Abandoned, SMP!Abandoned, SM!Over, SMP!Over
  <1>3. ASSUME NEW u \in Calls
        PROVE  /\ SM!Call(u) => SMP!Call(u)
               /\ SM!Acquire(u) => SMP!Acquire(u)
               /\ SM!AcquireFails(u) => SMP!AcquireFails(u)
               /\ SM!ReadRecord(u) => SMP!ReadRecord(u)
               /\ SM!ReadFails(u) => SMP!ReadFails(u)
    BY DEF SM!Call, SMP!Call, SM!Acquire, SMP!Acquire, SM!AcquireFails, SMP!AcquireFails,
         SM!ReadRecord, SMP!ReadRecord, SM!ReadFails, SMP!ReadFails,
         SM!VersionMatches, SMP!VersionMatches
  <1>4. ASSUME NEW u \in Calls
        PROVE  /\ SM!WriteRecord(u) => SMP!WriteRecord(u)
               /\ SM!WriteFails(u) => SMP!WriteFails(u)
               /\ SM!Release(u) => SMP!Release(u)
               /\ SM!ReleaseFails(u) => SMP!ReleaseFails(u)
    BY DEF SM!WriteRecord, SMP!WriteRecord, SM!WriteFails, SMP!WriteFails,
         SM!Release, SMP!Release, SM!ReleaseFails, SMP!ReleaseFails
  <1>5. UNCHANGED redisVars => UNCHANGED SMP!vars
    BY DEF redisVars, SMP!vars
  <1> QED
    BY <1>1, <1>2, <1>3, <1>4, <1>5 DEF SMP!Next, SMP!Step, SMP!Proceed

\* The current attempt of a task in its retry loop has a call.
LEMMA CurrentCall ==
    ASSUME AttemptsInv, NEW n \in Nodes, phase[n] \in {"agent", "updating"}
    PROVE  CallOf(n) \in Calls
  BY CallNames DEF AttemptsInv, CallOf

\* Seen from Redis, the workflow does what SharedMemory allows.
LEMMA RedisStep ==
    ASSUME AttemptsInv, NextOnRedis
    PROVE  [SMP!Next]_(SMP!vars)
  <1>1. CASE StartRun
    BY <1>1, SameSteps DEF StartRun
  <1>2. CASE Loop \/ LoopHook \/ GoDeaf \/ Rest \/ \E n \in Nodes : Task(n) \/ TaskHook(n)
    <2>1. UNCHANGED redisVars
      BY <1>2 DEF Loop, LoopHook, GoDeaf, Rest, Task, TaskHook, allVars
    <2> QED
      BY <2>1, SameSteps
  <1>3. CASE CallClosing \/ InsideUpdate(Closing) \/ ClosingEnds \/ ClosingNotBegun
    BY <1>3, CallNames, SameSteps
    DEF CallClosing, InsideUpdate, ClosingEnds, ClosingNotBegun, LeaveUpdate
  <1>4. ASSUME NEW n \in Nodes,
               \/ CallUpdate(n) \/ UpdateEnds(n) \/ UpdateNotBegun(n)
               \/ phase[n] = "updating" /\ InsideUpdate(CallOf(n))
        PROVE  SMP!Next
    <2>1. CallOf(n) \in Calls
      BY <1>4, CurrentCall DEF CallUpdate, AgentReturns, Move, UpdateEnds, UpdateNotBegun
    <2> QED
      BY <1>4, <2>1, SameSteps DEF CallUpdate, InsideUpdate, UpdateEnds, UpdateNotBegun, LeaveUpdate
  <1>5. CASE LockExpires
    BY <1>5, SameSteps DEF LockExpires
  <1> QED
    BY <1>1, <1>2, <1>3, <1>4, <1>5 DEF NextOnRedis, LoopProceeds, TaskProceeds

\* ...so that the invariants of SharedMemory hold.
LEMMA RedisNext ==
    ASSUME SM!TypeOK, SM!LockInv, SM!RecordInv, AttemptsInv, NextOnRedis
    PROVE  SMP!TypeOK' /\ SMP!LockInv' /\ SMP!RecordInv'
  <1>1. SMP!TypeOK /\ SMP!LockInv /\ SMP!RecordInv /\ [SMP!Next]_(SMP!vars)
    BY SameMemory, RedisStep
  <1>2. SMP!TypeOK'
    BY <1>1, CallsFit, SMP!NextType DEF SMP!MemoryAssumption
  <1>3. SMP!LockInv'
    BY <1>1, CallsFit, SMP!NextLock DEF SMP!MemoryAssumption
  <1>4. SMP!RecordInv'
    BY <1>1, CallsFit, SMP!NextRecord DEF SMP!MemoryAssumption
  <1> QED
    BY <1>2, <1>3, <1>4
-----------------------------------------------------------------------------
(***************************************************************************)
(* What a step of one call leaves alone.                                   *)
(***************************************************************************)
\* Within the body of the "async with"...
LEMMA InsideMoves ==
    ASSUME SM!TypeOK, NEW u \in Calls, InsideUpdate(u)
    PROVE  /\ pc[u] \in Active /\ pc'[u] \in Active
           /\ \A v \in Calls \ {u} : pc'[v] = pc[v] /\ verdict'[v] = verdict[v]
           /\ UNCHANGED <<created, loopVars, taskVars, eventVars>>
           /\ memory' = View(record')
  BY DEF InsideUpdate, SM!Acquire, SM!ReadRecord, SM!ReadFails, SM!WriteRecord, SM!WriteFails,
       SM!Leave, SM!Move, SM!TypeOK, Active

\* ...at its end...
LEMMA LeaveMoves ==
    ASSUME SM!TypeOK, NEW u \in Calls, LeaveUpdate(u) \/ SM!AcquireFails(u)
    PROVE  /\ pc[u] \in Active /\ pc'[u] \in {"returned", "raised"}
           /\ \A v \in Calls \ {u} : pc'[v] = pc[v]
           /\ UNCHANGED <<created, record, verdict>>
  BY DEF LeaveUpdate, SM!Release, SM!ReleaseFails, SM!AcquireFails, SM!Move, SM!TypeOK, Active

\* ...and at the beginning of an update.
LEMMA CallMoves ==
    ASSUME SM!TypeOK, NEW u \in Calls, SM!Call(u)
    PROVE  /\ pc[u] = "idle" /\ pc'[u] = "acquiring"
           /\ \A v \in Calls \ {u} : pc'[v] = pc[v]
           /\ UNCHANGED <<created, record, verdict>>
           /\ created
  BY DEF SM!Call, SM!Move, SM!TypeOK

\* A task that ends an attempt has the next one before it, or has failed.
LEMMA AttemptMoves ==
    ASSUME TypeOK, NEW n \in Nodes, AttemptFails(n)
    PROVE  /\ \/ attempt[n] < Attempts(n) /\ phase'[n] = "reading" /\ attempt'[n] = attempt[n] + 1
              \/ attempt[n] >= Attempts(n) /\ phase'[n] = "failed" /\ attempt'[n] = attempt[n]
           /\ \A m \in Nodes \ {n} : phase'[m] = phase[m] /\ attempt'[m] = attempt[m]
  BY DEF AttemptFails, TypeOK, Attempts
-----------------------------------------------------------------------------
(***************************************************************************)
(* Types.                                                                  *)
(***************************************************************************)
\* The variables of the engine keep their types.
LEMMA RedisType ==
    ASSUME TypeOK, SM!TypeOK, SM!TypeOK', AttemptsInv, NextOnRedis
    PROVE  TypeOK'
  <1>1. CASE StartRun \/ Loop \/ LoopHook \/ CallClosing
    <2>1. EngineStep
      BY <1>1 DEF StartRun, Loop, LoopHook, CallClosing, EngineStep
    <2> QED
      BY <2>1, EngineType
  <1>2. CASE \E n \in Nodes : Task(n) \/ TaskHook(n) \/ CallUpdate(n)
    <2>1. \E n \in Nodes : NodeStep(n)
      BY <1>2 DEF Task, TaskHook, CallUpdate, NodeStep
    <2> QED
      BY <2>1, NodeType
  <1>3. ASSUME NEW u \in Calls, InsideUpdate(u)
        PROVE  TypeOK'
    <2>1. record'.present \in BOOLEAN
      BY DEF SM!TypeOK, SM!Record
    <2>2. memory' \in Memory
      <3>1. memory' = View(record')
        BY <1>3, InsideMoves
      <3> QED
        BY <2>1, <3>1 DEF View, Memory, TypeOK
    <2> QED
      BY <1>3, <2>2, InsideMoves DEF TypeOK, loopVars, taskVars, eventVars
  <1>4. ASSUME NEW n \in Nodes, UpdateEnds(n) \/ UpdateNotBegun(n)
        PROVE  TypeOK'
    <2>1. CASE AttemptFails(n)
      BY <1>4, <2>1, AttemptType DEF TypeOK, UpdateEnds, UpdateNotBegun, loopVars, eventVars
    <2>2. CASE Move(n, "updating", "announcing") /\ UNCHANGED attempt
      BY <1>4, <2>2 DEF TypeOK, UpdateEnds, UpdateNotBegun, loopVars, eventVars, Move, Phases
    <2> QED
      BY <1>4, <2>1, <2>2 DEF UpdateEnds, UpdateNotBegun
  <1>5. CASE ClosingEnds \/ ClosingNotBegun
    BY <1>5 DEF ClosingEnds, ClosingNotBegun, TypeOK, taskVars, eventVars, Goto, Raise, Controls
  <1>6. CASE LockExpires \/ GoDeaf \/ Rest
    <2>1. UNCHANGED vars
      BY <1>6 DEF LockExpires, GoDeaf, Rest, allVars
    <2> QED
      BY <2>1 DEF vars, loopVars, taskVars, eventVars, TypeOK
  <1> QED
    BY <1>1, <1>2, <1>3, <1>4, <1>5, <1>6, CallNames, CurrentCall
    DEF NextOnRedis, LoopProceeds, TaskProceeds
-----------------------------------------------------------------------------
(***************************************************************************)
(* The tasks, the attempts and the closing call.                           *)
(***************************************************************************)

\* Outside a wave execute leaves the tasks as they are, except that it
\* starts some.
LEMMA LoopMoves ==
    ASSUME StartRun \/ Loop \/ LoopHook \/ CallClosing \/ ClosingEnds \/ ClosingNotBegun
    PROVE  /\ control # "gather" \/ WaveEnded
           /\ \/ UNCHANGED taskVars /\ completed \cup running \cup failed
                                         \subseteq completed' \cup running' \cup failed'
              \/ /\ control = "schedule" /\ control' = "gather"
                 /\ UNCHANGED <<attempt, completed, failed, redisVars>>
                 /\ \E ready \in SUBSET Nodes :
                       /\ running' = running \cup ready
                       /\ phase' = [n \in Nodes |-> IF n \in ready THEN "spawned" ELSE phase[n]]
                       /\ \A n \in ready : n \notin completed \cup running \cup failed
  <1>1. CASE Schedule /\ UNCHANGED redisVars
    BY <1>1 DEF Schedule, ReadyNodes
  <1>2. CASE ~ Schedule
    BY <1>2 DEF StartRun, Loop, LoopHook, CallClosing, ClosingEnds, ClosingNotBegun,
         Initialize, InitializeFails, AnnounceStart, AnnounceStartFails, RaiseDeadlock, LeaveLoop,
         CollectSuccess, CollectFailure, AnnounceFailure, AnnounceFailureFails, AnnounceEnd,
         AnnounceEndFails, Goto, Raise
  <1> QED
    BY <1>1, <1>2 DEF StartRun, Loop, LoopHook, CallClosing, ClosingEnds, ClosingNotBegun,
       Schedule, Initialize, InitializeFails, AnnounceStart, AnnounceStartFails, AnnounceFailure,
       AnnounceFailureFails, AnnounceEnd, AnnounceEndFails, LeaveLoop

\* What a step of one task leaves alone.
LEMMA WorkMoves ==
    ASSUME TypeOK, NEW n \in Nodes,
           Task(n) \/ TaskHook(n) \/ CallUpdate(n) \/ UpdateEnds(n) \/ UpdateNotBegun(n)
    PROVE  /\ UNCHANGED loopVars
           /\ phase[n] \in {"spawned", "reading", "agent", "updating", "announcing"}
           /\ phase'[n] # "idle"
           /\ \A m \in Nodes \ {n} : phase'[m] = phase[m] /\ attempt'[m] = attempt[m]
  <1>1. CASE Task(n) \/ TaskHook(n) \/ CallUpdate(n)
    <2>1. NodeStep(n)
      BY <1>1 DEF Task, TaskHook, CallUpdate, NodeStep
    <2>2. \A m \in Nodes \ {n} : attempt'[m] = attempt[m]
      BY <1>1, AttemptMoves
      DEF Task, TaskHook, CallUpdate, StartNode, StartFails, ReadMemory, ReadFails, AgentReturns,
          AgentFails, AnnounceNode, AnnounceFails, TypeOK
    <2> QED
      BY <2>1, <2>2, TaskMoves
  <1>2. CASE UpdateEnds(n) \/ UpdateNotBegun(n)
    <2>1. CASE AttemptFails(n)
      BY <1>2, <2>1, AttemptMoves DEF UpdateEnds, UpdateNotBegun
    <2>2. CASE Move(n, "updating", "announcing") /\ UNCHANGED attempt
      BY <1>2, <2>2 DEF UpdateEnds, UpdateNotBegun, Move, TypeOK
    <2> QED
      BY <1>2, <2>1, <2>2 DEF UpdateEnds, UpdateNotBegun
  <1> QED
    BY <1>1, <1>2

\* Execute keeps track of its tasks, and waits while they are at work.
LEMMA TasksStep ==
    ASSUME TypeOK, SM!TypeOK, TasksInv, AttemptsInv, NextOnRedis
    PROVE  TasksInv'
  <1> USE DEF TasksInv
  <1>1. CASE StartRun \/ Loop \/ LoopHook \/ CallClosing \/ ClosingEnds \/ ClosingNotBegun
    <2>1. \A n \in Nodes : phase[n] \in {"idle", "done", "failed"}
      BY <1>1, LoopMoves DEF WaveEnded, Ended
    <2> QED
      BY <1>1, <2>1, LoopMoves DEF taskVars
  <1>2. CASE \E n \in Nodes : \/ Task(n) \/ TaskHook(n) \/ CallUpdate(n)
                              \/ UpdateEnds(n) \/ UpdateNotBegun(n)
    BY <1>2, WorkMoves DEF loopVars
  <1>3. CASE \E u \in Calls : InsideUpdate(u)
    BY <1>3 DEF InsideUpdate, loopVars, taskVars
  <1>4. CASE LockExpires \/ GoDeaf \/ Rest
    BY <1>4 DEF LockExpires, GoDeaf, Rest, allVars, vars, loopVars, taskVars
  <1> QED
    BY <1>1, <1>2, <1>3, <1>4, CallNames, CurrentCall DEF NextOnRedis, LoopProceeds, TaskProceeds

\* The closing call is made at the end, once.
LEMMA ClosingStep ==
    ASSUME TypeOK, SM!TypeOK, AttemptsInv, ClosingInv, NextOnRedis
    PROVE  ClosingInv'
  <1> USE DEF ClosingInv
  <1>1. CASE StartRun \/ Loop \/ LoopHook
    <2>1. UNCHANGED pc
      BY <1>1 DEF StartRun, Loop, LoopHook, redisVars, SM!Initialize
    <2> QED
      BY <1>1, <2>1 DEF StartRun, Loop, LoopHook, Schedule, Initialize, InitializeFails,
         AnnounceStart, AnnounceStartFails, RaiseDeadlock, CollectSuccess, CollectFailure,
         AnnounceFailure, AnnounceFailureFails, AnnounceEnd, AnnounceEndFails, Goto, Raise
  <1>2. CASE CallClosing
    BY <1>2, CallMoves, CallNames DEF CallClosing, LeaveLoop, Goto, Active
  <1>3. ASSUME NEW u \in Calls, InsideUpdate(u)
        PROVE  ClosingInv'
    BY <1>3, InsideMoves, CallNames DEF loopVars
  <1>4. CASE ClosingEnds \/ ClosingNotBegun
    BY <1>4, LeaveMoves, CallNames DEF ClosingEnds, ClosingNotBegun, Goto, Raise, Active
  <1>5. ASSUME NEW n \in Nodes,
               \/ Task(n) \/ TaskHook(n) \/ CallUpdate(n) \/ UpdateEnds(n) \/ UpdateNotBegun(n)
        PROVE  ClosingInv'
    <2>1. UNCHANGED control
      BY <1>5, WorkMoves DEF loopVars
    <2>2. pc'[Closing] = pc[Closing]
      <3>1. CASE Task(n) \/ TaskHook(n)
        BY <3>1 DEF Task, TaskHook, redisVars
      <3>2. CASE CallUpdate(n) \/ UpdateEnds(n) \/ UpdateNotBegun(n)
        <4>1. CallOf(n) \in Calls \ {Closing}
          BY <3>2, CallNames
          DEF CallUpdate, AgentReturns, Move, UpdateEnds, UpdateNotBegun, AttemptsInv, CallOf
        <4> QED
          BY <3>2, <4>1, CallMoves, LeaveMoves, CallNames
          DEF CallUpdate, UpdateEnds, UpdateNotBegun
      <3> QED
        BY <1>5, <3>1, <3>2
    <2> QED
      BY <2>1, <2>2
  <1>6. CASE LockExpires \/ GoDeaf \/ Rest
    BY <1>6 DEF LockExpires, SM!Expire, GoDeaf, Rest, allVars, redisVars, vars, loopVars
  <1> QED
    BY <1>1, <1>2, <1>3, <1>4, <1>5, <1>6, CallNames, CurrentCall
    DEF NextOnRedis, LoopProceeds, TaskProceeds

\* What AttemptsInv says of one node.
AttemptInv(n) ==
    /\ phase[n] \in {"idle", "spawned"} => attempt[n] = 0
    /\ phase[n] \in {"reading", "agent", "updating", "announcing"} => attempt[n] \in 1 .. Attempts(n)
    /\ \A k \in 1 .. Attempts(n) :
          /\ pc[<<n, k>>] \in Active <=> phase[n] = "updating" /\ k = attempt[n]
          /\ k > attempt[n] => pc[<<n, k>>] = "idle"
          /\ k = attempt[n] /\ phase[n] \in {"reading", "agent"} => pc[<<n, k>>] = "idle"

\* AttemptsInv, node by node.
LEMMA AttemptsOf == AttemptsInv <=> \A n \in Nodes : AttemptInv(n)
  BY DEF AttemptsInv, AttemptInv

\* A step that touches neither a task nor its calls.
LEMMA Untouched ==
    ASSUME NEW n \in Nodes, AttemptInv(n), phase'[n] = phase[n], attempt'[n] = attempt[n],
           \A k \in 1 .. Attempts(n) : pc'[<<n, k>>] = pc[<<n, k>>]
    PROVE  AttemptInv(n)'
  BY DEF AttemptInv, Attempts

\* Each attempt makes its own call, and none outlives its attempt.
LEMMA AttemptsStep ==
    ASSUME TypeOK, SM!TypeOK, TasksInv, AttemptsInv, NextOnRedis
    PROVE  AttemptsInv'
  <1>0. \A n \in Nodes : AttemptInv(n)
    BY AttemptsOf
  <1> SUFFICES ASSUME NEW n \in Nodes
               PROVE  AttemptInv(n)'
    BY DEF AttemptsInv, AttemptInv, Attempts
  <1>1. CASE StartRun \/ Loop \/ LoopHook \/ CallClosing \/ ClosingEnds \/ ClosingNotBegun
    <2>1. \A k \in 1 .. Attempts(n) : pc'[<<n, k>>] = pc[<<n, k>>]
      <3>1. CASE CallClosing \/ ClosingEnds \/ ClosingNotBegun
        BY <3>1, CallMoves, LeaveMoves, CallNames DEF CallClosing, ClosingEnds, ClosingNotBegun
      <3> QED
        BY <1>1, <3>1 DEF StartRun, Loop, LoopHook, redisVars, SM!Initialize
    <2>2. CASE UNCHANGED taskVars
      BY <1>0, <2>1, <2>2, Untouched DEF taskVars
    <2>3. CASE ~ UNCHANGED taskVars
      <3>1. PICK ready \in SUBSET Nodes :
               /\ phase' = [m \in Nodes |-> IF m \in ready THEN "spawned" ELSE phase[m]]
               /\ \A m \in ready : m \notin completed \cup running \cup failed
        BY <1>1, <2>3, LoopMoves
      <3>2. UNCHANGED attempt
        BY <1>1, <2>3, LoopMoves
      <3>3. CASE n \in ready
        <4>1. phase[n] = "idle" /\ phase'[n] = "spawned"
          BY <3>1, <3>3 DEF TasksInv
        <4> QED
          BY <1>0, <2>1, <3>2, <4>1 DEF AttemptInv, Attempts
      <3>4. CASE n \notin ready
        BY <1>0, <2>1, <3>1, <3>2, <3>4, Untouched
      <3> QED
        BY <3>3, <3>4
    <2> QED
      BY <2>2, <2>3
  <1>2. CASE \E m \in Nodes : Task(m) \/ TaskHook(m)
    <2>1. PICK m \in Nodes : Task(m) \/ TaskHook(m)
      BY <1>2
    <2>2. UNCHANGED pc
      BY <2>1 DEF Task, TaskHook, redisVars
    <2>3. CASE n # m
      BY <1>0, <2>1, <2>2, <2>3, WorkMoves, Untouched
    <2>4. CASE n = m
      BY <1>0, <2>1, <2>2, <2>4
      DEF Task, TaskHook, ReadMemory, ReadFails, AgentFails, StartNode, StartFails, AnnounceNode,
          AnnounceFails, AttemptFails, Move, AttemptInv, Attempts, TypeOK
    <2> QED
      BY <2>3, <2>4
  <1>3. CASE \E m \in Nodes : CallUpdate(m) \/ UpdateEnds(m) \/ UpdateNotBegun(m)
    <2>1. PICK m \in Nodes : CallUpdate(m) \/ UpdateEnds(m) \/ UpdateNotBegun(m)
      BY <1>3
    <2>2. /\ phase[m] \in {"agent", "updating"}
          /\ attempt[m] \in 1 .. Attempts(m)
          /\ CallOf(m) \in Calls
      BY <1>0, <2>1, CallNames
      DEF CallUpdate, AgentReturns, Move, UpdateEnds, UpdateNotBegun, AttemptInv, CallOf
    <2>3. \A v \in Calls \ {CallOf(m)} : pc'[v] = pc[v]
      BY <2>1, <2>2, CallMoves, LeaveMoves DEF CallUpdate, UpdateEnds, UpdateNotBegun
    <2>4. \A k \in 1 .. Attempts(n) : <<n, k>> # CallOf(m) => pc'[<<n, k>>] = pc[<<n, k>>]
      BY <2>3, CallNames
    <2>5. CASE n # m
      BY <1>0, <2>1, <2>4, <2>5, WorkMoves, Untouched DEF CallOf
    <2>6. CASE n = m /\ CallUpdate(m)
      <3>1. phase[m] = "agent" /\ phase'[m] = "updating" /\ attempt'[m] = attempt[m]
        BY <2>6 DEF CallUpdate, AgentReturns, Move, TypeOK
      <3>2. pc'[CallOf(m)] = "acquiring"
        BY <2>2, <2>6, CallMoves DEF CallUpdate
      <3> QED
        BY <1>0, <2>2, <2>4, <2>6, <3>1, <3>2 DEF AttemptInv, CallOf, Active, Attempts
    <2>7. CASE n = m /\ (UpdateEnds(m) \/ UpdateNotBegun(m))
      <3>1. phase[m] = "updating" /\ pc'[CallOf(m)] \in {"returned", "raised"}
        BY <2>2, <2>7, LeaveMoves DEF UpdateEnds, UpdateNotBegun
      <3>2. \/ phase'[m] = "announcing" /\ attempt'[m] = attempt[m]
            \/ attempt[m] < Attempts(m) /\ phase'[m] = "reading" /\ attempt'[m] = attempt[m] + 1
            \/ phase'[m] = "failed" /\ attempt'[m] = attempt[m]
        BY <2>7, AttemptMoves DEF UpdateEnds, UpdateNotBegun, Move, TypeOK
      <3> QED
        BY <1>0, <2>2, <2>4, <2>7, <3>1, <3>2 DEF AttemptInv, CallOf, Active, Attempts
    <2> QED
      BY <2>1, <2>5, <2>6, <2>7
  <1>4. CASE InsideUpdate(Closing) \/ \E m \in Nodes : phase[m] = "updating" /\ InsideUpdate(CallOf(m))
    <2>1. PICK u \in Calls : InsideUpdate(u) 
      BY <1>4, CallNames, CurrentCall
    <2>2. pc[u] \in Active /\ pc'[u] \in Active /\ UNCHANGED <<phase, attempt>>
      BY <2>1, InsideMoves DEF taskVars
    <2>3. \A k \in 1 .. Attempts(n) :
             \/ pc'[<<n, k>>] = pc[<<n, k>>]
             \/ pc[<<n, k>>] \in Active /\ pc'[<<n, k>>] \in Active
      BY <2>1, <2>2, InsideMoves, CallNames
    <2> QED
      BY <1>0, <2>2, <2>3 DEF AttemptInv, Active, Attempts
  <1>5. CASE LockExpires \/ GoDeaf \/ Rest
    <2>1. UNCHANGED <<phase, attempt, pc>>
      BY <1>5 DEF LockExpires, SM!Expire, GoDeaf, Rest, allVars, redisVars, vars, taskVars
    <2> QED
      BY <1>0, <2>1, Untouched
  <1> QED
    BY <1>1, <1>2, <1>3, <1>4, <1>5 DEF NextOnRedis, LoopProceeds, TaskProceeds
-----------------------------------------------------------------------------
(***************************************************************************)
(* What the engine remembers is what Redis holds.                          *)
(***************************************************************************)

\* Until the closing call ends the record does not list the completed nodes.
LEMMA NotClosed ==
    ASSUME TypeOK, SM!RecordInv, ClosingInv, record.present, Closing \in record.patches
    PROVE  control \in {"finish", "announce_end", "returned", "raised"}
  <1>1. pc[Closing] # "idle"
    BY DEF SM!RecordInv, SM!Sound, SM!Ending, SM!Over
  <1> QED
    BY <1>1 DEF ClosingInv, TypeOK, Controls

\* A call that is about to write has read the record as it is.
LEMMA WriterReads ==
    ASSUME SM!TypeOK, SM!RecordInv, SM!LockInv, ViewInv, NEW u \in Calls, pc[u] = "writing"
    PROVE  base[u] = record /\ record.present
  BY DEF SM!RecordInv, SM!LockInv, ViewInv

\* A record that stays as it is looks as it did.
LEMMA SameView ==
    ASSUME record' = record, completed' = completed \/ Closing \notin record.patches
    PROVE  View(record)' = View(record)
  BY DEF View

\* The engine reads what the calls have written.
LEMMA ViewStep ==
    ASSUME TypeOK, SM!TypeOK, SM!LockInv, SM!RecordInv, TasksInv, AttemptsInv, ClosingInv, ViewInv,
           NextOnRedis
    PROVE  ViewInv'
  <1>1. CASE StartRun
    <2>1. control = "initialize" /\ control' # "initialize"
      BY <1>1 DEF StartRun, Initialize, InitializeFails, Goto, Raise
    <2>2. CASE SM!Initialize
      <3>1. memory' = FirstRecord
        BY <1>1, <2>2
        DEF StartRun, Initialize, InitializeFails, SM!Initialize, redisVars
      <3>2. View(record)' = FirstRecord
        BY <2>2 DEF SM!Initialize, SM!FirstRecord, View, FirstRecord
      <3> QED
        BY <2>1, <2>2, <3>1, <3>2 DEF SM!Initialize, SM!FirstRecord, ViewInv
    <2>3. CASE memory' = memory /\ UNCHANGED redisVars
      <3>1. UNCHANGED completed
        BY <1>1 DEF StartRun, Initialize, InitializeFails, Goto, Raise
      <3> QED
        BY <2>1, <2>3, <3>1, SameView DEF redisVars, ViewInv, SM!NoRecord
    <2> QED
      BY <1>1, <2>2, <2>3 DEF StartRun
  <1>2. CASE Loop \/ LoopHook \/ CallClosing
    <2>1. UNCHANGED <<memory, record, created>>
      BY <1>2 DEF Loop, LoopHook, CallClosing, SM!Call, redisVars, Schedule, RaiseDeadlock, LeaveLoop,
         CollectSuccess, CollectFailure, AnnounceStart, AnnounceStartFails, AnnounceFailure,
         AnnounceFailureFails, AnnounceEnd, AnnounceEndFails
    <2>2. /\ control # "initialize" /\ control' # "initialize"
          /\ completed' = completed \/ control = "gather"
      BY <1>2 DEF Loop, LoopHook, CallClosing, Schedule, RaiseDeadlock, LeaveLoop,
         CollectSuccess, CollectFailure, AnnounceStart, AnnounceStartFails, AnnounceFailure,
         AnnounceFailureFails, AnnounceEnd, AnnounceEndFails, Goto, Raise
    <2>3. control = "gather" => Closing \notin record.patches
      <3>1. CASE record.present
        BY <3>1, NotClosed
      <3>2. CASE ~ record.present
        BY <3>2 DEF ViewInv, SM!NoRecord
      <3> QED
        BY <3>1, <3>2
    <2>4. View(record)' = View(record)
      BY <2>1, <2>2, <2>3, SameView
    <2> QED
      BY <2>1, <2>2, <2>4 DEF ViewInv, SM!NoRecord
  <1>3. ASSUME NEW n \in Nodes,
               \/ Task(n) \/ TaskHook(n) \/ CallUpdate(n) \/ UpdateEnds(n) \/ UpdateNotBegun(n)
        PROVE  ViewInv'
    <2>1. UNCHANGED <<control, completed>>
      BY <1>3, WorkMoves DEF loopVars
    <2>2. UNCHANGED <<memory, record, created>>
      <3>1. CASE Task(n) \/ TaskHook(n)
        BY <3>1 DEF Task, TaskHook, redisVars, ReadMemory, ReadFails, AgentFails, StartNode,
           StartFails, AnnounceNode, AnnounceFails
      <3>2. CASE CallUpdate(n)
        BY <3>2 DEF CallUpdate, AgentReturns, SM!Call
      <3>3. CASE UpdateEnds(n) \/ UpdateNotBegun(n)
        BY <3>3 DEF UpdateEnds, UpdateNotBegun, LeaveUpdate, SM!Release, SM!ReleaseFails, SM!AcquireFails
      <3> QED
        BY <1>3, <3>1, <3>2, <3>3
    <2> QED
      BY <2>1, <2>2, SameView DEF ViewInv, SM!NoRecord
  <1>4. ASSUME NEW u \in Calls, InsideUpdate(u)
        PROVE  ViewInv'
    <2>1. memory' = View(record') /\ UNCHANGED <<control, completed, created>>
      BY <1>4, InsideMoves DEF loopVars
    <2>2. memory' = View(record)'
      BY <2>1 DEF View
    <2>3. created
      BY <1>4, InsideMoves DEF SM!LockInv, Active, SM!TypeOK
    <2>4. record'.present
      <3>1. record' = record \/ record' = SM!Merged(u)
        BY <1>4
        DEF InsideUpdate, SM!Acquire, SM!ReadRecord, SM!ReadFails, SM!WriteRecord, SM!WriteFails
      <3>2. SM!Merged(u).present
        BY DEF SM!Merged
      <3> QED
        BY <2>3, <3>1, <3>2 DEF ViewInv
    <2> QED
      BY <2>1, <2>2, <2>3, <2>4 DEF ViewInv
  <1>5. CASE ClosingEnds \/ ClosingNotBegun
    <2>1. UNCHANGED <<memory, completed>> /\ control' # "initialize" 
      BY <1>5 DEF ClosingEnds, ClosingNotBegun, Goto, Raise
    <2>2. UNCHANGED <<record, created>> /\ control # "initialize"
      BY <1>5, LeaveMoves, CallNames DEF ClosingEnds, ClosingNotBegun
    <2> QED
      BY <2>1, <2>2, SameView DEF ViewInv, SM!NoRecord
  <1>6. CASE LockExpires \/ GoDeaf \/ Rest
    <2>1. UNCHANGED <<memory, record, created, control, completed>>
      BY <1>6 DEF LockExpires, SM!Expire, GoDeaf, Rest, allVars, redisVars, vars, loopVars
    <2> QED
      BY <2>1, SameView DEF ViewInv, SM!NoRecord
  <1> QED
    BY <1>1, <1>2, <1>3, <1>4, <1>5, <1>6, CallNames, CurrentCall
    DEF NextOnRedis, LoopProceeds, TaskProceeds

\* The body of an update comes to a verdict before the release.
LEMMA VerdictStep ==
    ASSUME SMP!TypeOK, VerdictInv, [SMP!Next]_(SMP!vars)
    PROVE  VerdictInv'
  <1> USE DEF VerdictInv, SMP!TypeOK, SMP!Move
  <1>1. ASSUME NEW u \in Calls, SMP!Step(u)
        PROVE  VerdictInv'
    BY <1>1 DEF SMP!Step, SMP!Proceed, SMP!Acquire, SMP!AcquireFails, SMP!ReadRecord, SMP!ReadFails,
         SMP!WriteRecord, SMP!WriteFails, SMP!Release, SMP!ReleaseFails, SMP!Leave
  <1>2. ASSUME NEW u \in Calls, SMP!Observe(u) \/ SMP!Call(u) \/ SMP!Die(u)
        PROVE  VerdictInv'
    BY <1>2 DEF SMP!Observe, SMP!Call, SMP!Die
  <1>3. CASE SMP!Initialize \/ SMP!Expire \/ SMP!LoseRecord \/ UNCHANGED SMP!vars
    BY <1>3 DEF SMP!Initialize, SMP!Expire, SMP!LoseRecord, SMP!vars
  <1> QED
    BY <1>1, <1>2, <1>3 DEF SMP!Next, SMP!Done

\* The invariant holds at the start...
LEMMA InitRedis == InitOnRedis => RedisInv
  <1> SUFFICES ASSUME InitOnRedis
               PROVE  RedisInv
    OBVIOUS
  <1> USE DEF InitOnRedis
  <1>1. TypeOK
    BY InitType
  <1>2. SM!TypeOK
    BY DEF SM!Init, SM!TypeOK, SM!NoRecord, SM!Record, SM!Places
  <1>3. SM!LockInv /\ SM!RecordInv
    BY DEF SM!Init, SM!LockInv, SM!RecordInv, SM!NoRecord
  <1>4. TasksInv
    BY DEF Init, TasksInv
  <1>5. \A u \in Calls : pc[u] = "idle"
    BY DEF SM!Init
  <1>6. AttemptsInv
    BY <1>5, CallNames DEF Init, AttemptsInv, Active, Attempts
  <1>7. ClosingInv
    BY <1>5, CallNames DEF Init, ClosingInv, Active
  <1>8. VerdictInv
    BY <1>5 DEF VerdictInv
  <1>9. ViewInv
    BY DEF Init, SM!Init, SM!NoRecord, NoRecord, ViewInv, View
  <1> QED
    BY <1>1, <1>2, <1>3, <1>4, <1>6, <1>7, <1>8, <1>9 DEF RedisInv

\* ...and after every step.
LEMMA StepRedis ==
    ASSUME RedisInv, [NextOnRedis]_allVars
    PROVE  RedisInv'
  <1>1. CASE NextOnRedis
    <2>1. SM!TypeOK' /\ SM!LockInv' /\ SM!RecordInv'
      <3>1. SMP!TypeOK' /\ SMP!LockInv' /\ SMP!RecordInv'
        BY <1>1, RedisNext DEF RedisInv
      <3> QED
        BY <3>1, SameMemory, PTL
    <2>2. TypeOK'
      BY <1>1, <2>1, RedisType DEF RedisInv
    <2>3. VerdictInv'
      BY <1>1, SameMemory, RedisStep, VerdictStep DEF RedisInv
    <2> QED
      BY <1>1, <2>1, <2>2, <2>3, TasksStep, AttemptsStep, ClosingStep, ViewStep DEF RedisInv
  <1>2. CASE UNCHANGED allVars
    <2> USE <1>2 DEF allVars, vars, redisVars, loopVars, taskVars, eventVars, RedisInv
    <2>1. TypeOK'
      BY DEF TypeOK
    <2>2. SM!TypeOK' /\ SM!LockInv'
      BY DEF SM!TypeOK, SM!LockInv
    <2>3. SM!RecordInv'
      BY DEF SM!RecordInv, SM!Sound
    <2>4. TasksInv' /\ AttemptsInv' /\ ClosingInv'
      BY DEF TasksInv, AttemptsInv, ClosingInv
    <2>5. ViewInv' /\ VerdictInv'
      BY DEF ViewInv, View, VerdictInv
    <2> QED
      BY <2>1, <2>2, <2>3, <2>4, <2>5
  <1> QED
    BY <1>1, <1>2

\* The invariants of the lock, of the record, of the attempts and of what
\* the engine sees hold together in every state of the composition.
THEOREM RedisInvariant == SpecOnRedis => []RedisInv
  BY InitRedis, StepRedis, PTL DEF SpecOnRedis
-----------------------------------------------------------------------------
(***************************************************************************)
(* What the engine sees.                                                   *)
(***************************************************************************)

\* Nothing it sees of a node changes if neither the task nor its current
\* call does.
LEMMA SeenSame ==
    ASSUME NEW n \in Nodes, phase'[n] = phase[n], attempt'[n] = attempt[n],
           phase[n] = "updating" =>
              pc'[CallOf(n)] = pc[CallOf(n)] /\ verdict'[CallOf(n)] = verdict[CallOf(n)]
    PROVE  seenPhase'[n] = seenPhase[n] /\ seenAttempt'[n] = seenAttempt[n]
  BY DEF seenPhase, seenAttempt, SeenPhase, SeenAttempt, Applied, Spoilt, LastTry, CallOf

\* What the engine sees of the tasks, as functions.
LEMMA SeenFunctions ==
    /\ seenPhase = [n \in Nodes |-> seenPhase[n]]
    /\ seenAttempt = [n \in Nodes |-> seenAttempt[n]]
    /\ seenPhase' = [n \in Nodes |-> seenPhase'[n]]
    /\ seenAttempt' = [n \in Nodes |-> seenAttempt'[n]]
  BY DEF seenPhase, seenAttempt

\* A node whose task is not in an update is seen as it is.
LEMMA SeenPlain ==
    ASSUME NEW n \in Nodes
    PROVE  /\ phase[n] # "updating" => seenPhase[n] = phase[n] /\ seenAttempt[n] = attempt[n]
           /\ phase'[n] # "updating" => seenPhase'[n] = phase'[n] /\ seenAttempt'[n] = attempt'[n]
  BY DEF seenPhase, seenAttempt, SeenPhase, SeenAttempt

\* ...and so is execute.
LEMMA SeenLoop ==
    /\ control # "finish" => seenControl = control /\ seenError = error
    /\ control' # "finish" => seenControl' = control' /\ seenError' = error'
  BY DEF seenControl, seenError

\* Where nothing but the steps of one node changes, the rest is seen
\* unchanged.
LEMMA SeenOne ==
    ASSUME NEW n \in Nodes,
           \A m \in Nodes \ {n} : seenPhase'[m] = seenPhase[m] /\ seenAttempt'[m] = seenAttempt[m]
    PROVE  /\ seenPhase' = [seenPhase EXCEPT ![n] = seenPhase'[n]]
           /\ seenAttempt' = [seenAttempt EXCEPT ![n] = seenAttempt'[n]]
  BY SeenFunctions

\* The update of a node as the engine sees it.
LEMMA SeenUpdate ==
    ASSUME NEW n \in Nodes, phase[n] = "updating"
    PROVE  /\ ~ Applied(CallOf(n)) /\ ~ Spoilt(CallOf(n)) =>
                seenPhase[n] = "updating" /\ seenAttempt[n] = attempt[n]
           /\ Applied(CallOf(n)) => seenPhase[n] = "announcing" /\ seenAttempt[n] = attempt[n]
           /\ Spoilt(CallOf(n)) /\ ~ LastTry(n) =>
                seenPhase[n] = "reading" /\ seenAttempt[n] = attempt[n] + 1
           /\ Spoilt(CallOf(n)) /\ LastTry(n) =>
                seenPhase[n] = "failed" /\ seenAttempt[n] = attempt[n]
  BY DEF seenPhase, seenAttempt, SeenPhase, SeenAttempt, Applied, Spoilt
-----------------------------------------------------------------------------
(***************************************************************************)
(* The steps.                                                              *)
(***************************************************************************)

\* No two instances count differently.
LEMMA SameCount ==
    ASSUME NEW done, NEW bad
    PROVE  Engine!AllAccounted(done, bad) <=> AllAccounted(done, bad)
  <1>1. ASSUME NEW S
        PROVE  Engine!Cardinality(S) = Cardinality(S)
    BY DEF Engine!Cardinality, Cardinality
  <1> QED
    BY <1>1 DEF AllAccounted, Engine!AllAccounted

\* What execute does without an update, the engine does.
LEMMA LoopImplements ==
    ASSUME TypeOK, TasksInv, StartRun \/ Loop \/ LoopHook
    PROVE  Engine!EngineStep
  <1>1. /\ seenControl = control /\ seenError = error
        /\ seenControl' = control' /\ seenError' = error'
    <2>1. control # "finish" /\ control' # "finish"
      BY DEF StartRun, Loop, LoopHook, Initialize, InitializeFails, AnnounceStart, AnnounceStartFails,
         Schedule, RaiseDeadlock, CollectSuccess, CollectFailure, AnnounceFailure,
         AnnounceFailureFails, AnnounceEnd, AnnounceEndFails, Goto, Raise
    <2> QED
      BY <2>1, SeenLoop
  <1>2. control # "gather" => \A n \in Nodes : phase[n] \in {"idle", "done", "failed"}
    BY DEF TasksInv
  <1> USE DEF Engine!Goto, Engine!Raise, Goto, Raise, Engine!taskVars,
        Engine!eventVars, taskVars, eventVars
  <1>3. CASE Schedule /\ UNCHANGED redisVars
    <2> DEFINE ready == ReadyNodes(completed, running, failed)
    <2>1. ready = Engine!ReadyNodes(completed, running, failed)
      BY DEF ReadyNodes, Engine!ReadyNodes
    <2>2. \A n \in Nodes : seenPhase[n] = phase[n] /\ seenAttempt[n] = attempt[n]
      BY <1>2, <1>3, SeenPlain DEF Schedule
    <2>3. \A n \in Nodes : /\ seenPhase'[n] = IF n \in ready THEN "spawned" ELSE seenPhase[n]
                           /\ seenAttempt'[n] = seenAttempt[n]
      BY <1>2, <1>3, <2>2, SeenPlain DEF Schedule
    <2>4. /\ seenPhase' = [n \in Nodes |-> IF n \in ready THEN "spawned" ELSE seenPhase[n]]
          /\ seenAttempt' = seenAttempt
      BY <2>3, SeenFunctions
    <2>5. /\ ~ Engine!AllAccounted(completed, failed)
          /\ ready # {} /\ running' = running \cup ready
          /\ seenControl = "schedule" /\ seenControl' = "gather"
          /\ UNCHANGED <<seenError, completed, failed, snapshot, memory, nodeEvents, workflowEvents>>
      BY <1>1, <1>3, SameCount DEF Schedule
    <2> HIDE DEF ready
    <2>6. Engine!Schedule
      BY <2>1, <2>4, <2>5 DEF Engine!Schedule
    <2> QED
      BY <2>6 DEF Engine!EngineStep
  <1>4. CASE ~ (Schedule /\ UNCHANGED redisVars)
    <2>1. UNCHANGED <<phase, attempt, snapshot, pc, verdict>>
      BY <1>4 DEF StartRun, Loop, LoopHook, Initialize, InitializeFails, AnnounceStart,
         AnnounceStartFails, RaiseDeadlock, CollectSuccess, CollectFailure, AnnounceFailure,
         AnnounceFailureFails, AnnounceEnd, AnnounceEndFails, redisVars, SM!Initialize
    <2>2. UNCHANGED <<seenPhase, seenAttempt, snapshot>>
      BY <2>1, SeenSame, SeenFunctions
    <2>3. ASSUME control = "gather", WaveEnded
          PROVE  /\ Engine!WaveEnded
                 /\ Engine!Broken = Broken
                 /\ \A n \in Nodes : Engine!Before(n) = Before(n)
      BY <2>3, SeenPlain DEF WaveEnded, Ended, Broken, Before, Engine!WaveEnded, Engine!Ended, 
         Engine!Broken, Engine!Before, TypeOK
    <2>4. CASE StartRun
      BY <1>1, <2>2, <2>4 DEF StartRun, Initialize, InitializeFails, FirstRecord,
         Engine!Initialize, Engine!InitializeFails, Engine!FirstRecord,
         Engine!EngineStep
    <2>5. CASE LoopHook
      BY <1>1, <2>2, <2>5 DEF LoopHook, AnnounceStart, AnnounceStartFails, AnnounceFailure,
         AnnounceFailureFails, AnnounceEnd, AnnounceEndFails, Engine!AnnounceStart,
         Engine!AnnounceStartFails, Engine!AnnounceFailure, Engine!AnnounceFailureFails,
         Engine!AnnounceEnd, Engine!AnnounceEndFails,
         Engine!EngineStep
    <2>6. CASE RaiseDeadlock
      BY <1>1, <2>2, <2>6, SameCount DEF RaiseDeadlock, Engine!RaiseDeadlock, ReadyNodes, Engine!ReadyNodes,
         Engine!EngineStep
    <2>7. CASE CollectSuccess
      BY <1>1, <2>2, <2>3, <2>7 DEF CollectSuccess, Engine!CollectSuccess,
         Engine!EngineStep
    <2>8. CASE CollectFailure
      <3>1. Broken \subseteq Nodes
        BY DEF Broken, TypeOK
      <3> QED
        BY <1>1, <2>2, <2>3, <2>8, <3>1 DEF CollectFailure, Engine!CollectFailure,
         Engine!EngineStep
    <2> QED
      BY <1>4, <2>4, <2>5, <2>6, <2>7, <2>8 DEF Loop
  <1> QED
    BY <1>3, <1>4

\* The call of the closing update is not yet the update.
LEMMA CallClosingImplements ==
    ASSUME TypeOK, SM!TypeOK, TasksInv, CallClosing
    PROVE  Engine!LeaveLoop
  <1>1. /\ control = "schedule" /\ AllAccounted(completed, failed) /\ control' = "finish"
        /\ UNCHANGED <<error, completed, failed, running, phase, attempt, snapshot, memory,
                       nodeEvents, workflowEvents>>
    BY DEF CallClosing, LeaveLoop, Goto, taskVars, eventVars
  <1>2. pc'[Closing] = "acquiring" /\ UNCHANGED verdict
    BY CallMoves, CallNames DEF CallClosing
  <1>3. /\ seenControl = "schedule" /\ seenError = error
        /\ seenControl' = "finish" /\ seenError' = error
    BY <1>1, <1>2, SeenLoop DEF seenControl, seenError, Applied, Spoilt
  <1>4. \A n \in Nodes : seenPhase'[n] = seenPhase[n] /\ seenAttempt'[n] = seenAttempt[n]
    BY <1>1, SeenSame DEF TasksInv
  <1>5. seenPhase' = seenPhase /\ seenAttempt' = seenAttempt
    BY <1>4, SeenFunctions
  <1> QED
    BY <1>1, <1>3, <1>5, SameCount
    DEF Engine!LeaveLoop, Engine!Goto, Engine!taskVars, Engine!eventVars

\* While a task takes a step, execute waits and is seen waiting.
LEMMA SeenWaiting ==
    ASSUME TasksInv, NEW n \in Nodes, phase[n] \notin {"idle", "done", "failed"}, UNCHANGED loopVars
    PROVE  UNCHANGED <<seenControl, seenError, completed, failed, running>>
  BY SeenLoop DEF TasksInv, loopVars

\* A retry as the engine sees it.
LEMMA SeenRetry ==
    ASSUME NEW n \in Nodes, AttemptFails(n), TypeOK,
           seenAttempt[n] = attempt[n], phase[n] \notin {"idle", "done", "failed"},
           \A m \in Nodes \ {n} : seenPhase'[m] = seenPhase[m] /\ seenAttempt'[m] = seenAttempt[m]
    PROVE  Engine!AttemptFails(n)
  <1>1. /\ phase'[n] # "updating"
        /\ \/ attempt[n] < Attempts(n) /\ phase'[n] = "reading" /\ attempt'[n] = attempt[n] + 1
           \/ ~ (attempt[n] < Attempts(n)) /\ phase'[n] = "failed" /\ attempt'[n] = attempt[n]
    BY AttemptMoves DEF AttemptFails, TypeOK
  <1>2. seenPhase'[n] = phase'[n] /\ seenAttempt'[n] = attempt'[n]
    BY <1>1, SeenPlain
  <1>3. /\ seenPhase' = [seenPhase EXCEPT ![n] = phase'[n]]
        /\ seenAttempt' = [seenAttempt EXCEPT ![n] = attempt'[n]]
    BY <1>2, SeenOne
  <1>4. attempt'[n] = attempt[n] => seenAttempt' = seenAttempt
    BY <1>2, SeenFunctions
  <1>5. seenAttempt[n] = attempt[n] /\ Engine!Attempts(n) = Attempts(n)
    BY DEF Engine!Attempts, Attempts
  <1> QED
    BY <1>1, <1>3, <1>4, <1>5 DEF Engine!AttemptFails

\* What a task does outside its update, the engine's task does.
LEMMA TaskImplements ==
    ASSUME TypeOK, SM!TypeOK, TasksInv, AttemptsInv, NEW n \in Nodes,
           Task(n) \/ TaskHook(n) \/ CallUpdate(n)
    PROVE  Engine!NodeStep(n)
  <1>1. /\ phase[n] \in {"spawned", "reading", "agent", "announcing"}
        /\ UNCHANGED loopVars
        /\ \A m \in Nodes \ {n} : phase'[m] = phase[m] /\ attempt'[m] = attempt[m]
    BY WorkMoves DEF Task, TaskHook, CallUpdate, ReadMemory, ReadFails, AgentReturns, AgentFails,
       StartNode, StartFails, AnnounceNode, AnnounceFails, Move
  <1>2. UNCHANGED <<seenControl, seenError, completed, failed, running>>
    BY <1>1, SeenWaiting
  <1>3. seenPhase[n] = phase[n] /\ seenAttempt[n] = attempt[n]
    BY <1>1, SeenPlain
  <1>4. \A m \in Nodes \ {n} : phase[m] = "updating" =>
           pc'[CallOf(m)] = pc[CallOf(m)] /\ verdict'[CallOf(m)] = verdict[CallOf(m)]
    <2>1. CASE Task(n) \/ TaskHook(n)
      BY <2>1 DEF Task, TaskHook, redisVars
    <2>2. CASE CallUpdate(n)
      <3>1. CallOf(n) \in Calls
        BY <2>2, CurrentCall DEF CallUpdate, AgentReturns, Move
      <3>2. \A v \in Calls \ {CallOf(n)} : pc'[v] = pc[v] /\ verdict'[v] = verdict[v]
        BY <2>2, <3>1, CallMoves DEF CallUpdate
      <3>3. ASSUME NEW m \in Nodes \ {n}, phase[m] = "updating"
            PROVE  CallOf(m) \in Calls \ {CallOf(n)}
        BY <3>3, CurrentCall DEF CallOf
      <3> QED
        BY <3>2, <3>3
    <2> QED
      BY <2>1, <2>2
  <1>5. \A m \in Nodes \ {n} : seenPhase'[m] = seenPhase[m] /\ seenAttempt'[m] = seenAttempt[m]
    BY <1>1, <1>4, SeenSame
  <1>6. /\ seenPhase' = [seenPhase EXCEPT ![n] = seenPhase'[n]]
        /\ seenAttempt' = [seenAttempt EXCEPT ![n] = seenAttempt'[n]]
        /\ seenAttempt'[n] = seenAttempt[n] => seenAttempt' = seenAttempt
    BY <1>5, SeenOne, SeenFunctions
  <1> USE DEF Engine!NodeStep, Engine!Move, Engine!loopVars, Engine!eventVars
  <1>7. AttemptFails(n) => Engine!AttemptFails(n)
    BY <1>1, <1>3, <1>5, SeenRetry
  <1>8. phase'[n] # "updating" => seenPhase'[n] = phase'[n] /\ seenAttempt'[n] = attempt'[n]
    BY SeenPlain
  <1>9. CASE ReadFails(n)
    BY <1>2, <1>3, <1>7, <1>9 DEF ReadFails, Engine!ReadFails, eventVars
  <1>10. CASE AgentFails(n)
    BY <1>2, <1>3, <1>7, <1>10 DEF AgentFails, Engine!AgentFails, eventVars
  <1>11. CASE AnnounceFails(n)
    BY <1>2, <1>3, <1>7, <1>11 DEF AnnounceFails, Engine!AnnounceFails
  <1>12. CASE StartNode(n)
    <2>1. phase[n] = "spawned" /\ phase'[n] = "reading" /\ attempt'[n] = 1
      BY <1>12 DEF StartNode, Move, TypeOK
    <2>2. /\ seenPhase' = [seenPhase EXCEPT ![n] = "reading"]
          /\ seenAttempt' = [seenAttempt EXCEPT ![n] = 1]
      BY <1>6, <1>8, <2>1
    <2> QED
      BY <1>2, <1>3, <1>12, <2>1, <2>2 DEF StartNode, Engine!StartNode
  <1>13. CASE StartFails(n)
    <2>1. phase[n] = "spawned" /\ phase'[n] = "failed" /\ attempt'[n] = attempt[n]
      BY <1>13 DEF StartFails, Move, TypeOK
    <2>2. seenPhase' = [seenPhase EXCEPT ![n] = "failed"] /\ seenAttempt' = seenAttempt
      BY <1>3, <1>6, <1>8, <2>1
    <2> QED
      BY <1>2, <1>3, <1>13, <2>1, <2>2 DEF StartFails, Engine!StartFails
  <1>14. CASE ReadMemory(n)
    <2>1. phase[n] = "reading" /\ phase'[n] = "agent" /\ attempt'[n] = attempt[n]
      BY <1>14 DEF ReadMemory, Move, TypeOK
    <2>2. seenPhase' = [seenPhase EXCEPT ![n] = "agent"] /\ seenAttempt' = seenAttempt
      BY <1>3, <1>6, <1>8, <2>1
    <2> QED
      BY <1>2, <1>3, <1>14, <2>1, <2>2 DEF ReadMemory, Engine!ReadMemory, eventVars
  <1>15. CASE AnnounceNode(n)
    <2>1. phase[n] = "announcing" /\ phase'[n] = "done" /\ attempt'[n] = attempt[n]
      BY <1>15 DEF AnnounceNode, Move, TypeOK
    <2>2. seenPhase' = [seenPhase EXCEPT ![n] = "done"] /\ seenAttempt' = seenAttempt
      BY <1>3, <1>6, <1>8, <2>1
    <2> QED
      BY <1>2, <1>3, <1>15, <2>1, <2>2 DEF AnnounceNode, Engine!AnnounceNode
  <1>16. CASE CallUpdate(n)
    <2>1. phase[n] = "agent" /\ phase'[n] = "updating" /\ attempt'[n] = attempt[n]
      BY <1>16 DEF CallUpdate, AgentReturns, Move, TypeOK
    <2>2. CallOf(n) \in Calls /\ CallOf(n)' = CallOf(n)
      BY <2>1, CurrentCall DEF CallOf
    <2>3. pc'[CallOf(n)] = "acquiring"
      BY <1>16, <2>2, CallMoves DEF CallUpdate
    <2>4. seenPhase'[n] = "updating" /\ seenAttempt'[n] = seenAttempt[n]
      BY <1>3, <2>1, <2>2, <2>3 DEF seenPhase, seenAttempt, SeenPhase, SeenAttempt, Applied, Spoilt
    <2>5. seenPhase' = [seenPhase EXCEPT ![n] = "updating"] /\ seenAttempt' = seenAttempt
      BY <1>6, <2>4
    <2> QED
      BY <1>2, <1>3, <1>16, <2>1, <2>5 DEF CallUpdate, AgentReturns, Engine!AgentReturns, eventVars
  <1> QED
    BY <1>9, <1>10, <1>11, <1>12, <1>13, <1>14, <1>15, <1>16 DEF Task, TaskHook

\* A step of call u changes what is seen of one node at most.
LEMMA SeenOthers ==
    ASSUME AttemptsInv, NEW n \in Nodes, phase[n] = "updating",
           \A v \in Calls \ {CallOf(n)} : pc'[v] = pc[v] /\ verdict'[v] = verdict[v],
           \A m \in Nodes \ {n} : phase'[m] = phase[m] /\ attempt'[m] = attempt[m]
    PROVE  \A m \in Nodes \ {n} : seenPhase'[m] = seenPhase[m] /\ seenAttempt'[m] = seenAttempt[m]
  <1>1. ASSUME NEW m \in Nodes \ {n}, phase[m] = "updating"
        PROVE  CallOf(m) \in Calls \ {CallOf(n)}
    BY <1>1, CurrentCall DEF CallOf
  <1> QED
    BY <1>1, SeenSame

\* What the record looks like once the output of a node is merged into it.
LEMMA OutputWritten ==
    ASSUME SM!TypeOK, SM!LockInv, SM!RecordInv, AttemptsInv, ViewInv, NEW n \in Nodes,
           phase[n] = "updating", pc[CallOf(n)] = "writing", record' = SM!Merged(CallOf(n))
    PROVE  memory.present /\ View(record') = Engine!WithOutput(n)
  <1> DEFINE u == CallOf(n)
  <1>1. u \in Calls /\ base[u] = record /\ record.present
    BY CurrentCall, WriterReads
  <1>2. u = <<n, attempt[n]>> /\ attempt[n] \in 1 .. Attempts(n)
    BY DEF CallOf, AttemptsInv
  <1>3. u # Closing
    BY <1>2, CallNames
  <1> HIDE DEF u
  <1>4. record'.present /\ record'.patches = record.patches \cup {u}
    BY <1>1 DEF SM!Merged, u
  <1>5. \A m \in Nodes :
          (\E k \in 1 .. Attempts(m) : <<m, k>> \in record'.patches)
            <=> (\E k \in 1 .. Attempts(m) : <<m, k>> \in record.patches) \/ m = n
    BY <1>2, <1>4
  <1>6. View(record').outputs = memory.outputs \cup {n}
    BY <1>5 DEF View, ViewInv
  <1>7. Closing \in record'.patches <=> Closing \in record.patches
    BY <1>3, <1>4
  <1>8. memory = View(record) /\ memory.present
    BY <1>1 DEF ViewInv, View
  <1>9. /\ View(record').present = memory.present
        /\ View(record').status = memory.status
        /\ View(record').completedNodes = memory.completedNodes
    BY <1>1, <1>4, <1>7, <1>8 DEF View
  <1>10. ASSUME NEW r
         PROVE  View(r) = [ present |-> View(r).present, outputs |-> View(r).outputs,
                            status |-> View(r).status, completedNodes |-> View(r).completedNodes ]
    BY DEF View
  <1>11. memory = [ present |-> memory.present, outputs |-> memory.outputs,
                    status |-> memory.status, completedNodes |-> memory.completedNodes ]
    BY <1>8, <1>10
  <1>12. View(record') = [ present |-> memory.present, outputs |-> memory.outputs \cup {n},
                           status |-> memory.status, completedNodes |-> memory.completedNodes ]
    BY <1>6, <1>9, <1>10
  <1>13. Engine!WithOutput(n) =
           [ present |-> memory.present, outputs |-> memory.outputs \cup {n},
             status |-> memory.status, completedNodes |-> memory.completedNodes ]
    BY <1>11 DEF Engine!WithOutput
  <1> QED
    BY <1>8, <1>12, <1>13

\* Taking the lock and reading are not seen; the write is the update, and a
\* failure of either the failure of it.
LEMMA InsideImplements ==
    ASSUME TypeOK, SM!TypeOK, SM!LockInv, SM!RecordInv, TasksInv, AttemptsInv, ViewInv,
           NEW n \in Nodes, phase[n] = "updating", InsideUpdate(CallOf(n))
    PROVE  Engine!NodeStep(n) \/ UNCHANGED Engine!vars
  <1> DEFINE u == CallOf(n)
  <1>1. u \in Calls /\ CallOf(n)' = u
    BY CurrentCall, InsideMoves DEF CallOf, taskVars
  <1>2. UNCHANGED <<seenControl, seenError, completed, failed, running>>
    BY <1>1, InsideMoves, SeenWaiting
  <1>3. /\ phase' = phase /\ attempt' = attempt /\ snapshot' = snapshot
        /\ UNCHANGED <<nodeEvents, workflowEvents>>
        /\ memory' = View(record')
    BY <1>1, InsideMoves DEF taskVars, eventVars
  <1>4. \A m \in Nodes \ {n} : seenPhase'[m] = seenPhase[m] /\ seenAttempt'[m] = seenAttempt[m]
    BY <1>1, <1>3, InsideMoves, SeenOthers
  <1>5. /\ seenPhase' = [seenPhase EXCEPT ![n] = seenPhase'[n]]
        /\ seenAttempt' = [seenAttempt EXCEPT ![n] = seenAttempt'[n]]
        /\ seenAttempt'[n] = seenAttempt[n] => seenAttempt' = seenAttempt
        /\ seenPhase'[n] = seenPhase[n] => seenPhase' = seenPhase
    BY <1>4, SeenOne, SeenFunctions
  <1>6. memory = View(record) /\ memory.present = record.present
    BY DEF ViewInv, View
  <1>7. /\ pc[u] \in {"acquiring", "reading", "writing"}
        /\ seenPhase[n] = "updating" /\ seenAttempt[n] = attempt[n]
    BY <1>1, SeenUpdate
    DEF InsideUpdate, SM!Acquire, SM!ReadRecord, SM!ReadFails, SM!WriteRecord, SM!WriteFails,
        SM!Leave, SM!Move, Applied, Spoilt
  <1>8. CASE SM!Acquire(u) \/ SM!ReadRecord(u)
    <2>1. pc'[u] \in {"reading", "writing"} /\ record' = record
      BY <1>1, <1>8 DEF SM!Acquire, SM!ReadRecord, SM!Move, SM!TypeOK
    <2>2. seenPhase'[n] = "updating" /\ seenAttempt'[n] = attempt[n]
      BY <1>1, <1>3, <2>1 DEF seenPhase, seenAttempt, SeenPhase, SeenAttempt, Applied, Spoilt
    <2>3. memory' = memory
      BY <1>3, <1>6, <2>1
    <2> QED
      BY <1>2, <1>3, <1>5, <1>7, <2>2, <2>3
      DEF Engine!vars, Engine!loopVars, Engine!taskVars, Engine!eventVars
  <1>9. CASE SM!WriteRecord(u)
    <2>1. pc[u] = "writing" /\ pc'[u] = "releasing" /\ verdict'[u] = "ok" /\ record' = SM!Merged(u)
      BY <1>1, <1>9 DEF SM!WriteRecord, SM!Leave, SM!Move, SM!TypeOK
    <2>2. seenPhase'[n] = "announcing" /\ seenAttempt'[n] = attempt[n]
      BY <1>1, <1>3, <2>1 DEF seenPhase, seenAttempt, SeenPhase, SeenAttempt, Applied, Spoilt
    <2>3. memory.present /\ memory' = Engine!WithOutput(n)
      BY <1>3, <2>1, OutputWritten
    <2>4. Engine!UpdateMemory(n)
      BY <1>2, <1>3, <1>5, <1>7, <2>2, <2>3
      DEF Engine!UpdateMemory, Engine!Move, Engine!loopVars, Engine!eventVars
    <2> QED
      BY <2>4 DEF Engine!NodeStep
  <1>10. CASE SM!ReadFails(u) \/ SM!WriteFails(u)
    <2>1. pc'[u] = "releasing" /\ verdict'[u] = "error"
      BY <1>1, <1>10 DEF SM!ReadFails, SM!WriteFails, SM!Leave, SM!Move, SM!TypeOK
    <2>2. IF attempt[n] < Attempts(n)
            THEN seenPhase'[n] = "reading" /\ seenAttempt'[n] = attempt[n] + 1
            ELSE seenPhase'[n] = "failed" /\ seenAttempt'[n] = attempt[n]
      <3>1. attempt[n] \in Nat /\ Attempts(n) \in Nat
        BY DEF TypeOK, Attempts
      <3> QED
        BY <1>1, <1>3, <2>1, <3>1
        DEF seenPhase, seenAttempt, SeenPhase, SeenAttempt, Applied, Spoilt, LastTry, Attempts
    <2>3. Engine!AttemptFails(n)
      BY <1>5, <1>7, <2>2 DEF Engine!AttemptFails, Engine!Attempts, Attempts
    <2>4. \/ ~ memory.present /\ memory' = memory
          \/ "memory" \in Faults /\ memory.present /\ memory' \in {memory, Engine!WithOutput(n)}
      <3>1. CASE SM!ReadFails(u)
        <4>1. expected[u] = 0 /\ record' = record
          BY <1>1, <3>1 DEF SM!ReadFails, SM!TypeOK
        <4>2. ~ record.present \/ "memory" \in Faults
          BY <3>1, <4>1 DEF SM!ReadFails, SM!VersionMatches
        <4> QED
          BY <1>3, <1>6, <4>1, <4>2
      <3>2. CASE SM!WriteFails(u)
        <4>1. "memory" \in Faults /\ record' \in {record, SM!Merged(u)} /\ pc[u] = "writing"
          BY <3>2 DEF SM!WriteFails, SM!Leave, SM!Move
        <4>2. record.present
          BY <1>1, <4>1, WriterReads
        <4> QED
          BY <1>3, <1>6, <4>1, <4>2, OutputWritten
      <3> QED
        BY <1>10, <3>1, <3>2
    <2>5. Engine!UpdateFails(n)
      BY <1>2, <1>3, <1>7, <2>3, <2>4 DEF Engine!UpdateFails, Engine!loopVars, Engine!eventVars
    <2> QED
      BY <2>5 DEF Engine!NodeStep
  <1> QED
    BY <1>8, <1>9, <1>10 DEF InsideUpdate

\* The end of an update is not seen, but for a release that raises after the
\* write, which is the announcement's failure; a call that never got the lock
\* is a failed update.
LEMMA EndImplements ==
    ASSUME TypeOK, SM!TypeOK, TasksInv, AttemptsInv, ViewInv, VerdictInv,
           NEW n \in Nodes, UpdateEnds(n) \/ UpdateNotBegun(n)
    PROVE  Engine!NodeStep(n) \/ UNCHANGED Engine!vars
  <1> DEFINE u == CallOf(n)
  <1>1. phase[n] = "updating" /\ u \in Calls
    BY CurrentCall DEF UpdateEnds, UpdateNotBegun
  <1>2. /\ UNCHANGED loopVars
        /\ UNCHANGED <<snapshot, memory, nodeEvents, workflowEvents>>
    BY DEF UpdateEnds, UpdateNotBegun, eventVars
  <1>3. UNCHANGED <<seenControl, seenError, completed, failed, running>>
    BY <1>1, <1>2, SeenWaiting
  <1>4. /\ pc'[u] \in {"returned", "raised"} /\ verdict' = verdict
        /\ \A v \in Calls \ {u} : pc'[v] = pc[v]
    BY <1>1, LeaveMoves DEF UpdateEnds, UpdateNotBegun
  <1>5. /\ \A m \in Nodes \ {n} : phase'[m] = phase[m] /\ attempt'[m] = attempt[m]
        /\ phase'[n] # "updating"
    BY AttemptMoves DEF UpdateEnds, UpdateNotBegun, Move, TypeOK
  <1>6. \A m \in Nodes \ {n} : seenPhase'[m] = seenPhase[m] /\ seenAttempt'[m] = seenAttempt[m]
    BY <1>1, <1>4, <1>5, SeenOthers
  <1>7. /\ seenPhase' = [seenPhase EXCEPT ![n] = phase'[n]]
        /\ seenAttempt' = [seenAttempt EXCEPT ![n] = attempt'[n]]
        /\ attempt'[n] = seenAttempt[n] => seenAttempt' = seenAttempt
        /\ phase'[n] = seenPhase[n] => seenPhase' = seenPhase
    BY <1>5, <1>6, SeenPlain, SeenOne, SeenFunctions
  <1>8. ASSUME AttemptFails(n), seenAttempt[n] = attempt[n]
        PROVE  Engine!AttemptFails(n)
    BY <1>1, <1>6, <1>8, SeenRetry
  <1>9. ASSUME phase'[n] = seenPhase[n], attempt'[n] = seenAttempt[n]
        PROVE  UNCHANGED Engine!vars
    BY <1>2, <1>3, <1>7, <1>9 DEF Engine!vars, Engine!loopVars, Engine!taskVars, Engine!eventVars
  <1>10. CASE UpdateNotBegun(n)
    <2>1. pc[u] = "acquiring" /\ "memory" \in Faults /\ AttemptFails(n)
      BY <1>10 DEF UpdateNotBegun, SM!AcquireFails, SM!Move
    <2>2. seenPhase[n] = "updating" /\ seenAttempt[n] = attempt[n]
      BY <1>1, <2>1, SeenUpdate DEF Applied, Spoilt
    <2>3. Engine!UpdateFails(n)
      BY <1>2, <1>3, <1>8, <2>1, <2>2 DEF Engine!UpdateFails, Engine!loopVars, Engine!eventVars
    <2> QED
      BY <2>3 DEF Engine!NodeStep
  <1>11. CASE UpdateEnds(n) /\ verdict[u] = "ok"
    <2>1. Applied(u)
      BY <1>11 DEF UpdateEnds, LeaveUpdate, SM!Release, SM!ReleaseFails, SM!Move, Applied
    <2>2. seenPhase[n] = "announcing" /\ seenAttempt[n] = attempt[n]
      BY <1>1, <2>1, SeenUpdate
    <2>3. CASE pc'[u] = "returned"
      <3>1. phase'[n] = "announcing" /\ attempt'[n] = attempt[n]
        BY <1>11, <2>3 DEF UpdateEnds, Move, TypeOK
      <3> QED
        BY <1>9, <2>2, <3>1
    <2>4. CASE pc'[u] # "returned"
      <3>1. AttemptFails(n)
        BY <1>11, <2>4 DEF UpdateEnds
      <3>2. Engine!AnnounceFails(n)
        BY <1>2, <1>3, <1>8, <2>2, <3>1 DEF Engine!AnnounceFails, Engine!loopVars
      <3> QED
        BY <3>2 DEF Engine!NodeStep
    <2> QED
      BY <2>3, <2>4
  <1>12. CASE UpdateEnds(n) /\ verdict[u] = "error"
    <2>1. Spoilt(u)
      BY <1>12 DEF UpdateEnds, LeaveUpdate, SM!Release, SM!ReleaseFails, SM!Move, Spoilt
    <2>2. pc'[u] = "raised"
      BY <1>1, <1>12 DEF UpdateEnds, LeaveUpdate, SM!Release, SM!ReleaseFails, SM!Move, SM!TypeOK
    <2>3. AttemptFails(n)
      BY <1>12, <2>2 DEF UpdateEnds
    <2>4. attempt[n] \in Nat /\ Attempts(n) \in Nat
      BY DEF TypeOK, Attempts
    <2>5. phase'[n] = seenPhase[n] /\ attempt'[n] = seenAttempt[n]
      BY <1>1, <2>1, <2>3, <2>4, AttemptMoves, SeenUpdate DEF LastTry
    <2> QED
      BY <1>9, <2>5
  <1>13. UpdateEnds(n) => verdict[u] \in {"ok", "error"}
    BY <1>1 DEF UpdateEnds, LeaveUpdate, SM!Release, SM!ReleaseFails, SM!Move, VerdictInv
  <1> QED
    BY <1>10, <1>11, <1>12, <1>13

\* While execute records the end, no task is in an update.
LEMMA SeenFinishing ==
    ASSUME TasksInv, control = "finish", UNCHANGED taskVars
    PROVE  UNCHANGED <<seenPhase, seenAttempt, phase, attempt, snapshot>>
  <1>1. \A n \in Nodes : seenPhase'[n] = seenPhase[n] /\ seenAttempt'[n] = seenAttempt[n]
    BY SeenSame DEF TasksInv, taskVars
  <1> QED
    BY <1>1, SeenFunctions DEF taskVars

\* What the record looks like once the result is merged into it.
LEMMA ResultWritten ==
    ASSUME SM!TypeOK, SM!LockInv, SM!RecordInv, ViewInv,
           pc[Closing] = "writing", record' = SM!Merged(Closing)
    PROVE  memory.present /\ View(record') = Engine!WithResult
  <1>1. base[Closing] = record /\ record.present
    BY CallNames, WriterReads
  <1>2. record'.present /\ record'.patches = record.patches \cup {Closing}
    BY <1>1 DEF SM!Merged
  <1>3. \A m \in Nodes : \A k \in 1 .. Attempts(m) :
           <<m, k>> \in record'.patches <=> <<m, k>> \in record.patches
    BY <1>2, CallNames
  <1>4. memory = View(record) /\ memory.present
    BY <1>1 DEF ViewInv, View
  <1>5. View(record').outputs = memory.outputs
    BY <1>3, <1>4 DEF View
  <1>6. /\ View(record').present = memory.present
        /\ View(record').status = "completed"
        /\ View(record').completedNodes = completed
    BY <1>2, <1>4 DEF View
  <1>7. ASSUME NEW r
        PROVE  View(r) = [ present |-> View(r).present, outputs |-> View(r).outputs,
                           status |-> View(r).status, completedNodes |-> View(r).completedNodes ]
    BY DEF View
  <1>8. memory = [ present |-> memory.present, outputs |-> memory.outputs,
                   status |-> memory.status, completedNodes |-> memory.completedNodes ]
    BY <1>4, <1>7
  <1>9. View(record') = [ present |-> memory.present, outputs |-> memory.outputs,
                          status |-> "completed", completedNodes |-> completed ]
    BY <1>5, <1>6, <1>7
  <1>10. Engine!WithResult = [ present |-> memory.present, outputs |-> memory.outputs,
                               status |-> "completed", completedNodes |-> completed ]
    <2>1. Engine!WithResult =
            [[memory EXCEPT !.status = "completed"] EXCEPT !.completedNodes = completed]
      BY Zenon DEF Engine!WithResult
    <2>2. [memory EXCEPT !.status = "completed"] =
            [ present |-> memory.present, outputs |-> memory.outputs,
              status |-> "completed", completedNodes |-> memory.completedNodes ]
      BY <1>8
    <2> QED
      BY <2>1, <2>2
  <1> QED
    BY <1>4, <1>9, <1>10

\* The closing update as the engine sees it, likewise.
LEMMA ClosingInsideImplements ==
    ASSUME TypeOK, SM!TypeOK, SM!LockInv, SM!RecordInv, TasksInv, ClosingInv, ViewInv,
           InsideUpdate(Closing)
    PROVE  Engine!EngineStep \/ UNCHANGED Engine!vars
  <1>1. /\ Closing \in Calls
        /\ control = "finish" /\ UNCHANGED <<control, error, completed, failed, running>>
        /\ UNCHANGED taskVars
        /\ UNCHANGED <<nodeEvents, workflowEvents>>
        /\ memory' = View(record')
    BY CallNames, InsideMoves DEF loopVars, eventVars, ClosingInv
  <1>2. UNCHANGED <<seenPhase, seenAttempt, phase, attempt, snapshot>>
    BY <1>1, SeenFinishing
  <1>3. memory = View(record) /\ memory.present = record.present
    BY DEF ViewInv, View
  <1>4. seenControl = "finish" /\ seenError = error
    BY <1>1
    DEF InsideUpdate, SM!Acquire, SM!ReadRecord, SM!ReadFails, SM!WriteRecord, SM!WriteFails,
        SM!Leave, SM!Move, seenControl, seenError, Applied, Spoilt
  <1>5. CASE SM!Acquire(Closing) \/ SM!ReadRecord(Closing)
    <2>1. pc'[Closing] \in {"reading", "writing"} /\ record' = record
      BY <1>1, <1>5 DEF SM!Acquire, SM!ReadRecord, SM!Move, SM!TypeOK
    <2>2. seenControl' = "finish" /\ seenError' = error
      BY <1>1, <2>1 DEF seenControl, seenError, Applied, Spoilt
    <2>3. memory' = memory
      BY <1>1, <1>3, <2>1
    <2> QED
      BY <1>1, <1>2, <1>4, <2>2, <2>3
      DEF Engine!vars, Engine!loopVars, Engine!taskVars, Engine!eventVars
  <1>6. CASE SM!WriteRecord(Closing)
    <2>1. /\ pc[Closing] = "writing" /\ pc'[Closing] = "releasing" /\ verdict'[Closing] = "ok"
          /\ record' = SM!Merged(Closing)
      BY <1>1, <1>6 DEF SM!WriteRecord, SM!Leave, SM!Move, SM!TypeOK
    <2>2. seenControl' = "announce_end" /\ seenError' = error
      BY <1>1, <2>1 DEF seenControl, seenError, Applied, Spoilt
    <2>3. memory.present /\ memory' = Engine!WithResult
      BY <1>1, <2>1, ResultWritten
    <2>4. Engine!Finish
      BY <1>1, <1>2, <1>4, <2>2, <2>3
      DEF Engine!Finish, Engine!Goto, Engine!taskVars, Engine!eventVars
    <2> QED
      BY <2>4 DEF Engine!EngineStep
  <1>7. CASE SM!ReadFails(Closing) \/ SM!WriteFails(Closing)
    <2>1. pc'[Closing] = "releasing" /\ verdict'[Closing] = "error"
      BY <1>1, <1>7 DEF SM!ReadFails, SM!WriteFails, SM!Leave, SM!Move, SM!TypeOK
    <2>2. seenControl' = "raised" /\ seenError' = "environment"
      BY <1>1, <2>1 DEF seenControl, seenError, Applied, Spoilt
    <2>3. \/ ~ memory.present /\ memory' = memory
          \/ "memory" \in Faults /\ memory.present /\ memory' \in {memory, Engine!WithResult}
      <3>1. CASE SM!ReadFails(Closing)
        <4>1. expected[Closing] = 0 /\ record' = record
          BY <1>1, <3>1 DEF SM!ReadFails, SM!TypeOK
        <4>2. ~ record.present \/ "memory" \in Faults
          BY <3>1, <4>1 DEF SM!ReadFails, SM!VersionMatches
        <4> QED
          BY <1>1, <1>3, <4>1, <4>2
      <3>2. CASE SM!WriteFails(Closing)
        <4>1. /\ "memory" \in Faults /\ record' \in {record, SM!Merged(Closing)}
              /\ pc[Closing] = "writing"
          BY <3>2 DEF SM!WriteFails, SM!Leave, SM!Move
        <4>2. record.present
          BY <1>1, <4>1, WriterReads
        <4> QED
          BY <1>1, <1>3, <4>1, <4>2, ResultWritten
      <3> QED
        BY <1>7, <3>1, <3>2
    <2>4. Engine!FinishFails
      BY <1>1, <1>2, <1>4, <2>2, <2>3
      DEF Engine!FinishFails, Engine!Raise, Engine!taskVars, Engine!eventVars
    <2> QED
      BY <2>4 DEF Engine!EngineStep
  <1> QED
    BY <1>5, <1>6, <1>7 DEF InsideUpdate

\* The end of the closing update is not seen either, but for a release that
\* raises after the write, which is the last announcement's failure.
LEMMA ClosingEndImplements ==
    ASSUME TypeOK, SM!TypeOK, TasksInv, ViewInv, VerdictInv, ClosingEnds \/ ClosingNotBegun
    PROVE  Engine!EngineStep \/ UNCHANGED Engine!vars
  <1>1. /\ control = "finish" /\ Closing \in Calls
        /\ UNCHANGED <<completed, failed, running>>
        /\ UNCHANGED taskVars
        /\ UNCHANGED <<memory, nodeEvents, workflowEvents>>
    BY CallNames DEF ClosingEnds, ClosingNotBegun, Goto, Raise, eventVars
  <1>2. UNCHANGED <<seenPhase, seenAttempt, phase, attempt, snapshot>>
    BY <1>1, SeenFinishing
  <1>3. control' # "finish" /\ seenControl' = control' /\ seenError' = error'
    BY SeenLoop DEF ClosingEnds, ClosingNotBegun, Goto, Raise
  <1> USE DEF Engine!Raise, Engine!taskVars, Engine!eventVars
  <1>4. CASE ClosingNotBegun
    <2>1. /\ pc[Closing] = "acquiring" /\ "memory" \in Faults
          /\ control' = "raised" /\ error' = "environment"
      BY <1>4 DEF ClosingNotBegun, SM!AcquireFails, SM!Move, Raise
    <2>2. seenControl = "finish"
      BY <1>1, <2>1 DEF seenControl, Applied, Spoilt
    <2>3. Engine!FinishFails
      BY <1>1, <1>2, <1>3, <2>1, <2>2 DEF Engine!FinishFails
    <2> QED
      BY <2>3 DEF Engine!EngineStep
  <1>5. CASE ClosingEnds /\ verdict[Closing] = "ok"
    <2>1. seenControl = "announce_end" /\ seenError = error
      BY <1>1, <1>5
      DEF ClosingEnds, LeaveUpdate, SM!Release, SM!ReleaseFails, SM!Move, Applied, Spoilt,
          seenControl, seenError
    <2>2. CASE pc'[Closing] = "returned"
      <3>1. control' = "announce_end" /\ error' = error
        BY <1>5, <2>2 DEF ClosingEnds, Goto
      <3> QED
        BY <1>1, <1>2, <1>3, <2>1, <3>1 DEF Engine!vars, Engine!loopVars
    <2>3. CASE pc'[Closing] # "returned"
      <3>1. control' = "raised" /\ error' = "environment"
        BY <1>5, <2>3 DEF ClosingEnds, Raise
      <3>2. Engine!AnnounceEndFails
        BY <1>1, <1>2, <1>3, <2>1, <3>1 DEF Engine!AnnounceEndFails
      <3> QED
        BY <3>2 DEF Engine!EngineStep
    <2> QED
      BY <2>2, <2>3
  <1>6. CASE ClosingEnds /\ verdict[Closing] = "error"
    <2>1. seenControl = "raised" /\ seenError = "environment"
      BY <1>1, <1>6
      DEF ClosingEnds, LeaveUpdate, SM!Release, SM!ReleaseFails, SM!Move, Applied, Spoilt,
          seenControl, seenError
    <2>2. pc'[Closing] = "raised"
      BY <1>1, <1>6 DEF ClosingEnds, LeaveUpdate, SM!Release, SM!ReleaseFails, SM!Move, SM!TypeOK
    <2>3. control' = "raised" /\ error' = "environment"
      BY <1>6, <2>2 DEF ClosingEnds, Raise
    <2> QED
      BY <1>1, <1>2, <1>3, <2>1, <2>3 DEF Engine!vars, Engine!loopVars
  <1>7. ClosingEnds => verdict[Closing] \in {"ok", "error"}
    BY <1>1 DEF ClosingEnds, LeaveUpdate, SM!Release, SM!ReleaseFails, SM!Move, VerdictInv
  <1> QED
    BY <1>4, <1>5, <1>6, <1>7
-----------------------------------------------------------------------------
\* The initial states are the engine's.
LEMMA InitImplements ==
    ASSUME InitOnRedis
    PROVE  Engine!Init
  <1>1. \A n \in Nodes : seenPhase[n] = "idle" /\ seenAttempt[n] = 0
    BY SeenPlain DEF InitOnRedis, Init
  <1>2. seenPhase = [n \in Nodes |-> "idle"] /\ seenAttempt = [n \in Nodes |-> 0]
    BY <1>1 DEF seenPhase, seenAttempt
  <1> QED
    BY <1>2, SeenLoop DEF InitOnRedis, Init, Engine!Init, NoRecord, Engine!NoRecord

\* Every step is the engine's or none of its.
LEMMA NextImplements ==
    ASSUME RedisInv, [NextOnRedis]_allVars
    PROVE  [Engine!Next]_(Engine!vars)
  <1> USE DEF RedisInv
  <1>1. CASE StartRun \/ Loop \/ LoopHook
    BY <1>1, LoopImplements DEF Engine!Next
  <1>2. CASE CallClosing
    BY <1>2, CallClosingImplements DEF Engine!Next, Engine!EngineStep
  <1>3. CASE InsideUpdate(Closing) \/ ClosingEnds \/ ClosingNotBegun
    BY <1>3, ClosingInsideImplements, ClosingEndImplements DEF Engine!Next
  <1>4. ASSUME NEW n \in Nodes, Task(n) \/ TaskHook(n) \/ CallUpdate(n)
        PROVE  Engine!Next
    BY <1>4, TaskImplements DEF Engine!Next
  <1>5. ASSUME NEW n \in Nodes, phase[n] = "updating", InsideUpdate(CallOf(n))
        PROVE  [Engine!Next]_(Engine!vars)
    BY <1>5, InsideImplements DEF Engine!Next
  <1>6. ASSUME NEW n \in Nodes, UpdateEnds(n) \/ UpdateNotBegun(n)
        PROVE  [Engine!Next]_(Engine!vars)
    BY <1>6, EndImplements DEF Engine!Next
  <1>7. CASE LockExpires \/ GoDeaf \/ Rest \/ UNCHANGED allVars
    <2>1. UNCHANGED vars /\ UNCHANGED <<pc, verdict>>
      BY <1>7 DEF LockExpires, SM!Expire, GoDeaf, Rest, allVars, redisVars
    <2>2. UNCHANGED <<seenControl, seenError>>
      BY <2>1 DEF seenControl, seenError, Applied, Spoilt, vars, loopVars
    <2>3. \A n \in Nodes : seenPhase'[n] = seenPhase[n] /\ seenAttempt'[n] = seenAttempt[n]
      BY <2>1, SeenSame DEF vars, taskVars, CallOf
    <2>4. UNCHANGED <<seenPhase, seenAttempt>>
      BY <2>3, SeenFunctions
    <2> QED
      BY <2>1, <2>2, <2>4
      DEF vars, loopVars, taskVars, eventVars, Engine!vars, Engine!loopVars, Engine!taskVars,
          Engine!eventVars
  <1> QED
    BY <1>1, <1>2, <1>3, <1>4, <1>5, <1>6, <1>7 DEF NextOnRedis, LoopProceeds, TaskProceeds

\* Whatever the lock, the retries and Redis do, execute and _run_node over
\* the real memory.update (shared_memory.py 65-103) take the steps they would
\* take over a memory that applies or refuses each update at once.
THEOREM EngineImplemented == SpecOnRedis => ImplementsEngine
  <1>1. InitOnRedis => Engine!Init
    BY InitImplements
  <1>2. RedisInv /\ [NextOnRedis]_allVars => [Engine!Next]_(Engine!vars)
    BY NextImplements
  <1> QED
    BY <1>1, <1>2, RedisInvariant, PTL DEF SpecOnRedis, ImplementsEngine
-----------------------------------------------------------------------------
(***************************************************************************)
(* What is proved of the engine therefore holds over the lock protocol.    *)
(***************************************************************************)
EngineP == INSTANCE WorkflowEngineProofs WITH
            Faults <- Faults \cup {"hook"},
            phase <- seenPhase,
            attempt <- seenAttempt,
            control <- seenControl,
            error <- seenError

\* The two instances of the engine take the same steps.
LEMMA SameEngineSteps == Engine!EngineStep => EngineP!EngineStep
  <1> USE DEF Engine!Goto, EngineP!Goto, Engine!Raise, EngineP!Raise, Engine!taskVars,
        EngineP!taskVars, Engine!eventVars, EngineP!eventVars
  <1>1. Engine!Initialize => EngineP!Initialize
    BY DEF Engine!Initialize, EngineP!Initialize, Engine!FirstRecord, EngineP!FirstRecord
  <1>2. ASSUME NEW done, NEW bad
        PROVE  Engine!AllAccounted(done, bad) <=> EngineP!AllAccounted(done, bad)
    <2>1. ASSUME NEW S
          PROVE  Engine!Cardinality(S) = EngineP!Cardinality(S)
      BY DEF Engine!Cardinality, EngineP!Cardinality
    <2> QED
      BY <2>1 DEF Engine!AllAccounted, EngineP!AllAccounted
  <1>3. Engine!Schedule => EngineP!Schedule
    BY <1>2 DEF Engine!Schedule, EngineP!Schedule, Engine!ReadyNodes, EngineP!ReadyNodes
  <1>4. /\ Engine!InitializeFails => EngineP!InitializeFails
        /\ Engine!AnnounceStart => EngineP!AnnounceStart
        /\ Engine!AnnounceStartFails => EngineP!AnnounceStartFails
        /\ Engine!AnnounceEnd => EngineP!AnnounceEnd
        /\ Engine!AnnounceEndFails => EngineP!AnnounceEndFails
    BY DEF Engine!InitializeFails, EngineP!InitializeFails, Engine!AnnounceStart,
         EngineP!AnnounceStart, Engine!AnnounceStartFails, EngineP!AnnounceStartFails,
         Engine!AnnounceEnd, EngineP!AnnounceEnd, Engine!AnnounceEndFails, EngineP!AnnounceEndFails,
         Engine!FirstRecord, EngineP!FirstRecord
  <1>5. /\ Engine!AnnounceFailure => EngineP!AnnounceFailure
        /\ Engine!AnnounceFailureFails => EngineP!AnnounceFailureFails
    BY DEF Engine!AnnounceFailure, EngineP!AnnounceFailure, Engine!AnnounceFailureFails,
         EngineP!AnnounceFailureFails
  <1>6. /\ Engine!RaiseDeadlock => EngineP!RaiseDeadlock
        /\ Engine!LeaveLoop => EngineP!LeaveLoop
    BY <1>2 DEF Engine!RaiseDeadlock, EngineP!RaiseDeadlock, Engine!LeaveLoop, EngineP!LeaveLoop,
         Engine!ReadyNodes, EngineP!ReadyNodes
  <1>7. /\ Engine!CollectSuccess => EngineP!CollectSuccess
        /\ Engine!CollectFailure => EngineP!CollectFailure
    BY DEF Engine!CollectSuccess, EngineP!CollectSuccess, Engine!CollectFailure,
         EngineP!CollectFailure, Engine!WaveEnded, EngineP!WaveEnded, Engine!Ended, EngineP!Ended,
         Engine!Broken, EngineP!Broken, Engine!Before, EngineP!Before
  <1>8. /\ Engine!Finish => EngineP!Finish
        /\ Engine!FinishFails => EngineP!FinishFails
    BY DEF Engine!Finish, EngineP!Finish, Engine!FinishFails, EngineP!FinishFails, Engine!WithResult,
         EngineP!WithResult
  <1> QED
    BY <1>1, <1>3, <1>4, <1>5, <1>6, <1>7, <1>8 DEF Engine!EngineStep, EngineP!EngineStep

\* ...for the tasks...
LEMMA SameNodeSteps ==
    ASSUME NEW n \in Nodes, Engine!NodeStep(n)
    PROVE  EngineP!NodeStep(n)
  <1> USE DEF Engine!Move, EngineP!Move, Engine!loopVars, EngineP!loopVars, Engine!eventVars,
        EngineP!eventVars
  <1>1. Engine!AttemptFails(n) => EngineP!AttemptFails(n)
    BY DEF Engine!AttemptFails, EngineP!AttemptFails, Engine!Attempts, EngineP!Attempts
  <1>2. /\ Engine!StartNode(n) => EngineP!StartNode(n)
        /\ Engine!StartFails(n) => EngineP!StartFails(n)
        /\ Engine!ReadMemory(n) => EngineP!ReadMemory(n)
    BY DEF Engine!StartNode, EngineP!StartNode, Engine!StartFails, EngineP!StartFails,
         Engine!ReadMemory, EngineP!ReadMemory
  <1>3. /\ Engine!ReadFails(n) => EngineP!ReadFails(n)
        /\ Engine!AgentReturns(n) => EngineP!AgentReturns(n)
        /\ Engine!AgentFails(n) => EngineP!AgentFails(n)
    BY <1>1 DEF Engine!ReadFails, EngineP!ReadFails, Engine!AgentReturns, EngineP!AgentReturns,
         Engine!AgentFails, EngineP!AgentFails
  <1>4. /\ Engine!UpdateMemory(n) => EngineP!UpdateMemory(n)
        /\ Engine!UpdateFails(n) => EngineP!UpdateFails(n)
    BY <1>1 DEF Engine!UpdateMemory, EngineP!UpdateMemory, Engine!UpdateFails, EngineP!UpdateFails,
         Engine!WithOutput, EngineP!WithOutput
  <1>5. /\ Engine!AnnounceNode(n) => EngineP!AnnounceNode(n)
        /\ Engine!AnnounceFails(n) => EngineP!AnnounceFails(n)
    BY <1>1 DEF Engine!AnnounceNode, EngineP!AnnounceNode, Engine!AnnounceFails, EngineP!AnnounceFails
  <1> QED
    BY <1>1, <1>2, <1>3, <1>4, <1>5 DEF Engine!NodeStep, EngineP!NodeStep

\* ...and altogether.
LEMMA SameEngine ==
    /\ Engine!Init => EngineP!Init
    /\ [Engine!Next]_(Engine!vars) => [EngineP!Next]_(EngineP!vars)
  <1>1. Engine!Init => EngineP!Init
    BY DEF Engine!Init, EngineP!Init, Engine!NoRecord, EngineP!NoRecord
  <1>2. UNCHANGED Engine!vars => UNCHANGED EngineP!vars
    BY DEF Engine!vars, EngineP!vars, Engine!loopVars, EngineP!loopVars, Engine!taskVars,
         EngineP!taskVars, Engine!eventVars, EngineP!eventVars
  <1>3. Engine!LoseMemory => EngineP!LoseMemory
    BY DEF Engine!LoseMemory, EngineP!LoseMemory, Engine!NoRecord, EngineP!NoRecord, Engine!loopVars,
         EngineP!loopVars, Engine!taskVars, EngineP!taskVars, Engine!eventVars, EngineP!eventVars
  <1>4. Engine!Over => EngineP!Over
    BY <1>2 DEF Engine!Over, EngineP!Over
  <1>5. (\E n \in Nodes : Engine!NodeStep(n)) => \E n \in Nodes : EngineP!NodeStep(n)
    BY SameNodeSteps
  <1>6. Engine!Next => EngineP!Next
    BY <1>3, <1>4, <1>5, SameEngineSteps DEF Engine!Next, EngineP!Next
  <1> QED
    BY <1>1, <1>2, <1>6

\* The engine's constants satisfy its assumptions.
LEMMA EngineFits == EngineP!GraphAssumption /\ EngineP!PositionAssumption
  <1>1. EngineP!IsFiniteSet(Nodes)
    BY DEF IsFiniteSet, EngineP!IsFiniteSet
  <1> QED
    BY <1>1, PositionAssumption
    DEF EngineP!GraphAssumption, EngineP!PositionAssumption, EngineP!FaultKinds, FaultKinds

\* The inductive invariant of WorkflowEngine, of what the engine sees.
SeenInv == EngineP!IInv /\ EngineP!NothingYet /\ EngineP!BlameIsFirst

\* The engine's invariant holds of what it sees, from the start...
LEMMA InitSeen ==
    ASSUME InitOnRedis
    PROVE  SeenInv
  <1>1. EngineP!Init
    BY InitImplements, SameEngine
  <1>2. EngineP!BlameIsFirst
    BY <1>1 DEF EngineP!Init, EngineP!BlameIsFirst
  <1> QED
    BY <1>1, <1>2, EngineFits, EngineP!InitType, EngineP!InitLoop, EngineP!InitTrace, EngineP!InitEnd
    DEF SeenInv, EngineP!IInv, EngineP!GraphAssumption, EngineP!PositionAssumption

\* ...and after every step.
LEMMA StepSeen ==
    ASSUME RedisInv, SeenInv, [NextOnRedis]_allVars
    PROVE  SeenInv'
  <1> USE EngineFits DEF EngineP!GraphAssumption, EngineP!PositionAssumption
  <1>1. /\ EngineP!TypeOK /\ EngineP!LoopInv /\ EngineP!OrderInv /\ EngineP!TraceInv
        /\ EngineP!EndInv /\ EngineP!ErrorInv /\ EngineP!NothingYet /\ EngineP!BlameIsFirst
        /\ [EngineP!Next]_(EngineP!vars)
    BY NextImplements, SameEngine DEF SeenInv, EngineP!IInv
  <1>2. EngineP!TypeOK'
    BY <1>1, EngineP!NextType
  <1>3. EngineP!LoopInv' /\ EngineP!OrderInv'
    BY <1>1, <1>2, EngineP!NextLoop
  <1>4. EngineP!TraceInv' /\ EngineP!NothingYet'
    BY <1>1, EngineP!NextTrace, EngineP!NothingYetStep
  <1>5. EngineP!EndInv' /\ EngineP!ErrorInv'
    BY <1>1, EngineP!NextEnd, EngineP!NextError
  <1>6. EngineP!BlameIsFirst'
    BY <1>1, EngineP!NextBlame
  <1> QED
    BY <1>2, <1>3, <1>4, <1>5, <1>6 DEF SeenInv, EngineP!IInv

\* What the invariant says of the phases that the engine sees, it says of
\* the tasks themselves: they differ only while an update is under way.
LEMMA SeenMeans ==
    ASSUME RedisInv, SeenInv
    PROVE  /\ AgentsSeeDependencies /\ CompletedIsBacked /\ LoopHeadIsQuiet
           /\ ObserverOrder /\ ResultIsWhole /\ BlameIsFirst
  <1> USE DEF SeenInv, EngineP!IInv
  <1>1. ASSUME NEW n \in Nodes
        PROVE  /\ phase[n] \in {"agent", "done", "failed"} => seenPhase[n] = phase[n]
               /\ seenPhase[n] \in {"idle", "done"} => phase[n] = seenPhase[n]
    BY DEF seenPhase, SeenPhase
  <1>2. AgentsSeeDependencies
    BY <1>1 DEF EngineP!TraceInv, AgentsSeeDependencies
  <1>3. CompletedIsBacked
    BY DEF EngineP!TypeOK, EngineP!LoopInv, EngineP!TraceInv, CompletedIsBacked
  <1>4. LoopHeadIsQuiet
    BY <1>1, SeenLoop DEF EngineP!LoopInv, LoopHeadIsQuiet
  <1>5. ObserverOrder
    BY DEF EngineP!TypeOK, EngineP!LoopInv, EngineP!OrderInv, EngineP!TraceInv, ObserverOrder
  <1>6. ResultIsWhole
    BY SeenLoop DEF EngineP!LoopInv, EngineP!EndInv, ResultIsWhole
  <1>7. BlameIsFirst
    BY <1>1 DEF EngineP!BlameIsFirst, BlameIsFirst
  <1> QED
    BY <1>2, <1>3, <1>4, <1>5, <1>6, <1>7

\* With tasks that meet at the lock, updates that fail half done and locks
\* left behind, agents still see their dependencies, completed nodes are still
\* backed, and the result, its announcements and the blame are still right.
THEOREM SafeOnRedis ==
    SpecOnRedis => []( /\ AgentsSeeDependencies /\ CompletedIsBacked /\ LoopHeadIsQuiet
                       /\ ObserverOrder /\ ResultIsWhole /\ BlameIsFirst )
  BY RedisInvariant, InitSeen, StepSeen, SeenMeans, PTL DEF SpecOnRedis

\* Once execute has found a failure or has ended, no update is under way...
Ending == control \in {"announce_failure", "returned", "raised"}

LEMMA NoneUnderWay ==
    ASSUME RedisInv, Ending
    PROVE  /\ \A n \in Nodes : phase[n] \in {"idle", "done", "failed"}
           /\ \A u \in Calls : pc[u] \notin Active
  <1>1. \A n \in Nodes : phase[n] \in {"idle", "done", "failed"}
    BY DEF RedisInv, TasksInv, Ending
  <1>2. pc[Closing] \notin Active
    BY DEF RedisInv, ClosingInv, Ending
  <1>3. \A n \in Nodes : \A k \in 1 .. Attempts(n) : pc[<<n, k>>] \notin Active
    BY <1>1 DEF RedisInv, AttemptsInv
  <1> QED
    BY <1>1, <1>2, <1>3, CallNames

\* ...and none begins.
LEMMA NoneBegins ==
    ASSUME RedisInv, Ending, [NextOnRedis]_allVars
    PROVE  UNCHANGED <<taskVars, memory, record, pc>>
  <1>1. CASE StartRun
    BY <1>1 DEF StartRun, Initialize, InitializeFails, Ending
  <1>2. CASE Loop
    BY <1>2 DEF Loop, Schedule, RaiseDeadlock, CollectSuccess, CollectFailure, Ending
  <1>3. CASE LoopHook
    BY <1>3 DEF LoopHook, AnnounceStart, AnnounceStartFails, AnnounceFailure,
         AnnounceFailureFails, AnnounceEnd, AnnounceEndFails, Ending, redisVars
  <1>4. CASE CallClosing \/ ClosingEnds
    BY <1>4 DEF CallClosing, LeaveLoop, ClosingEnds, Ending
  <1>5. CASE InsideUpdate(Closing)
    BY <1>5, NoneUnderWay, InsideMoves, CallNames DEF RedisInv
  <1>6. CASE ClosingNotBegun
    BY <1>6 DEF ClosingNotBegun, Ending
  <1>7. ASSUME NEW n \in Nodes, TaskProceeds(n) \/ UpdateNotBegun(n)
        PROVE  FALSE
    <2>1. phase[n] \in {"idle", "done", "failed"}
      BY NoneUnderWay
    <2> QED
      BY <1>7, <2>1 DEF TaskProceeds, UpdateNotBegun, Task, TaskHook, CallUpdate, UpdateEnds,
           ReadMemory, ReadFails, AgentFails, StartNode, StartFails, AnnounceNode, AnnounceFails,
           AgentReturns, Move
  <1>8. CASE LockExpires
    BY <1>8 DEF LockExpires, SM!Expire, vars
  <1>9. CASE GoDeaf \/ Rest \/ UNCHANGED allVars
    BY <1>9 DEF GoDeaf, Rest, allVars, vars, redisVars
  <1> QED
    BY <1>1, <1>2, <1>3, <1>4, <1>5, <1>6, <1>7, <1>8, <1>9 DEF NextOnRedis, LoopProceeds

\* Whoever is told how a workflow ended can rely on the record: no attempt of
\* any node, a retried one included, is still somewhere between the lock and
\* its release, and nothing is written to the record any more (gather with
\* return_exceptions=True, engine.py 70-88, over shared_memory.py 65-103).
THEOREM NothingUnderWay ==
    SpecOnRedis =>
        /\ [](Ending => \A u \in Calls : pc[u] \notin Active)
        /\ [][Ending => UNCHANGED <<taskVars, memory, record, pc>>]_allVars
  <1>1. RedisInv => (Ending => \A u \in Calls : pc[u] \notin Active)
    BY NoneUnderWay
  <1>2. RedisInv /\ [NextOnRedis]_allVars
          => [Ending => UNCHANGED <<taskVars, memory, record, pc>>]_allVars
    BY NoneBegins
  <1> QED
    BY <1>1, <1>2, RedisInvariant, PTL DEF SpecOnRedis
=============================================================================

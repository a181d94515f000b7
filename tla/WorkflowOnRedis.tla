-------------------------- MODULE WorkflowOnRedis --------------------------
(***************************************************************************)
(* The engine with its memory taken apart: every memory.update of execute  *)
(* and _run_node is a call of SharedMemory, which takes the lock, reads,   *)
(* merges, writes and releases, while the other tasks of the wave do the   *)
(* same.  WorkflowEngine treats such a call as one step; this module shows *)
(* that it may (ImplementsEngine), and what waiting for the lock does to   *)
(* the workflow's end.                                                     *)
(*                                                                         *)
(* The variable memory of the engine is kept beside Redis as what a reader *)
(* of the record sees.  An update that raises does not know whether it was *)
(* applied, and the next attempt calls update again, perhaps while the     *)
(* lock that the first one never learned of is still there.                *)
(***************************************************************************)
EXTENDS WorkflowEngine

CONSTANT NoOne

VARIABLES
    created, record, lock, pc, base, expected, verdict,   \* see SharedMemory
    deaf    \* a client of the workflow's socket has stopped reading

redisVars == <<created, record, lock, pc, base, expected, verdict>>
allVars == <<vars, redisVars, deaf>>

\* The call by which execute records the end, and those of the attempts,
\* which are numbered from 1.
Closing == <<"execute", 0>>
Calls == {Closing} \cup UNION {{<<n, k>> : k \in 1 .. Attempts(n)} : n \in Nodes}
CallOf(n) == <<n, attempt[n]>>

ASSUME OwnerAssumption == NoOne \notin Calls

SM == INSTANCE SharedMemory WITH
        Updates <- Calls,
        Checked <- {},
        SlowHolders <- FALSE,
        Faults <- IF "memory" \in Faults THEN {"redis"} ELSE {}

\* The record as the engine reads it.
View(r) ==
    [ present |-> r.present,
      outputs |-> {n \in Nodes : \E k \in 1 .. Attempts(n) : <<n, k>> \in r.patches},
      status |-> IF Closing \in r.patches THEN "completed" ELSE "running",
      completedNodes |-> IF Closing \in r.patches THEN completed ELSE {} ]

InitOnRedis == Init /\ SM!Init /\ deaf = FALSE
-----------------------------------------------------------------------------
\* memory.initialize, which may raise although Redis has executed it.
StartRun ==
    /\ \/ Initialize /\ SM!Initialize
       \/ InitializeFails /\ memory' # memory /\ SM!Initialize
       \/ InitializeFails /\ memory' = memory /\ UNCHANGED redisVars
    /\ UNCHANGED deaf

\* What execute does without the memory.
Loop ==
    /\ Schedule \/ RaiseDeadlock \/ CollectSuccess \/ CollectFailure
    /\ UNCHANGED <<redisVars, deaf>>

\* Hooks await send_text to every client of the workflow, for as long as it
\* takes the slowest of them to read.
LoopHook ==
    /\ ~ deaf
    /\ \/ AnnounceStart \/ AnnounceStartFails
       \/ AnnounceFailure \/ AnnounceFailureFails
       \/ AnnounceEnd \/ AnnounceEndFails
    /\ UNCHANGED <<redisVars, deaf>>

\* What _run_node does without the memory's lock; get takes none.
Task(n) ==
    /\ ReadMemory(n) \/ ReadFails(n) \/ AgentFails(n)
    /\ UNCHANGED <<redisVars, deaf>>

TaskHook(n) ==
    /\ ~ deaf
    /\ StartNode(n) \/ StartFails(n) \/ AnnounceNode(n) \/ AnnounceFails(n)
    /\ UNCHANGED <<redisVars, deaf>>

\* update is called.
CallUpdate(n) == AgentReturns(n) /\ SM!Call(CallOf(n)) /\ UNCHANGED deaf
CallClosing == LeaveLoop /\ SM!Call(Closing) /\ UNCHANGED deaf

\* A step of call u between its beginning and its end.
InsideUpdate(u) ==
    /\ SM!Acquire(u) \/ SM!ReadRecord(u) \/ SM!ReadFails(u) \/ SM!WriteRecord(u) \/ SM!WriteFails(u)
    /\ memory' = View(record')
    /\ UNCHANGED <<loopVars, taskVars, eventVars, deaf>>

\* _emit inside the "async with": the event is delivered first.
ReleaseAfterEventSlip(u) == ~ deaf /\ (SM!Release(u) \/ SM!ReleaseFails(u))

\* The end of the "async with".
LeaveUpdate(u) == SM!Release(u) \/ SM!ReleaseFails(u)

UpdateEnds(n) ==
    /\ phase[n] = "updating"
    /\ LeaveUpdate(CallOf(n))
    /\ IF pc'[CallOf(n)] = "returned"
         THEN Move(n, "updating", "announcing") /\ UNCHANGED attempt
         ELSE AttemptFails(n)
    /\ UNCHANGED <<loopVars, snapshot, memory, eventVars, deaf>>

ClosingEnds ==
    /\ control = "finish"
    /\ LeaveUpdate(Closing)
    /\ IF pc'[Closing] = "returned" THEN Goto("announce_end") ELSE Raise("environment")
    /\ UNCHANGED <<taskVars, memory, eventVars, deaf>>

\* The poll for the lock raises; the lock may have been taken all the same.
UpdateNotBegun(n) ==
    /\ phase[n] = "updating"
    /\ SM!AcquireFails(CallOf(n))
    /\ AttemptFails(n)
    /\ UNCHANGED <<loopVars, snapshot, memory, eventVars, deaf>>

ClosingNotBegun ==
    /\ control = "finish"
    /\ SM!AcquireFails(Closing)
    /\ Raise("environment")
    /\ UNCHANGED <<taskVars, memory, eventVars, deaf>>

LockExpires == SM!Expire /\ UNCHANGED <<vars, deaf>>

GoDeaf == ~ deaf /\ deaf' = TRUE /\ UNCHANGED <<vars, redisVars>>

LoopProceeds ==
    StartRun \/ Loop \/ LoopHook \/ CallClosing \/ InsideUpdate(Closing) \/ ClosingEnds

TaskProceeds(n) ==
    \/ Task(n) \/ TaskHook(n) \/ CallUpdate(n) \/ UpdateEnds(n)
    \/ phase[n] = "updating" /\ InsideUpdate(CallOf(n))

\* execute is over, or hangs in a hook for good.
Rest ==
    /\ deaf \/ control \in {"returned", "raised"}
    /\ UNCHANGED allVars

NextOnRedis ==
    \/ LoopProceeds
    \/ ClosingNotBegun
    \/ \E n \in Nodes : TaskProceeds(n) \/ UpdateNotBegun(n)
    \/ LockExpires
    \/ GoDeaf
    \/ Rest

\* As in the two modules; a hook is resumed as long as no client is deaf.
FairnessOnRedis ==
    /\ WF_allVars(LoopProceeds)
    /\ \A n \in Nodes : WF_allVars(TaskProceeds(n))
    /\ WF_allVars(LockExpires)

SpecOnRedis == InitOnRedis /\ [][NextOnRedis]_allVars /\ FairnessOnRedis
-----------------------------------------------------------------------------
(***************************************************************************)
(* The engine sees an update happen when the record is written, and fail   *)
(* when its body has raised.  A release that raises after the write then   *)
(* looks to it like a hook that raises on the event that follows.          *)
(***************************************************************************)
Applied(u) == pc[u] = "releasing" /\ verdict[u] = "ok"
Spoilt(u) == pc[u] = "releasing" /\ verdict[u] = "error"
LastTry(n) == attempt[n] >= Attempts(n)

SeenPhase(n) ==
    IF phase[n] # "updating" THEN phase[n]
    ELSE IF Applied(CallOf(n)) THEN "announcing"
    ELSE IF ~ Spoilt(CallOf(n)) THEN "updating"
    ELSE IF LastTry(n) THEN "failed" ELSE "reading"

SeenAttempt(n) ==
    IF phase[n] = "updating" /\ Spoilt(CallOf(n)) /\ ~ LastTry(n)
      THEN attempt[n] + 1 ELSE attempt[n]

seenPhase == [n \in Nodes |-> SeenPhase(n)]
seenAttempt == [n \in Nodes |-> SeenAttempt(n)]
seenControl ==
    IF control = "finish" /\ Applied(Closing) THEN "announce_end"
    ELSE IF control = "finish" /\ Spoilt(Closing) THEN "raised" ELSE control
seenError == IF control = "finish" /\ Spoilt(Closing) THEN "environment" ELSE error

Engine == INSTANCE WorkflowEngine WITH
            Faults <- Faults \cup {"hook"},
            phase <- seenPhase,
            attempt <- seenAttempt,
            control <- seenControl,
            error <- seenError

(***************************************************************************)
(* The inductive invariant behind ImplementsEngine.                        *)
(***************************************************************************)
Active == {"acquiring", "reading", "writing", "releasing"}

\* Execute keeps track of every task, and a task at work belongs to the wave
\* that execute is waiting for.
TasksInv ==
    \A n \in Nodes :
        /\ phase[n] # "idle" => n \in completed \cup running \cup failed
        /\ phase[n] \notin {"idle", "done", "failed"} => control = "gather" /\ n \in running

\* Of the calls of one node only that of the current attempt is under way,
\* and those of the attempts to come have not begun.
AttemptsInv ==
    \A n \in Nodes :
        /\ phase[n] \in {"idle", "spawned"} => attempt[n] = 0
        /\ phase[n] \in {"reading", "agent", "updating", "announcing"} =>
              attempt[n] \in 1 .. Attempts(n)
        /\ \A k \in 1 .. Attempts(n) :
              /\ pc[<<n, k>>] \in Active <=> phase[n] = "updating" /\ k = attempt[n]
              /\ k > attempt[n] => pc[<<n, k>>] = "idle"
              /\ k = attempt[n] /\ phase[n] \in {"reading", "agent"} => pc[<<n, k>>] = "idle"

\* The closing call is under way when execute waits for it, and not before.
ClosingInv ==
    /\ pc[Closing] \in Active <=> control = "finish"
    /\ control \in {"initialize", "announce_start", "schedule", "gather", "announce_failure"} =>
          pc[Closing] = "idle"

\* What the engine remembers is what Redis holds, and nothing is lost.
ViewInv ==
    /\ memory = View(record)
    /\ record.present = created
    /\ control = "initialize" => ~ created
    /\ ~ created => record = SM!NoRecord

\* A call that is about to release its lock knows what its body came to.
VerdictInv == \A u \in Calls : pc[u] = "releasing" => verdict[u] \in {"ok", "error"}

RedisInv ==
    /\ TypeOK /\ SM!TypeOK /\ SM!LockInv /\ SM!RecordInv
    /\ TasksInv /\ AttemptsInv /\ ClosingInv /\ ViewInv /\ VerdictInv

\* With the real protocol under its updates the engine does nothing that it
\* could not do with a memory of one step: what is shown of the one holds of
\* the other, whichever attempts of whichever nodes meet at the lock.
ImplementsEngine == Engine!Init /\ [][Engine!Next]_(Engine!vars)

\* execute returns or raises, although its tasks wait for one another's
\* locks without a deadline and a lock may belong to a call that has raised,
\* unless a client stops reading (shared_memory.py 76, manager.py 36).
WorkflowEnds == <>(control \in {"returned", "raised"} \/ deaf)

\* A client that stops reading halts the workflow but never in the middle
\* of an update: the lock is always free again (engine.py 117-131).
LockIsFreed == lock # NoOne ~> lock = NoOne
=============================================================================

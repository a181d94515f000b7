--------------------------- MODULE TravelPlanning ---------------------------
(***************************************************************************)
(* TravelPlanningService (app/services/travel_service.py): the life of a   *)
(* plan across a row in PostgreSQL, a metadata hash and the workflow's     *)
(* memory in Redis.  start_plan creates the row and the hash and answers   *)
(* the client; run_plan, a background task of the same process, executes   *)
(* the workflow and records its outcome in both; status reads the hash and *)
(* the memory one after the other.  Each await that reaches Redis or the   *)
(* database is a step.                                                     *)
(*                                                                         *)
(* The workflow is no more than what WorkflowEngine shows of it: it        *)
(* initializes its memory, merges its plan into it and closes it, then     *)
(* returns, or it raises anywhere on the way.  Redis may lose the hash and *)
(* the memory at any moment.                                               *)
(***************************************************************************)
EXTENDS Naturals

CONSTANTS
    Plans,      \* the calls of start_plan; each has a trip and a workflow
    Faults      \* the kinds of failure the environment may produce

FaultKinds ==
    { "workflow",   \* execute raises
      "redis",      \* a Redis command raises; it may have been executed
      "db",         \* a database statement raises; it may have taken effect
      "stop",       \* the process dies; nothing resumes its plans
      "loss" }      \* a key of a plan expires, or is flushed from Redis

ASSUME FaultAssumption == Faults \subseteq FaultKinds

VARIABLES
    place,       \* place[p]: where start_plan or run_plan stands
    trip,        \* trip[p]: the row as committed
    meta,        \* meta[p]: the status in the hash travel:workflow:{id}:meta
    memory,      \* memory[p]: how far the workflow's memory has come
    poll         \* a client's call of status

vars == <<place, trip, meta, memory, poll>>

Places ==
    { "idle",
      "accepting", "expiring",        \* start_plan: hset, expire
      "queued",                       \* answered, the background task is due
      "initializing",                 \* engine.execute: its first write,
      "executing",                    \* its nodes,
      "returning",                    \* and its last event
      "saving", "completing",         \* commit of the plan, hset completed
      "failing", "failing_trip",      \* hset failed, commit of the failure
      "finished",                     \* run_plan has returned,
      "raised",                       \* has raised in its try,
      "abandoned",                    \* or before it, or in an except clause
      "rejected",                     \* start_plan has raised
      "dead" }                        \* the process is gone

Over == {"finished", "raised", "abandoned", "rejected", "dead"}

NoTrip == [status |-> "absent", plan |-> FALSE]
Trip ==
    [status : {"absent", "planning"}, plan : {FALSE}] \cup
    [status : {"ready"}, plan : {TRUE}] \cup
    [status : {"failed"}, plan : BOOLEAN]

MetaStatus == {"none", "accepted", "running", "completed", "failed"}
Progress == {"absent", "running", "planned", "completed"}
Poll ==
    [ step : {"meta", "memory", "answered"}, plan : Plans \cup {"nobody"},
      meta : MetaStatus, memory : Progress \cup {"unreadable"} ]
NoPoll == [step |-> "meta", plan |-> "nobody", meta |-> "none", memory |-> "absent"]
-----------------------------------------------------------------------------
Init ==
    /\ place = [p \in Plans |-> "idle"]
    /\ trip = [p \in Plans |-> NoTrip]
    /\ meta = [p \in Plans |-> "none"]
    /\ memory = [p \in Plans |-> "absent"]
    /\ poll = NoPoll

Move(p, from, to) == place[p] = from /\ place' = [place EXCEPT ![p] = to]

\* A failure of the environment at "from" raises an exception, which takes
\* the call to "to".  Whether the failed command took effect is up to the
\* action that says Disturb.
Disturb(p, kind, from, to) ==
    /\ kind \in Faults
    /\ Move(p, from, to)
    /\ UNCHANGED <<memory, poll>>

\* hset, which makes the hash again if Redis has lost it.
WithStatus(p, s) == [meta EXCEPT ![p] = s]
(***************************************************************************)
(* Names that end in "Slip" are not part of the model: each is what the    *)
(* definition after it would become under a plausible mistake in the code, *)
(* kept to show that a property of the model tells the two apart.          *)
(***************************************************************************)
Planning(p) == [trip EXCEPT ![p].status = "planning"]
Ready(p) == [trip EXCEPT ![p] = [status |-> "ready", plan |-> TRUE]]
Failed(p) == [trip EXCEPT ![p].status = "failed"]

\* start_plan: the row is added and committed.
CreateTrip(p) ==
    /\ Move(p, "idle", "accepting")
    /\ trip' = Planning(p)
    /\ UNCHANGED <<meta, memory, poll>>

CreateTripFails(p) ==
    /\ Disturb(p, "db", "idle", "rejected")
    /\ trip' \in {trip, Planning(p)}
    /\ UNCHANGED meta

Accept(p) ==
    /\ Move(p, "accepting", "expiring")
    /\ meta' = WithStatus(p, "accepted")
    /\ UNCHANGED <<trip, memory, poll>>

\* The row stays behind, with nobody to plan it.
AcceptFails(p) ==
    /\ Disturb(p, "redis", "accepting", "rejected")
    /\ meta' \in {meta, WithStatus(p, "accepted")}
    /\ UNCHANGED trip

\* expire, whether or not the hash is still there.  The route then adds
\* run_plan to the background tasks and answers 202.
SetExpiry(p) ==
    /\ Move(p, "expiring", "queued")
    /\ UNCHANGED <<trip, meta, memory, poll>>

\* The row and the hash stay behind.
SetExpiryFails(p) ==
    /\ Disturb(p, "redis", "expiring", "rejected")
    /\ UNCHANGED <<trip, meta>>

StartPlan(p) ==
    \/ CreateTrip(p)
    \/ CreateTripFails(p)
    \/ Accept(p)
    \/ AcceptFails(p)
    \/ SetExpiry(p)
    \/ SetExpiryFails(p)
-----------------------------------------------------------------------------
MarkRunning(p) ==
    /\ Move(p, "queued", "initializing")
    /\ meta' = WithStatus(p, "running")
    /\ UNCHANGED <<trip, memory, poll>>

\* Outside the "try": nothing is marked as failed.
MarkRunningFails(p) ==
    /\ Disturb(p, "redis", "queued", "abandoned")
    /\ meta' \in {meta, WithStatus(p, "running")}
    /\ UNCHANGED trip

\* WorkflowEngine.execute writes its memory for the first time...
Initialize(p) ==
    /\ Move(p, "initializing", "executing")
    /\ memory' = [memory EXCEPT ![p] = "running"]
    /\ UNCHANGED <<trip, meta, poll>>

\* ...merges final_plan into it, with all that final_plan depends on...
MergePlan(p) ==
    /\ place[p] = "executing"
    /\ memory[p] = "running"
    /\ memory' = [memory EXCEPT ![p] = "planned"]
    /\ UNCHANGED <<place, trip, meta, poll>>

\* ...and at last sets its status.
CloseMemory(p) ==
    /\ memory[p] = "planned"
    /\ Move(p, "executing", "returning")
    /\ memory' = [memory EXCEPT ![p] = "completed"]
    /\ UNCHANGED <<trip, meta, poll>>

\* The end of execute is not awaited.
NotAwaitedSlip(p) ==
    /\ place[p] \in {"executing", "returning"}
    /\ Move(p, place[p], "saving")
    /\ UNCHANGED <<trip, meta, memory, poll>>

ExecuteReturns(p) ==
    /\ Move(p, "returning", "saving")
    /\ UNCHANGED <<trip, meta, memory, poll>>

\* A memory that Redis has lost raises a MemoryStateError in the next node
\* or in the closing update.
ExecuteRaises(p) ==
    /\ place[p] \in {"initializing", "executing", "returning"}
    /\ "workflow" \in Faults \/ (place[p] = "executing" /\ memory[p] = "absent")
    /\ place' = [place EXCEPT ![p] = "failing"]
    /\ UNCHANGED <<trip, meta, memory, poll>>

\* completed is set without waiting for the commit.
EarlyCompletedSlip(p) ==
    /\ Move(p, "saving", "completing")
    /\ meta' = WithStatus(p, "completed")
    /\ UNCHANGED <<trip, memory, poll>>

SavePlan(p) ==
    /\ Move(p, "saving", "completing")
    /\ trip' = Ready(p)
    /\ UNCHANGED <<meta, memory, poll>>

\* The except clause of AppError does not see what the database raises, and
\* there is no other.
AppErrorOnlySlip(p) ==
    /\ Disturb(p, "db", "saving", "raised")
    /\ trip' \in {trip, Ready(p)}
    /\ UNCHANGED meta

SavePlanFails(p) ==
    /\ Disturb(p, "db", "saving", "failing")
    /\ trip' \in {trip, Ready(p)}
    /\ UNCHANGED meta

MarkCompleted(p) ==
    /\ Move(p, "completing", "finished")
    /\ meta' = WithStatus(p, "completed")
    /\ UNCHANGED <<trip, memory, poll>>

MarkCompletedFails(p) ==
    /\ Disturb(p, "redis", "completing", "failing")
    /\ meta' \in {meta, WithStatus(p, "completed")}
    /\ UNCHANGED trip

\* Both except clauses.
MarkFailed(p) ==
    /\ Move(p, "failing", "failing_trip")
    /\ meta' = WithStatus(p, "failed")
    /\ UNCHANGED <<trip, memory, poll>>

MarkFailedFails(p) ==
    /\ Disturb(p, "redis", "failing", "abandoned")
    /\ meta' \in {meta, WithStatus(p, "failed")}
    /\ UNCHANGED trip

\* set_status without the commit that has to follow it.
FlushOnlySlip(p) ==
    /\ Move(p, "failing_trip", "raised")
    /\ UNCHANGED <<trip, meta, memory, poll>>

\* A plan that was saved before stays in the row.
FailTrip(p) ==
    /\ Move(p, "failing_trip", "raised")
    /\ trip' = Failed(p)
    /\ UNCHANGED <<meta, memory, poll>>

\* Also what a session that a failed flush has left unusable comes to.
FailTripFails(p) ==
    /\ Disturb(p, "db", "failing_trip", "abandoned")
    /\ trip' \in {trip, Failed(p)}
    /\ UNCHANGED meta

RunPlan(p) ==
    \/ MarkRunning(p)
    \/ MarkRunningFails(p)
    \/ Initialize(p)
    \/ MergePlan(p)
    \/ CloseMemory(p)
    \/ ExecuteReturns(p)
    \/ ExecuteRaises(p)
    \/ SavePlan(p)
    \/ SavePlanFails(p)
    \/ MarkCompleted(p)
    \/ MarkCompletedFails(p)
    \/ MarkFailed(p)
    \/ MarkFailedFails(p)
    \/ FailTrip(p)
    \/ FailTripFails(p)

Die(p) ==
    /\ "stop" \in Faults
    /\ place[p] \notin Over \cup {"idle"}
    /\ place' = [place EXCEPT ![p] = "dead"]
    /\ UNCHANGED <<trip, meta, memory, poll>>
-----------------------------------------------------------------------------
\* status: HGETALL of the hash...
PollMeta(p) ==
    /\ poll.step = "meta"
    /\ poll' = [step |-> "memory", plan |-> p, meta |-> meta[p], memory |-> "absent"]

\* ...then the memory, whose absence and whose errors the client sees as
\* the same empty state.
PollMemory(p) ==
    /\ poll.step = "memory" /\ poll.plan = p
    /\ \/ poll' = [poll EXCEPT !.step = "answered", !.memory = memory[p]]
       \/ "redis" \in Faults /\ poll' = [poll EXCEPT !.step = "answered", !.memory = "unreadable"]

\* The memory is read first.
MemoryFirstSlip(p) ==
    /\ \/ /\ poll.step = "meta"
          /\ poll' = [step |-> "memory", plan |-> p, meta |-> "none", memory |-> memory[p]]
       \/ /\ poll.step = "memory" /\ poll.plan = p
          /\ poll' = [poll EXCEPT !.step = "answered", !.meta = meta[p]]
    /\ UNCHANGED <<place, trip, meta, memory>>

Status(p) ==
    /\ PollMeta(p) \/ PollMemory(p)
    /\ UNCHANGED <<place, trip, meta, memory>>

\* The client has seen the answer.
PollAgain ==
    /\ poll.step = "answered"
    /\ poll' = NoPoll
    /\ UNCHANGED <<place, trip, meta, memory>>

\* A day after start_plan, whatever has been written since, or in a flush.
ForgetMeta(p) ==
    /\ "loss" \in Faults
    /\ meta[p] # "none"
    /\ meta' = [meta EXCEPT ![p] = "none"]
    /\ UNCHANGED <<place, trip, memory, poll>>

\* A day after its last update, or in a flush.  (Between the read and the
\* write of an update the loss is undone by the write.)
ForgetMemory(p) ==
    /\ "loss" \in Faults
    /\ memory[p] # "absent"
    /\ memory' = [memory EXCEPT ![p] = "absent"]
    /\ UNCHANGED <<place, trip, meta, poll>>

Next ==
    \/ \E p \in Plans :
          StartPlan(p) \/ RunPlan(p) \/ Die(p) \/ Status(p) \/ ForgetMeta(p) \/ ForgetMemory(p)
    \/ PollAgain

\* The event loop resumes every coroutine, the background task is started
\* once the response is out, and execute comes to an end (Termination).
Fairness == \A p \in Plans : WF_vars(RunPlan(p))

Spec == Init /\ [][Next]_vars /\ Fairness
-----------------------------------------------------------------------------
\* Every variable has the type its declaration announces.
TypeOK ==
    /\ place \in [Plans -> Places]
    /\ trip \in [Plans -> Trip]
    /\ meta \in [Plans -> MetaStatus]
    /\ memory \in [Plans -> Progress]
    /\ poll \in Poll

\* Metadata that say "completed" go with a trip whose row is ready and holds
\* the plan, whatever fails on the way (travel_service.py 76-83).
CompletedMeansReady ==
    \A p \in Plans : meta[p] = "completed" => trip[p] = [status |-> "ready", plan |-> TRUE]

\* Metadata never tell of a plan whose trip is not in the database.
MetaHasTrip == \A p \in Plans : meta[p] # "none" => trip[p].status # "absent"

\* A trip stays "planning" with nobody at work on it only if start_plan has
\* raised after its commit, the process has died, or run_plan has raised where
\* nothing of its own catches it.  All that its "try" can meet, failing commits
\* and lost keys included, ends in a trip that is ready or failed
\* (travel_service.py 46-107).
StrandedTrip ==
    \A p \in Plans : trip[p].status = "planning" /\ place[p] \in Over =>
        place[p] \in {"rejected", "abandoned", "dead"}

\* Although status reads its two sources one after the other while the run
\* goes on, it never shows a completed run over an unfinished memory.
StatusIsConsistent ==
    poll.step = "answered" /\ poll.meta = "completed" =>
        poll.memory \in {"completed", "absent", "unreadable"}

\* An accepted plan whose trip is neither ready nor failed, although its run
\* is neither abandoned nor dead.
Unsettled(p) ==
    /\ trip[p].status = "planning"
    /\ place[p] \notin {"accepting", "expiring", "rejected", "abandoned", "dead"}

\* No accepted plan stays so for ever, whatever the workflow, the commit of
\* the plan or the keys in Redis come to.
RunSettles == \A p \in Plans : []<> ~ Unsettled(p)

(***************************************************************************)
(* The inductive invariant behind these properties.                        *)
(***************************************************************************)

\* What the place of a plan says of its three stores.
PlaceAgrees(p) ==
    /\ place[p] = "idle" => trip[p] = NoTrip
    /\ place[p] \in {"idle", "accepting"} => meta[p] = "none"
    /\ place[p] \notin {"idle", "rejected"} => trip[p].status # "absent"
    /\ place[p] \in {"returning", "saving", "completing"} => memory[p] \in {"completed", "absent"}
    /\ place[p] \in {"completing", "finished"} => trip[p] = [status |-> "ready", plan |-> TRUE]
    /\ place[p] = "failing_trip" => meta[p] \in {"failed", "none"}

PlaceInv == \A p \in Plans : PlaceAgrees(p)

\* Where a plan can be once its metadata have said "completed": its workflow
\* will write no more.
Completed(p) ==
    /\ place[p] \in {"finished", "failing", "failing_trip", "raised", "abandoned", "dead"}
    /\ memory[p] \in {"completed", "absent"}

MetaInv ==
    /\ MetaHasTrip /\ StrandedTrip /\ CompletedMeansReady
    /\ \A p \in Plans : meta[p] = "completed" => Completed(p)

\* What a client has read stays true of the plan it asked for; in particular
\* a memory that was missing from a completed plan does not come back.
PollInv ==
    /\ poll.step # "meta" => poll.plan \in Plans
    /\ poll.step = "memory" => poll.memory = "absent"
    /\ poll.step # "meta" /\ poll.meta = "completed" => Completed(poll.plan)
    /\ poll.step = "answered" /\ poll.meta = "completed" /\ poll.memory = "absent" =>
          memory[poll.plan] = "absent"
    /\ StatusIsConsistent

IInv == TypeOK /\ PlaceInv /\ MetaInv /\ PollInv
=============================================================================

# A TLA+ development of the travel orchestrator

This directory specifies the concurrent core of the application under `app/`:
the workflow engine that runs a graph of agents, the shared memory the agents
meet in, the contents of what they compute, the tool runtime they call, the
services that record plans and bookings, and the registry of WebSockets that
follow a workflow.  The modules are checked with TLC on small instances, and the
safety of the engine, the shared memory, the two services and the registry is
proved with TLAPS for every value of their constants.

Run `tlc -config <file>.cfg <module>.tla` for a check (the table below pairs
them) and `tlapm <module>Proofs.tla` for the proofs.

## The system

| Component | State it keeps | Operations | Hard part |
|---|---|---|---|
| Workflow engine (`orchestration/`) | the sets `completed`, `failed`, `running`; one asyncio task per node of the wave | `execute`, `_run_node`, `_emit` | interleaved tasks, retries, partial failure, hooks that raise |
| Travel graph and agents (`workflows/`, `agents/`) | none of their own; each agent reads and writes keys of the shared state | `build_travel_planning_graph`, `_run` of twelve agents | data flow that no edge of the graph states |
| Shared memory (`memory/`) | two Redis keys per workflow and a lock key | `initialize`, `get`, `update` | lock expiry, crash of a holder, lost record, version checks |
| Tool runtime (`tools/base.py`) | Redis: a rate counter per user, a cached result per payload | `execute` | INCR and EXPIRE in two steps, retries inside a cancelling timeout, no single flight |
| Tool adapters, registry (`tools/`) | none | `_execute`, `get` | - |
| Travel planning service (`services/travel_service.py`) | a `Trip` row, a metadata hash, the workflow's memory | `start_plan`, `run_plan`, `status`, `validate`, `history`; the route `replan` | three stores written one after the other, each of which may fail |
| Booking service | a `Booking` row | `create_booking` | provider, cache and database without a common transaction |
| WebSocket manager (`websocket/`) | a set of sockets per workflow | `connect`, `disconnect`, `publish` | the set changes while a publish awaits inside its loop |
| HTTP layer, `main.py` | none | routes, dependencies, exception handlers | background tasks die with their process |
| Database layer (`db/`, `repositories/`, `alembic/`) | the tables | `get`, `add`, `set_status`, `create_pending` | commits that fail after taking effect |
| Core, monitoring, schemas, utilities | settings | - | - |
| Worker (`worker.py`) | none | a loop that sleeps | - |

How they interact: a route calls `start_plan`, which commits a row and writes
the metadata, and schedules `run_plan` as a background task of the same process.
`run_plan` builds an engine whose only event hook is `publish`, and awaits
`execute`.  The engine reads the shared memory before and writes it after every
agent; agents call tools; tools share Redis counters and cached results across
workflows and with the booking service.  `status` polls the metadata and the
memory from another request.  Everything is asyncio: control changes hands only
at an `await`, so every await that reaches Redis, the database, a socket or an
agent ends a step of the models, and what stands between two awaits is one step.

What has to be right, component by component, is what the properties in the
tables below say; the hazards they answer to are in `PROJECT.json` with the line
each bites at.

## The modules

| Module | Models | State and actions |
|---|---|---|
| `DagExecution` | the promise of `execute`, abstractly | nodes are launched once and in order, succeed or break; the caller is answered over no running node |
| `WorkflowEngine` | `engine.py`, `graph.py`, `events.py` | `control` is the program counter of `execute`, `phase[n]` that of `_run_node`; one action per await or loop turn, and a `...Fails` action for the exception it may raise |
| `TravelWorkflow` | `workflows/travel.py` on that engine | the constants of the engine, the state key of each node and the name of its agent |
| `PlanData` | `_deep_merge` and what `travel_agents.py` and `travel_tools.py` compute | operators on nested dictionaries; no state |
| `TravelState` | the travel workflow with the contents of its state | the engine's steps, plus `state` (the state key in Redis) and `answer[n]` (what the agent of `n` has come to) |
| `WorkflowOnRedis` | the engine with the memory taken apart | the engine's steps, where each `memory.update` is a call of `SharedMemory`, one per attempt; `deaf` says that a client has stopped reading |
| `AtomicMemory` | the promise of the shared memory, abstractly | an update happens at one instant or not at all |
| `SharedMemory` | `shared_memory.py` with the lock of redis-py | `pc[u]` per call of `update`; MGET, MULTI, SET NX and the release script are steps |
| `ToolRuntime` | `tools/base.py` | `place[c]` per call of `execute`; each Redis command and each provider request is a step |
| `Booking` | `booking_service.py` on that runtime | extends the runtime's calls with the insertion of the row and the answer |
| `TravelPlanning` | `travel_service.py` and its routes | `place[p]` runs from `start_plan` to the end of `run_plan`, `meta[p]` is the status in the hash, `memory[p]` how far the workflow has come in its memory; a polling client (`poll`) reads along |
| `Replanning` | the routes `plan` and `replan` on that service | `request[q]`: what a plan was made from, or why it was refused; the answer of `status` in `poll` is what a replan builds on |
| `WebSocketManager` | `manager.py` and `workflow_ws` | `place[p]` per publish, the iterator it holds, the registry and the clients |
| `MC...` | instances for TLC | |
| `...Proofs` | theorems of the module they extend | |

Conventions:

- *Failures.*  A constant `Faults` names the kinds of failure the environment
  may produce.  A command that raises may have taken effect all the same: the
  `...Fails` actions choose.
- *Names that end in `Slip`* are no part of any model.  Each is what the
  definition that follows it would become under a plausible mistake in the code
  (a dropped guard, a comparison off by one, a missing commit).  `PROJECT.json`
  pairs each property with a slip under which TLC finds it violated, so that no
  property is one the code could not break.
- *Data.*  In the engine an agent's output is the node's name in the set of
  merged outputs; its contents are in `PlanData` and `TravelState` alone.  A
  patch is the name of the update that brings it, a tool's result is the name of
  the call whose request produced it, a trip is a status and whether it holds a
  plan.  Wording and logging are left out.
- *Dictionaries* (`PlanData`).  A dictionary is a function on strings, and every
  other JSON value, lists included, stands in a `Leaf`: `DeepMerge` descends into
  the one and replaces the other, as `_deep_merge` does.  Its recursion is written
  out (`Merge2` to `Merge6`), as deep as dictionaries nest in a state.  A date is a
  number of days, a missing amount is 0.

Details a reader of the code may look for:

- *The engine's memory* is a record with the outputs merged so far, updated in
  one step.  `SharedMemory` justifies the one step: it refines `AtomicMemory` as
  long as no call outlives its lock.  Losing the lock in mid-update is left to
  `SharedMemory`.
- *The lock under the engine.*  `WorkflowOnRedis` shows the same one step up: with
  the whole protocol under every update, the engine still implements
  `WorkflowEngine`.  The refinement mapping lets an update happen when the record
  is written (`Applied`) and fail when the body of the "async with" has raised
  (`Spoilt`).  A release that raises after the write looks to the engine like a
  hook that raises on the next event, which is why the mapping adds `"hook"` to
  the faults.  A call that raises while it polls for the lock may own it without
  knowing; the next attempt then waits for it to expire.
- *Hooks that wait.*  `publish` awaits `send_text` without a timeout.  In
  `WorkflowOnRedis` a client may stop reading (`GoDeaf`), and from then on no hook
  ends.
- *The contents* (`TravelState`).  Agents are pure and their tools answer
  constants, so an answer is computed in the step that reads the state.  Of the
  faults it keeps one: a hook that raises on `node_completed`, which makes an
  agent compute and merge its answer again from a later state.
- *What a replan builds on* (`Replanning`).  `replan` calls `status`, so the two
  reads of a poll are its reads, and its answer is used some time after they
  were made; a client may replan the same answer several times.  `Basis` is what
  the route makes of it: requirements of the final plan, the bare prompt when
  there is no memory, or an AttributeError, answered 500, when the memory holds
  no final plan yet.  The request that is put together may itself be refused
  (a prompt of three characters passes one schema and not the other).
- *Retries.*  The `try` of `_run_node` spans read, agent, update and event, and
  `AttemptFails` is its except clause; the unknown agent and the hook on
  `node_started` are outside of it (`StartFails`).
- *The sleeping branch* of `execute` (engine.py 61-63) has no action: the theorem
  `LoopHeadCorrect` shows that `running` is empty whenever the branch is looked at.
- *The lock's time to live.*  `Expire` may always happen to the lock of a call
  that is over.  With `SlowHolders` it may also happen under a call at work; that
  constant separates the two questions of whether the protocol is right and of
  what its missing renewal costs.
- *Iterating over a set.*  CPython compares the set's size with the one at the
  loop's start on every turn, the last included, and raises RuntimeError.  A set
  that changed and has its old size again goes unnoticed; its iterator may then
  skip elements (`MayBeExhausted`).  That it may yield one twice after a rehash
  is left out; it would only repeat a message.
- *The emptied key.*  `disconnect` pops the key of an empty set, and `connect`
  makes a new set: an iteration over the old one no longer sees who comes
  (`dropped`).
- *The keys of a plan* may go at any moment, in `TravelPlanning` the metadata and
  the memory independently (`ForgetMeta`, `ForgetMemory`), in `WorkflowEngine` the
  record.  The metadata get their time to live once (travel_service.py:53), no
  later `hset` renews it, and no run has a deadline, so that it may run out under
  one; Redis may also be flushed.  An `hset` then makes the hash again
  (`WithStatus`), while a memory that is gone makes the next node raise
  (`ExecuteRaises`).  The time to live itself is not a variable: that a hash made
  again lives for ever is in the hazards, and no property speaks of it.
- *History variables.*  `opener` (which call's INCR made a user's counter) and
  `unset` (which calls ended in their INCR or EXPIRE) in `ToolRuntime` are written
  beside the program's state and read by no guard.  They let `OrphanedCounters`
  name the one call at fault.

## What TLC checks

| Run | Instance | Properties | Shows |
|---|---|---|---|
| `diamond` | `MCWorkflowEngine`, `WorkflowEngine_diamond.cfg`: four nodes, two in parallel, one edge that skips a wave, an order of the dict against the dependencies, two attempts, all five faults | `TypeOK`, `AgentsSeeDependencies`, `CompletedIsBacked`, `LoopHeadIsQuiet`, `ObserverOrder`, `ResultIsWhole`, `BlameIsFirst`, `NothingAfterTheEnd`, `ImplementsDag`, `Termination` | the engine is right in every interleaving and under every failure |
| `stuck` | `WorkflowEngine_stuck.cfg`: a cycle, an unknown name, two nodes that can run | `DeadlockIsReal`, `Termination` | what can run runs, and the rest is reported |
| `travel` | `MCTravelState`, `TravelState.cfg`: the twelve nodes, four requests at the boundaries of dates and budgets, two nodes whose answers may be merged twice | `TravelBarrier`, `StateIsWhole`, `PlanIsCurrent`, `EveryHighlightOnce`, `ValidMeansAffordable`, `AnswersStay` | whatever the order of the merges, the plan is whole, current, covers each day and judges the budget rightly |
| `locked` | `MCSharedMemory`, `SharedMemory_locked.cfg`: three updates, two with a version check, all faults | `TypeOK`, `NoLostUpdate`, `VersionCountsUpdates`, `OneWinnerPerVersion`, `ImplementsAtomic`, `UpdatesEnd` | with prompt holders `update` is atomic |
| `onredis` | `MCWorkflowOnRedis`, `WorkflowOnRedis.cfg`: two nodes side by side and one after them, two attempts, agents and Redis commands that fail, a client that may stop reading | `ImplementsEngine`, `WorkflowEnds`, `LockIsFreed` | the one-step memory of the engine is sound, and waiting for locks never hangs a workflow |
| `booking` | `MCBooking`, `Booking.cfg`: three bookings, two alike, a limit of two, two attempts, all faults | `LimitHolds`, `OrphanedCounters`, `AcceptedIsBacked`, `CallsEnd` | limit, cache, retries and rows together; a counter without expiry leads back to the one call that made it |
| `planning` | `Replanning.cfg`: a plan, a replan of it, one polling client, all faults | `CompletedMeansReady`, `StrandedTrip`, `StatusIsConsistent`, `RunSettles`, `CompletedReplans` | the three stores agree as far as clients can tell, every failure within the `try` of `run_plan` is recorded, and a replan of what looks completed is built on it unless its memory is gone |
| `sockets` | `MCWebSocketManager`, `WebSocketManager.cfg`: three clients, two publishes, up to permutation | `TypeOK`, `NoLeak`, `ListenersAreKept`, `QuietPublishReaches` | the registry survives its own iteration |

Four runs end in a counterexample, each to a sentence of the repository:

| Run | Sentence | What the code does |
|---|---|---|
| `lost` (`SharedMemory_lost.cfg`) | "State updates use Redis locks and version checks to avoid lost updates" (ARCHITECTURE_README.md:117) | a holder slower than ten seconds writes without the lock; the version is checked before the write, not with it |
| `cached` (`Booking_cached.cfg`) | "Create a pending booking record for a provider request" (trips.py:41) | the tool's cache answers the second booking of a selection, so two rows stand for one request |
| `replan` (`Replanning_bare.cfg`) | "Start a new workflow using requirements from a previous plan" (travel.py:43) | a replan of a plan that has not initialized its memory yet, or whose memory has expired, is accepted with the prompt alone |
| `joining` (`WebSocketManager_joining.cfg`) | "Broadcast a JSON-serializable event payload to workflow subscribers" (manager.py:30) | a client that connects during the broadcast ends it with a RuntimeError, which the engine takes for a failing hook |

What no run claims, although a reader may expect it:

- That every trip leaves planning.  `start_plan` may raise after its commit
  (`rejected`), `run_plan` sets the metadata to "running" outside of its `try`
  (travel_service.py:60), its except clauses issue commands that may fail in turn
  (`abandoned`), and nothing resumes the plans of a process that died (`dead`).
  `StrandedTrip` says that there is no other cause, and `RunSettles` that whoever
  meets none of them settles.
- That what is shown as completed can be used for a day.  The memory may go
  before the client asks again: `validate` then answers 409, and `replan` plans
  from the bare prompt.  `CompletedReplans` allows just that, and a read that
  raised.
- That the lock protocol under the engine stands the loss of the record or the
  crash of a process in its midst: the faults of `WorkflowOnRedis` are agents and
  Redis commands that fail.  `ImplementsEngine` and `WorkflowEnds` cover these,
  `diamond` the loss over a one-step memory, and `locked` loss and crash without
  the engine.
- That a provider is asked once per booking.  An insertion or a cache write that
  fails leaves a request nobody knows of, and calls with the same payload that
  overlap all ask: the steps are in the model, the code promises nothing of them.
- That a holder who has outlived its lock is told.  `update` notices at the
  release, if somebody else has the lock by then or the key is gone, but its
  write is in the record all the same (run `lost`).
- That a replan belongs to whoever planned first: the route passes no `user_id`
  on.

Bounds, and why they are enough.  Four nodes are the smallest graph with a
parallel wave, a wave after it and an edge across waves; two attempts show the
first, the repeated and the last one.  The proofs cover all other graphs.  In
`travel` the failures of agents are left out to keep the run short: what they
can do is in `diamond`, and `BarrierCorrect` holds with them.  The nodes whose
answers may be merged twice are the two whose answer depends on another's list.
Its requests are one without dates, one of more days than there are highlights,
one of fewer, and one that ends before it starts; with a budget just too small,
one that is met exactly, and none.  `onredis` takes two nodes that meet at the
lock and a third that sees what they left; with a second attempt a node may meet
the lock of its own first one.  Three updates give one that holds the lock, one
that waits and one that observed a version before both.  Three bookings are one
more than the limit, and two of them share a payload.  Of the two plans one is
the replan of the other; beyond what the replan takes over they share no state
but the client.  Three clients are the least for a set to change and keep its
size while a third waits; two publishes the least for one to clean up under the
other.  No other bound is imposed: counters are bounded by the number of calls.

Fairness.  Weak fairness of each coroutine's steps (`EngineStep`, `NodeStep`,
`Proceed`, `Continue`, `ServiceStep`, `RunPlan`, `LoopProceeds`,
`TaskProceeds`): the asyncio loop resumes every coroutine whose await is over,
an agent or a tool request is over at the latest when its `wait_for` runs out,
and Redis and hooks are assumed to answer or to raise.  The last is an
assumption the code does not enforce: the Redis client has no socket timeout,
`send_text` none either, and `workflow_timeout_seconds` is read by nobody.  For
hooks `WorkflowOnRedis` drops it: their steps are disabled once a client is
deaf, and `WorkflowEnds` says "or deaf", while `LockIsFreed` holds regardless.
`Expire`, `LockExpires` and `WindowEnds` are fair because Redis drops a key
whose time is up.  A step that is due is taken, whether it succeeds or fails;
nothing else is fair: that a call starts, that a process dies, or that the poll
of a taken lock fails (which is why `Proceed` is `Step` without it).
`ToolFairness` does not ask that a call begins.

## What is proved

`WorkflowEngineProofs`, from `GraphAssumption` and `PositionAssumption` alone
(any finite graph, cyclic or not, any retries, any faults):

- `TypeCorrect`, and on it the inductive invariant `IInv` (`Invariant`), in
  four parts.  `LoopInv` ties the sets of `execute` to the tasks: tasks are at
  work only during a gather, and outside of it and of a failure `completed` is
  exactly the set of finished tasks.  Without it nothing relates what
  the loop believes to what the tasks do.  `OrderInv` says that a task exists
  only over completed dependencies; `TraceInv` what record and observers hold
  of each node; `EndInv` and `ErrorInv` what may be said at the end.
- From it the safety properties of the runs `diamond` and `stuck`:
  `LoopHeadCorrect`, `DependenciesSeen`, `CompletedCorrect`, `ObserverCorrect`,
  `ResultCorrect`, `DeadlockCorrect`, `BlameCorrect`, and the action properties
  `EndIsFinal` and `OneTask` (of the two the second, that a node never gets a
  second task, is stated by no run).
- `NoFalseDeadlock`: a graph in which every set of nodes has one to start with
  is never declared deadlocked.
- `BarrierCorrect`: in a graph with a leveling, a node starts only when every
  node of every lower level is complete.  For the travel graph, whose leveling
  `TravelBarrier` states, this is why `final_plan` finds `food`.
- `DagImplemented`: the engine refines `DagExecution`.
- `WorkIsBounded` and `NeverStuck`, what can be proved of `Termination`: each step
  leaves the tasks less to do (`StepsLeft`) or brings execute closer to its end
  (`LoopLeft`), and before its end there is a step to take (`CanStep`, whose
  disjuncts are guards of actions; that one of several failed tasks comes first is
  `FirstOfMany`).  What is left to TLC is that fairness then takes the steps.

`TravelStateProofs`, from `TravelAssumption` (the graph is the one that
`build_travel_planning_graph` returns) and `RequestAssumption` (the requests are
some of those the schema lets through, with any dates, travelers and budgets),
for any retries and any nodes that may have to repeat themselves:

- `TravelBarrierCorrect`: the waves of the travel graph are its levels, by
  `NextLevel` of `WorkflowEngineProofs` and the leveling, which is proved of the
  twelve nodes.
- `ContentsCorrect`, the inductive invariant `DataInv`.  Its heart is
  `AnswersInv`, that the state is a fixed point: every answer in it, and every one
  on its way there, is what its agent would answer if it read the state now.
  An update keeps that for two reasons.  All that an agent reads is in the state
  before the agent starts (`ReadsAreIn`), for which the edges alone would not do:
  it takes `TravelBarrier`.  And what is in never changes (`SectionStays`): other
  nodes write other keys, and the answer that a retry merges a second time is, by
  the same invariant, the one that is there, so that merging it again changes
  nothing (`MergedTwice`; an answer is nested at most three deep, `AnswerDeep`).
  `KeysInv` says which keys the state has, `OutputsInv` and `WorkflowInv` what is
  under the two that all nodes share.
- `AnswersStayCorrect`, that no step changes an answer, from the same two reasons.
- `StateIsWholeCorrect` and `PlanIsCurrentCorrect`: at the end all nodes are in,
  and the parts of `DataInv` then say it all.
- `ValidMeansAffordableCorrect` and `EveryHighlightOnceCorrect`, for trips of any
  length: the plan's sections are the agents' functions of the request
  (`PlannedDays`, `RequestOf`), and what is left is arithmetic about them
  (`TotalCost`, `ItineraryDay`, `PlacedOnce`).

`SharedMemoryProofs`, from `MemoryAssumption`, and from `~ SlowHolders`
everywhere but in `TypeCorrect`:

- `LockInv` (whoever reads, writes or releases owns the lock) gives `Exclusion`,
  that no call comes between another's read and its write.
- `RecordInv` says that the record, and any snapshot about to be merged into,
  is sound: it counts its patches, holds every update that ended well, and
  holds at most one update for each expected version; and that a snapshot is
  what the record still is.  It is inductive only with `LockInv`, and gives
  `NothingLost`, `VersionCorrect` and `WinnerCorrect`.
- `AtomicImplemented`: the protocol refines `AtomicMemory`.  What readers see is
  the record, or the snapshot of a call that is about to write when the record
  has gone under it (`Apparent`): its write brings the record back.  `LockInv`
  makes that call unique, `RecordInv` makes its snapshot the record as it was,
  and `AbsentInv` says that a record that is gone is as good as new.  The write
  is the instant of the update (`WritingIsAtomic`), the end of a call that of the answer
  (`EndingIsAtomic`).

`WorkflowOnRedisProofs`, from the assumptions of both parts (any finite graph,
any retries, any faults that the engine or Redis may have):

- `RedisInvariant`: `RedisInv` is inductive.  The invariants of the lock and of the
  record come from `SharedMemoryProofs`, whose step lemmas are instantiated for the
  calls of the attempts.  The rest ties those calls to the engine: only the call of
  a node's current attempt is under way, and those of later attempts have not
  begun (`AttemptsInv`), tasks are at work only within a wave that execute awaits
  (`TasksInv`), the closing call only while execute awaits that (`ClosingInv`), the
  record the engine reads is what the calls have written (`ViewInv`), and a call
  that is about to release knows what its body came to (`VerdictInv`).
- `EngineImplemented`: every step of the composition is a step of `WorkflowEngine`
  under the mapping, or none.  The write is the engine's update, a call that
  fails before it has written is `UpdateFails`, taking the lock and reading are not
  seen, and of the release only an exception is, as a failing hook.
- `SafeOnRedis`: with it, the engine's safety invariants hold of the composition.
- `NothingUnderWay`: when execute has found a failure or has ended, no call of any
  attempt is between the lock and its release, and the record stays as it is.

`BookingProofs`, from `ToolAssumption` (any finite set of calls, any users and
payloads, any limit, any faults):

- `LimitCorrect`: `LimitHolds` is inductive together with `WindowInv`, that no
  more calls have passed than were counted.  An INCR that raised may have
  counted, so that the two numbers differ; all that keeps the limit is that
  the counter and the window it stands for end in one step.
- `OrphansExplained`: `OrphanedCounters` is inductive with `OpenerInv`, that a
  counter's opener is a call of the same user, so that the EXPIRE it sends is
  that of this counter.  The proof follows the opener: it leaves the place
  before its EXPIRE by setting the expiry, or into `unset`, and nobody else's
  step concerns it.
- `BackedCorrect`, from `ResultInv`: whatever is cached answers the payload it
  is looked up by, and so does what a call carries to its row.

`TravelPlanningProofs`, from nothing (any plans, any faults):

- `CompletionCorrect`, `MetadataCorrect` and `StrandedExplained`, from `MetaInv`,
  which is inductive with `PlaceInv` (what the place of a plan says of its row,
  its metadata and its memory).  The strengthening that matters is `Completed`:
  metadata can say "completed" although the run then fails, because a Redis
  command that raises may have been executed, but only after the row was saved
  and the workflow had written its last.
- `PollsCorrect`: `PollInv` says that what a client has read of the metadata
  stays true of the memory it reads next, and that the memory of a completed
  plan, once missing, does not come back.

`ReplanningProofs`, from `ReplanAssumption` (any plans, any of them replans, any
faults):

- Every step of `Replanning` is one of `TravelPlanning`, or a refusal, which
  moves an idle plan out of the way.  With that `IInv` stays inductive, and
  `CompletionWithReplans`, `StrandedWithReplans` and `PollsWithReplans` follow as
  they do there.
- `CompletedIsReplanned`: a replan acts on an answer some time after it was
  given.  By `PollInv` a "completed" in it still goes with a finished memory, or
  with one that could not be read or is gone for good, whatever happened between
  the two reads and since: hence never a refusal for want of a plan, and a bare
  replan only for one of these two reasons.

`WebSocketManagerProofs`, from the module's assumption alone (any clients, any
publishes):

- `NothingLeaks` and `ListenersStay`, inductive with `GoneOnce`, that only a
  client whose socket has been registered can have left: a socket that was
  found stale never comes back.  `PublishCleans` says what a publish does to the
  registry: it loses sockets whose clients have left, and all it found stale once
  the publish returns.
- `QuietReaches`, from `QuietLoop`: while nobody comes or goes, a publish
  iterates over the registry itself, and whatever its iterator has yielded was
  sent to, is stale, or is being sent to.

In `BookingProofs` and `TravelPlanningProofs`, `InvariantHolds` is the inductive
invariant `IInv` as a whole; TLC found it to hold on the instances of `booking`
and `planning` before it was proved.

Only model-checked: the liveness properties (`Termination`, `UpdatesEnd`,
`CallsEnd`, `RunSettles`, `WorkflowEnds`, `LockIsFreed`), which are beyond the
prover.  Every other property that a passing run checks is proved.

## What is not modelled

The wording of answers, prompts and notes, with it the guess of a destination
from the prompt; dates as calendar days; `history`, which is one SELECT, and `validate`, which is
one read of the memory; the version that `get` takes for a missing one
(shared_memory.py:62), as the two keys are written together and go together in
the model; the cancellation of `execute` or of its tasks (a CancelledError would
pass through engine.py:76 and the except clauses of `run_plan`), which no code
asks for, short of the end of the process; the
tool adapters beyond what other agents compute with (`WeatherTool` and
`BookingTool` answer constants) and their registry; request parsing beyond the
lengths and ranges that refuse a request, dependency injection, exception
handlers, table definitions, migrations, settings, security, logging and
monitoring, which keep no state that changes concurrently; the worker, which is
a placeholder.

## Plan

The modules were written in this order: engine and graph, shared memory, tool
runtime with bookings, planning, sockets; then the contents of the travel
state, the engine over the lock protocol, and replanning.  The proofs followed in
the same order, those of the composition and of the contents last.  What is left:

1. `WorkflowEvents`: the engine's hook composed with `WebSocketManager`, where a
   publish that raises is the engine's fault `"hook"` and a deaf client is one
   that the publish waits for.

------------------------ MODULE TravelPlanningProofs ------------------------
(***************************************************************************)
(* Proofs about TravelPlanning, for any number of plans and every kind of  *)
(* fault: what the row, the metadata and the memory of a plan say of each  *)
(* other, and what a client can read of them.                              *)
(***************************************************************************)
EXTENDS TravelPlanning, TLAPS

(***************************************************************************)
(* Types.  They depend on two facts: only a plan that has no trip creates  *)
(* one, and a client only reads the memory of a plan.                      *)
(***************************************************************************)
Fresh == \A p \in Plans : place[p] = "idle" => trip[p] = NoTrip
Asked == poll.step # "meta" => poll.plan \in Plans

TypeInv == TypeOK /\ Fresh /\ Asked

LEMMA InitType == Init => TypeInv
  BY DEF Init, TypeInv, TypeOK, Fresh, Asked, Places, Trip, NoTrip, MetaStatus, Poll, NoPoll, Progress

\* The three writes of the row.
LEMMA RowType ==
    ASSUME TypeOK, Fresh, NEW p \in Plans
    PROVE  /\ place[p] = "idle" => Planning(p) \in [Plans -> Trip]
           /\ Ready(p) \in [Plans -> Trip]
           /\ Failed(p) \in [Plans -> Trip]
  <1>1. trip \in [Plans -> Trip] /\ trip[p] \in Trip
    BY DEF TypeOK
  <1>2. [NoTrip EXCEPT !.status = "planning"] \in Trip
    BY DEF NoTrip, Trip
  <1>3. [status |-> "ready", plan |-> TRUE] \in Trip
    BY DEF Trip
  <1>4. ASSUME NEW t \in Trip
        PROVE  [t EXCEPT !.status = "failed"] \in Trip
    BY DEF Trip
  <1>5. place[p] = "idle" => Planning(p) \in [Plans -> Trip]
    BY <1>1, <1>2 DEF Planning, Fresh
  <1>6. Ready(p) \in [Plans -> Trip]
    BY <1>1, <1>3 DEF Ready
  <1>7. Failed(p) \in [Plans -> Trip]
    BY <1>1, <1>4 DEF Failed
  <1> QED
    BY <1>5, <1>6, <1>7

\* The writes of the metadata.
LEMMA MetaType ==
    ASSUME TypeOK, NEW p \in Plans
    PROVE  /\ WithStatus(p, "accepted") \in [Plans -> MetaStatus]
           /\ WithStatus(p, "running") \in [Plans -> MetaStatus]
           /\ WithStatus(p, "completed") \in [Plans -> MetaStatus]
           /\ WithStatus(p, "failed") \in [Plans -> MetaStatus]
  BY DEF TypeOK, WithStatus, MetaStatus

LEMMA StartType ==
    ASSUME TypeOK, Fresh, NEW p \in Plans, StartPlan(p)
    PROVE  TypeOK'
  <1> USE DEF StartPlan, CreateTrip, CreateTripFails, Accept, AcceptFails, SetExpiry, SetExpiryFails
  <1>1. place' \in [Plans -> Places]
    BY DEF TypeOK, Places, Move, Disturb
  <1>3. memory' \in [Plans -> Progress] /\ poll' \in Poll
    BY DEF TypeOK, Disturb, Progress
  <1>4. trip' \in [Plans -> Trip]
    <2>1. trip' = trip \/ (place[p] = "idle" /\ trip' = Planning(p))
      BY DEF Move, Disturb
    <2> QED
      BY <2>1, RowType DEF TypeOK
  <1>5. meta' \in [Plans -> MetaStatus]
    <2>1. meta' \in {meta, WithStatus(p, "accepted")}
      OBVIOUS
    <2> HIDE DEF StartPlan
    <2> QED
      BY <2>1, MetaType DEF TypeOK
  <1> QED
    BY <1>1, <1>3, <1>4, <1>5 DEF TypeOK

LEMMA RunType ==
    ASSUME TypeOK, Fresh, NEW p \in Plans, RunPlan(p)
    PROVE  TypeOK'
  <1> USE DEF RunPlan, MarkRunning, MarkRunningFails, Initialize, MergePlan, CloseMemory, ExecuteReturns, ExecuteRaises,
        SavePlan, SavePlanFails, MarkCompleted, MarkCompletedFails, MarkFailed, MarkFailedFails,
        FailTrip, FailTripFails
  <1>1. place' \in [Plans -> Places]
    BY DEF TypeOK, Places, Move, Disturb
  <1>3. memory' \in [Plans -> Progress] /\ poll' \in Poll
    BY DEF TypeOK, Disturb, Progress
  <1>4. trip' \in [Plans -> Trip]
    <2>1. trip' \in {trip, Ready(p), Failed(p)}
      OBVIOUS
    <2> QED
      BY <2>1, RowType DEF TypeOK
  <1>5. meta' \in [Plans -> MetaStatus]
    <2>1. meta' \in {meta, WithStatus(p, "running"), WithStatus(p, "completed"), WithStatus(p, "failed")}
      OBVIOUS
    <2> QED
      BY <2>1, MetaType DEF TypeOK
  <1> QED
    BY <1>1, <1>3, <1>4, <1>5 DEF TypeOK

LEMMA PollType ==
    ASSUME TypeOK, PollAgain \/ (\E p \in Plans : Status(p))
    PROVE  TypeOK'
  <1>1. poll' \in Poll
    <2>1. CASE PollAgain
      BY <2>1 DEF PollAgain, Poll, NoPoll, MetaStatus, Progress
    <2>2. ASSUME NEW p \in Plans, Status(p)
          PROVE  poll' \in Poll
      <3>1. meta[p] \in MetaStatus /\ memory[p] \in Progress /\ poll \in Poll
        BY DEF TypeOK
      <3>2. CASE PollMeta(p)
        BY <3>1, <3>2 DEF PollMeta, Poll, Progress
      <3>3. CASE PollMemory(p)
        BY <3>1, <3>3 DEF PollMemory, Poll
      <3> QED
        BY <2>2, <3>2, <3>3 DEF Status
    <2> QED
      BY <2>1, <2>2
  <1> QED
    BY <1>1 DEF TypeOK, PollAgain, Status

\* A plan that has begun does not become idle again.
LEMMA NextFresh ==
    ASSUME TypeOK, Fresh, [Next]_vars
    PROVE  Fresh'
  <1> USE DEF TypeOK, Fresh, Move, Disturb
  <1>1. CASE \E p \in Plans : StartPlan(p)
    BY <1>1 DEF StartPlan, CreateTrip, CreateTripFails, Accept, AcceptFails, SetExpiry,
                SetExpiryFails, Planning
  <1>2. CASE \E p \in Plans : RunPlan(p)
    BY <1>2 DEF RunPlan, MarkRunning, MarkRunningFails, Initialize, MergePlan, CloseMemory, ExecuteReturns,
                ExecuteRaises, SavePlan, SavePlanFails, MarkCompleted, MarkCompletedFails,
                MarkFailed, MarkFailedFails, FailTrip, FailTripFails, Ready, Failed
  <1>3. CASE \E p \in Plans : Die(p)
    BY <1>3 DEF Die
  <1>4. CASE UNCHANGED <<place, trip>>
    BY <1>4
  <1> QED
    BY <1>1, <1>2, <1>3, <1>4
    DEF Next, Status, PollAgain, ForgetMeta, ForgetMemory, vars

\* Only a poll changes what has been polled.
LEMMA OnlyPollsPoll ==
    ASSUME NEW p \in Plans,
           StartPlan(p) \/ RunPlan(p) \/ Die(p) \/ ForgetMeta(p) \/ ForgetMemory(p)
    PROVE  UNCHANGED poll
  <1>1. CASE StartPlan(p)
    BY <1>1 DEF StartPlan, CreateTrip, CreateTripFails, Accept, AcceptFails, SetExpiry,
                SetExpiryFails, Disturb
  <1>2. CASE RunPlan(p)
    BY <1>2 DEF RunPlan, MarkRunning, MarkRunningFails, Initialize, MergePlan, CloseMemory, ExecuteReturns,
                ExecuteRaises, SavePlan, SavePlanFails, MarkCompleted, MarkCompletedFails,
                MarkFailed, MarkFailedFails, FailTrip, FailTripFails, Disturb
  <1> QED
    BY <1>1, <1>2 DEF Die, ForgetMeta, ForgetMemory

LEMMA NextAsked ==
    ASSUME TypeOK, Asked, [Next]_vars
    PROVE  Asked'
  <1>1. CASE UNCHANGED poll
    BY <1>1 DEF Asked
  <1>2. CASE \E p \in Plans : Status(p)
    <2>1. PICK p \in Plans : PollMeta(p) \/ PollMemory(p)
      BY <1>2 DEF Status
    <2>2. CASE PollMeta(p)
      BY <2>2 DEF Asked, PollMeta
    <2>3. CASE PollMemory(p)
      BY <2>3 DEF Asked, PollMemory, TypeOK, Poll
    <2> QED
      BY <2>1, <2>2, <2>3
  <1>3. CASE PollAgain
    BY <1>3 DEF Asked, PollAgain, NoPoll
  <1> QED
    BY <1>1, <1>2, <1>3, OnlyPollsPoll DEF Next, vars

LEMMA NextType ==
    ASSUME TypeInv, [Next]_vars
    PROVE  TypeInv'
  <1> USE DEF TypeInv
  <1>1. CASE \E p \in Plans : Die(p)
    <2>1. TypeOK'
      BY <1>1 DEF Die, TypeOK, Places
    <2> QED
      BY <2>1, NextFresh, NextAsked
  <1>2. CASE \E p \in Plans : ForgetMeta(p) \/ ForgetMemory(p)
    <2>1. "none" \in MetaStatus /\ "absent" \in Progress
      BY DEF MetaStatus, Progress
    <2>2. TypeOK'
      BY <1>2, <2>1 DEF ForgetMeta, ForgetMemory, TypeOK
    <2> QED
      BY <2>2, NextFresh, NextAsked
  <1>3. CASE UNCHANGED vars
    <2>1. TypeOK'
      BY <1>3 DEF vars, TypeOK
    <2> QED
      BY <2>1, NextFresh, NextAsked
  <1> QED
    BY <1>1, <1>2, <1>3, StartType, RunType, PollType, NextFresh, NextAsked DEF Next

LEMMA TypesHold == Spec => []TypeInv
  BY InitType, NextType, PTL DEF Spec

\* The three stores, the calls and the client's reading have their types.
THEOREM TypeCorrect == Spec => []TypeOK
  BY TypesHold, PTL DEF TypeInv
-----------------------------------------------------------------------------
(***************************************************************************)
(* The row, the metadata and the memory of one plan.                       *)
(***************************************************************************)
MetaAgree(p) ==
    /\ meta[p] # "none" => trip[p].status # "absent"
    /\ trip[p].status = "planning" /\ place[p] \in Over =>
          place[p] \in {"rejected", "abandoned", "dead"}
    /\ meta[p] = "completed" => trip[p] = [status |-> "ready", plan |-> TRUE] /\ Completed(p)

LEMMA PerPlan == MetaInv <=> \A p \in Plans : MetaAgree(p)
  BY DEF MetaInv, MetaHasTrip, StrandedTrip, CompletedMeansReady, MetaAgree

LEMMA InitAgrees == Init => PlaceInv /\ MetaInv
  <1> SUFFICES ASSUME Init, NEW p \in Plans
               PROVE  PlaceAgrees(p) /\ MetaAgree(p)
    BY PerPlan DEF PlaceInv
  <1> QED
    BY DEF Init, PlaceAgrees, MetaAgree, NoTrip, Over

\* A step of one plan leaves the stores of the others alone.
LEMMA Others ==
    ASSUME TypeOK, NEW p \in Plans, NEW q \in Plans \ {p},
           StartPlan(p) \/ RunPlan(p) \/ Die(p) \/ ForgetMeta(p) \/ ForgetMemory(p)
    PROVE  /\ place'[q] = place[q] /\ trip'[q] = trip[q]
           /\ meta'[q] = meta[q] /\ memory'[q] = memory[q]
  <1> USE DEF TypeOK, Move, Disturb
  <1>1. CASE StartPlan(p)
    BY <1>1 DEF StartPlan, CreateTrip, CreateTripFails, Accept, AcceptFails, SetExpiry,
                SetExpiryFails, Planning, WithStatus
  <1>2. CASE RunPlan(p)
    BY <1>2 DEF RunPlan, MarkRunning, MarkRunningFails, Initialize, MergePlan, CloseMemory, ExecuteReturns,
                ExecuteRaises, SavePlan, SavePlanFails, MarkCompleted, MarkCompletedFails,
                MarkFailed, MarkFailedFails, FailTrip, FailTripFails, Ready, Failed, WithStatus
  <1> QED
    BY <1>1, <1>2 DEF Die, ForgetMeta, ForgetMemory

LEMMA StartAgrees ==
    ASSUME TypeOK, NEW p \in Plans, PlaceAgrees(p), MetaAgree(p), StartPlan(p)
    PROVE  PlaceAgrees(p)' /\ MetaAgree(p)'
  <1> USE DEF TypeOK, PlaceAgrees, MetaAgree, Completed, Over, Move, Disturb
  <1>1. CASE CreateTrip(p) \/ CreateTripFails(p)
    BY <1>1 DEF CreateTrip, CreateTripFails, Planning, NoTrip
  <1>2. CASE Accept(p) \/ AcceptFails(p)
    BY <1>2 DEF Accept, AcceptFails, WithStatus
  <1>3. CASE SetExpiry(p) \/ SetExpiryFails(p)
    BY <1>3 DEF SetExpiry, SetExpiryFails
  <1> QED
    BY <1>1, <1>2, <1>3 DEF StartPlan

LEMMA RunAgrees ==
    ASSUME TypeOK, NEW p \in Plans, PlaceAgrees(p), MetaAgree(p), RunPlan(p)
    PROVE  PlaceAgrees(p)' /\ MetaAgree(p)'
  <1> USE DEF TypeOK, PlaceAgrees, MetaAgree, Completed, Over, Move, Disturb
  <1>1. CASE MarkRunning(p) \/ MarkRunningFails(p)
    BY <1>1 DEF MarkRunning, MarkRunningFails, WithStatus
  <1>2. CASE Initialize(p) \/ MergePlan(p) \/ CloseMemory(p)
    BY <1>2 DEF Initialize, MergePlan, CloseMemory
  <1>3. CASE ExecuteReturns(p) \/ ExecuteRaises(p)
    BY <1>3 DEF ExecuteReturns, ExecuteRaises
  <1>4. CASE SavePlan(p) \/ SavePlanFails(p)
    <2>1. Ready(p)[p] = [status |-> "ready", plan |-> TRUE]
      BY DEF Ready
    <2>2. trip'[p] = trip[p] \/ trip'[p] = Ready(p)[p]
      BY <1>4 DEF SavePlan, SavePlanFails
    <2>3. Ready(p)[p].status = "ready"
      BY <2>1
    <2> QED
      BY <1>4, <2>1, <2>2, <2>3 DEF SavePlan, SavePlanFails
  <1>5. CASE MarkCompleted(p) \/ MarkCompletedFails(p)
    <2>1. meta'[p] \in {meta[p], "completed"}
      BY <1>5 DEF MarkCompleted, MarkCompletedFails, WithStatus
    <2>2. /\ place[p] = "completing" /\ place'[p] \in {"finished", "failing"}
          /\ trip'[p] = trip[p] /\ memory'[p] = memory[p]
      BY <1>5 DEF MarkCompleted, MarkCompletedFails
    <2> QED
      BY <2>1, <2>2
  <1>6. CASE MarkFailed(p) \/ MarkFailedFails(p)
    BY <1>6 DEF MarkFailed, MarkFailedFails, WithStatus
  <1>7. CASE FailTrip(p) \/ FailTripFails(p)
    <2>1. Failed(p)[p].status = "failed"
      BY DEF Failed, Trip
    <2>2. \/ trip'[p] = Failed(p)[p]
          \/ trip'[p] = trip[p] /\ place'[p] = "abandoned"
      BY <1>7 DEF FailTrip, FailTripFails
    <2>3. meta[p] \in {"failed", "none"} /\ meta'[p] = meta[p]
      BY <1>7 DEF FailTrip, FailTripFails
    <2>4. place[p] = "failing_trip" /\ place'[p] \in {"raised", "abandoned"}
      BY <1>7 DEF FailTrip, FailTripFails
    <2> QED
      BY <2>1, <2>2, <2>3, <2>4
  <1> QED
    BY <1>1, <1>2, <1>3, <1>4, <1>5, <1>6, <1>7 DEF RunPlan

LEMMA RestAgrees ==
    ASSUME TypeOK, NEW p \in Plans, PlaceAgrees(p), MetaAgree(p),
           Die(p) \/ ForgetMeta(p) \/ ForgetMemory(p)
    PROVE  PlaceAgrees(p)' /\ MetaAgree(p)'
  <1> USE DEF TypeOK, PlaceAgrees, MetaAgree, Completed, Over
  <1>1. CASE Die(p)
    BY <1>1 DEF Die
  <1>2. CASE ForgetMeta(p)
    BY <1>2 DEF ForgetMeta
  <1>3. CASE ForgetMemory(p)
    BY <1>3 DEF ForgetMemory
  <1> QED
    BY <1>1, <1>2, <1>3

LEMMA NextAgrees ==
    ASSUME TypeOK, PlaceInv, MetaInv, [Next]_vars
    PROVE  PlaceInv' /\ MetaInv'
  <1>1. SUFFICES ASSUME NEW q \in Plans
                 PROVE  PlaceAgrees(q)' /\ MetaAgree(q)'
    BY DEF PlaceInv, MetaInv, MetaHasTrip, StrandedTrip, CompletedMeansReady, MetaAgree
  <1>2. PlaceAgrees(q) /\ MetaAgree(q)
    BY PerPlan DEF PlaceInv
  <1>3. ASSUME NEW p \in Plans,
               StartPlan(p) \/ RunPlan(p) \/ Die(p) \/ ForgetMeta(p) \/ ForgetMemory(p)
        PROVE  PlaceAgrees(q)' /\ MetaAgree(q)'
    <2>1. CASE p = q
      BY <1>2, <1>3, <2>1, StartAgrees, RunAgrees, RestAgrees
    <2>2. CASE p # q
      <3>1. /\ place'[q] = place[q] /\ trip'[q] = trip[q]
            /\ meta'[q] = meta[q] /\ memory'[q] = memory[q]
        BY <1>3, <2>2, Others
      <3> QED
        BY <1>2, <3>1 DEF PlaceAgrees, MetaAgree, Completed
    <2> QED
      BY <2>1, <2>2
  <1>4. CASE UNCHANGED <<place, trip, meta, memory>>
    BY <1>2, <1>4 DEF PlaceAgrees, MetaAgree, Completed
  <1> QED
    BY <1>3, <1>4 DEF Next, Status, PollAgain, vars

LEMMA StoresAgree == Spec => [](TypeInv /\ PlaceInv /\ MetaInv)
  <1>1. TypeInv /\ PlaceInv /\ MetaInv /\ [Next]_vars => PlaceInv' /\ MetaInv'
    BY NextAgrees DEF TypeInv
  <1> QED
    BY <1>1, InitAgrees, TypesHold, PTL DEF Spec

\* Whatever fails on the way, metadata that say "completed" go with a trip
\* that is ready and holds its plan.
THEOREM CompletionCorrect == Spec => []CompletedMeansReady
  <1>1. MetaInv => CompletedMeansReady
    BY DEF MetaInv
  <1> QED
    BY <1>1, StoresAgree, PTL

\* Metadata never tell of a plan whose trip is not in the database.
THEOREM MetadataCorrect == Spec => []MetaHasTrip
  <1>1. MetaInv => MetaHasTrip
    BY DEF MetaInv
  <1> QED
    BY <1>1, StoresAgree, PTL

\* Only where nothing of its own catches it, or with the death of its process,
\* can a plan leave its trip in planning.
THEOREM StrandedExplained == Spec => []StrandedTrip
  <1>1. MetaInv => StrandedTrip
    BY DEF MetaInv
  <1> QED
    BY <1>1, StoresAgree, PTL
-----------------------------------------------------------------------------
(***************************************************************************)
(* What a client sees.                                                     *)
(***************************************************************************)
\* A plan whose metadata have once said "completed" writes no more memory.
LEMMA CompletedStays ==
    ASSUME TypeOK, NEW q \in Plans, Completed(q), [Next]_vars
    PROVE  /\ Completed(q)'
           /\ memory[q] = "absent" => memory'[q] = "absent"
  <1> DEFINE Stays == Completed(q)' /\ (memory[q] = "absent" => memory'[q] = "absent")
  <1>1. ASSUME NEW p \in Plans,
               StartPlan(p) \/ RunPlan(p) \/ Die(p) \/ ForgetMeta(p) \/ ForgetMemory(p)
        PROVE  Stays
    <2>1. CASE p # q
      <3>1. place'[q] = place[q] /\ memory'[q] = memory[q]
        BY <1>1, <2>1, Others
      <3> QED
        BY <3>1 DEF Completed
    <2>2. CASE p = q
      <3> USE <2>2 DEF TypeOK, Completed, Move, Disturb
      <3>1. CASE StartPlan(q)
        BY <3>1 DEF StartPlan, CreateTrip, CreateTripFails, Accept, AcceptFails, SetExpiry,
                    SetExpiryFails
      <3>2. CASE RunPlan(q)
        BY <3>2 DEF RunPlan, MarkRunning, MarkRunningFails, Initialize, MergePlan, CloseMemory, ExecuteReturns,
                    ExecuteRaises, SavePlan, SavePlanFails, MarkCompleted, MarkCompletedFails,
                    MarkFailed, MarkFailedFails, FailTrip, FailTripFails
      <3>3. CASE Die(q) \/ ForgetMeta(q) \/ ForgetMemory(q)
        BY <3>3 DEF Die, ForgetMeta, ForgetMemory
      <3> QED
        BY <1>1, <3>1, <3>2, <3>3
    <2> QED
      BY <2>1, <2>2
  <1>2. CASE UNCHANGED <<place, memory>>
    BY <1>2 DEF Completed
  <1> QED
    BY <1>1, <1>2 DEF Next, Status, PollAgain, vars

LEMMA NextPoll ==
    ASSUME TypeInv, MetaInv, PollInv, [Next]_vars, TypeInv'
    PROVE  PollInv'
  <1> USE DEF TypeInv, PollInv, StatusIsConsistent
  <1>1. CASE UNCHANGED poll
    <2>1. \A q \in Plans : Completed(q) =>
              Completed(q)' /\ (memory[q] = "absent" => memory'[q] = "absent")
      BY CompletedStays
    <2>2. poll.step # "meta" /\ poll.meta = "completed" => Completed(poll.plan)'
      BY <1>1, <2>1 DEF Completed
    <2> QED
      BY <1>1, <2>1, <2>2
  <1>2. ASSUME NEW p \in Plans, Status(p)
        PROVE  PollInv'
    <2>1. UNCHANGED <<place, memory>> /\ poll \in Poll
      BY <1>2 DEF Status, TypeOK
    <2>2. CASE PollMeta(p)
      <3>1. meta[p] = "completed" => Completed(p)
        BY DEF MetaInv
      <3>2. /\ poll'.step = "memory" /\ poll'.plan = p
            /\ poll'.meta = meta[p] /\ poll'.memory = "absent"
        BY <2>2 DEF PollMeta
      <3> QED
        BY <2>1, <3>1, <3>2 DEF Completed
    <2>3. CASE PollMemory(p)
      <3>1. poll.step = "memory" /\ poll.plan = p
        BY <2>3 DEF PollMemory
      <3>2. /\ poll'.step = "answered" /\ poll'.plan = p /\ poll'.meta = poll.meta
            /\ poll'.memory \in {memory[p], "unreadable"}
        BY <2>1, <2>3, <3>1 DEF PollMemory, Poll
      <3> QED
        BY <2>1, <3>1, <3>2 DEF Completed
    <2> QED
      BY <1>2, <2>2, <2>3 DEF Status
  <1>3. CASE PollAgain
    BY <1>3 DEF PollAgain, NoPoll
  <1> QED
    BY <1>1, <1>2, <1>3, OnlyPollsPoll DEF Next, vars

\* All that the proofs rest on, and what the client has read.
THEOREM InvariantHolds == Spec => []IInv
  <1>1. Init => PollInv
    BY DEF Init, NoPoll, PollInv, StatusIsConsistent
  <1>2. TypeInv /\ TypeInv' /\ MetaInv /\ PollInv /\ [Next]_vars => PollInv'
    BY NextPoll
  <1>3. TypeInv /\ PlaceInv /\ MetaInv /\ PollInv => IInv
    BY DEF TypeInv, IInv
  <1> QED
    BY <1>1, <1>2, <1>3, StoresAgree, PTL DEF Spec

\* However a run and a poll interleave, nobody is shown a completed run over
\* an unfinished memory.
THEOREM PollsCorrect == Spec => []StatusIsConsistent
  <1>1. IInv => StatusIsConsistent
    BY DEF IInv, PollInv
  <1> QED
    BY <1>1, InvariantHolds, PTL
=============================================================================

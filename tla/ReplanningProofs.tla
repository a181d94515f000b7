-------------------------- MODULE ReplanningProofs --------------------------
(***************************************************************************)
(* Proofs about Replanning, for any number of plans and replans and every  *)
(* kind of fault.  Every step of NextR is one of TravelPlanning or refuses *)
(* a replan, so that the inductive invariant of TravelPlanning carries     *)
(* over.                                                                   *)
(***************************************************************************)
EXTENDS Replanning, TravelPlanningProofs

Refuse(q) ==
    /\ Move(q, "idle", "rejected")
    /\ UNCHANGED <<trip, meta, memory, poll>>

StrongInv == TypeInv /\ PlaceInv /\ MetaInv /\ PollInv
RequestType == request \in [Plans -> Request]

LEMMA NextRequest ==
    ASSUME RequestType, [NextR]_allVars
    PROVE  RequestType'
  <1>1. ASSUME NEW q \in Plans, PlanTravel(q) \/ Replan(q)
        PROVE  RequestType'
    BY <1>1 DEF PlanTravel, Replan, Basis, RequestType, Request
  <1> QED
    BY <1>1 DEF NextR, RequestType, allVars

LEMMA Simulation ==
    ASSUME [NextR]_allVars
    PROVE  [Next]_vars \/ \E q \in Plans : Refuse(q)
  <1>1. ASSUME NEW q \in Plans, PlanTravel(q)
        PROVE  Next
    BY <1>1 DEF PlanTravel, BeginPlan, StartPlan, Next
  <1>2. ASSUME NEW q \in Plans, Replan(q)
        PROVE  Next \/ Refuse(q)
    BY <1>2 DEF Replan, Refuse, BeginPlan, StartPlan, Next
  <1>3. ASSUME NEW q \in Plans,
               \/ AcceptPlan(q) \/ RunPlan(q) \/ Die(q)
               \/ Status(q) \/ ForgetMeta(q) \/ ForgetMemory(q)
        PROVE  Next
    BY <1>3 DEF AcceptPlan, StartPlan, Next
  <1>4. CASE PollAgain
    BY <1>4 DEF Next
  <1>5. CASE UNCHANGED allVars
    BY <1>5 DEF allVars, vars
  <1> QED
    BY <1>1, <1>2, <1>3, <1>4, <1>5 DEF NextR

\* A refused replan leaves nothing behind.
LEMMA RefuseKeeps ==
    ASSUME StrongInv, NEW q \in Plans, Refuse(q)
    PROVE  StrongInv'
  <1> USE DEF StrongInv, Refuse, Move, TypeInv
  <1>1. place \in [Plans -> Places] /\ place[q] = "idle"
    BY DEF TypeOK
  <1>2. place' = [place EXCEPT ![q] = "rejected"]
    OBVIOUS
  <1>3. TypeInv'
    BY <1>1, <1>2 DEF TypeOK, Fresh, Asked, Places
  <1>4. PlaceInv'
    BY <1>1, <1>2 DEF PlaceInv, PlaceAgrees, Over
  <1>5. \A p \in Plans : meta[p] = "completed" => p # q
    BY <1>1 DEF MetaInv, Completed
  <1>6. \A p \in Plans : Completed(p) => Completed(p)'
    BY <1>1, <1>2 DEF Completed
  <1>7. MetaInv'
    BY <1>1, <1>2, <1>6 DEF MetaInv, MetaHasTrip, StrandedTrip, CompletedMeansReady, Over
  <1>8. PollInv'
    BY <1>6 DEF PollInv, StatusIsConsistent
  <1> QED
    BY <1>3, <1>4, <1>7, <1>8

LEMMA RequestTyped == SpecR => []RequestType
  <1>1. InitR => RequestType
    BY DEF InitR, RequestType, Request
  <1> QED
    BY <1>1, NextRequest, PTL DEF SpecR

LEMMA StrongHolds == SpecR => []StrongInv
  <1>1. InitR => StrongInv
    <2>1. Init => PollInv
      BY DEF Init, NoPoll, PollInv, StatusIsConsistent
    <2> QED
      BY <2>1, InitType, InitAgrees DEF InitR, StrongInv
  <1>2. StrongInv /\ [NextR]_allVars => StrongInv'
    <2> SUFFICES ASSUME StrongInv, [NextR]_allVars
                 PROVE  StrongInv'
      OBVIOUS
    <2>1. CASE [Next]_vars
      <3>1. TypeInv'
        BY <2>1, NextType DEF StrongInv
      <3>2. PlaceInv' /\ MetaInv'
        BY <2>1, NextAgrees DEF StrongInv, TypeInv
      <3> QED
        BY <2>1, <3>1, <3>2, NextPoll DEF StrongInv
    <2>2. CASE \E q \in Plans : Refuse(q)
      BY <2>2, RefuseKeeps
    <2> QED
      BY <2>1, <2>2, Simulation
  <1> QED
    BY <1>1, <1>2, PTL DEF SpecR

\* Whatever fails, and however many plans begin with a replan, metadata that
\* say "completed" go with a trip that is ready and holds its plan.
THEOREM CompletionWithReplans == SpecR => []CompletedMeansReady
  <1>1. StrongInv => CompletedMeansReady
    BY DEF StrongInv, MetaInv
  <1> QED
    BY <1>1, StrongHolds, PTL

\* Replans, refused ones included, strand a trip in no other way than plans do.
THEOREM StrandedWithReplans == SpecR => []StrandedTrip
  <1>1. StrongInv => StrandedTrip
    BY DEF StrongInv, MetaInv
  <1> QED
    BY <1>1, StrongHolds, PTL

\* No poll shows a completed run over an unfinished memory.
THEOREM PollsWithReplans == SpecR => []StatusIsConsistent
  <1>1. StrongInv => StatusIsConsistent
    BY DEF StrongInv, PollInv
  <1> QED
    BY <1>1, StrongHolds, PTL

\* A replan of a workflow that status has shown as completed is never refused
\* for want of a plan, and has nothing but its prompt only if the memory could
\* not be read or is gone, and stays gone.
THEOREM CompletedIsReplanned == SpecR => CompletedReplans
  <1>1. StrongInv /\ RequestType /\ [NextR]_allVars =>
           [poll.meta = "completed" =>
              \A q \in Replans : request[q] = "none" =>
                 /\ request'[q] # "unfinished"
                 /\ request'[q] = "bare" =>
                       poll.memory = "unreadable" \/ memory[poll.plan] = "absent"]_allVars
    <2> SUFFICES ASSUME StrongInv, RequestType, NextR, poll.meta = "completed",
                        NEW q \in Replans, request[q] = "none"
                 PROVE  /\ request'[q] # "unfinished"
                        /\ request'[q] = "bare" =>
                              poll.memory = "unreadable" \/ memory[poll.plan] = "absent"
      OBVIOUS
    <2>1. q \in Plans
      BY ReplanAssumption
    <2>2. ASSUME NEW r \in Plans, PlanTravel(r)
          PROVE  request'[q] = "none"
      BY <2>1, <2>2 DEF PlanTravel, RequestType
    <2>3. ASSUME NEW r \in Plans, Replan(r)
          PROVE  \/ request'[q] = "none"
                 \/ poll.step = "answered" /\ \E short \in BOOLEAN : request'[q] = Basis(poll.memory, short)
      BY <2>1, <2>3 DEF Replan, RequestType
    <2>4. poll.step = "answered" =>
             /\ poll.memory \in {"completed", "absent", "unreadable"}
             /\ poll.memory = "absent" => memory[poll.plan] = "absent"
      BY DEF StrongInv, PollInv, StatusIsConsistent
    <2>5. \A short \in BOOLEAN :
             /\ poll.step = "answered" => Basis(poll.memory, short) # "unfinished"
             /\ Basis(poll.memory, short) = "bare" => poll.memory \in {"absent", "unreadable"}
      BY <2>4 DEF Basis
    <2> QED
      BY <2>2, <2>3, <2>4, <2>5 DEF NextR
  <1> QED
    BY <1>1, StrongHolds, RequestTyped, PTL DEF SpecR, CompletedReplans
=============================================================================

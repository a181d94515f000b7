----------------------------- MODULE Replanning -----------------------------
(***************************************************************************)
(* The routes of app/api/routes/travel.py over TravelPlanningService: a    *)
(* plan begins with a request of a client, or with a replan that names an  *)
(* earlier workflow.  replan is a call of status followed by a call of     *)
(* start_plan, with what status found in the memory: the requirements of a *)
(* final plan, no plan in a memory that is there, or nothing at all.  The  *)
(* answer of status that "poll" holds may be that of a replan; several     *)
(* replans may have got the same one.                                      *)
(***************************************************************************)
EXTENDS TravelPlanning

CONSTANT Replans   \* the plans that begin with a replan

ASSUME ReplanAssumption == Replans \subseteq Plans

VARIABLE request   \* request[q]: what plan q plans from

Request ==
    { "none",         \* no call yet
      "client",       \* POST /plan: what the client says
      "inherited",    \* the requirements of the plan that a replan names
      "bare",         \* the prompt of a replan, and nothing else
      "unfinished",   \* refused: the plan it names has no final_plan yet
      "short" }       \* refused: the prompt is too short for a plan

Refused == {"unfinished", "short"}

allVars == <<vars, request>>

InitR == Init /\ request = [q \in Plans |-> "none"]
-----------------------------------------------------------------------------
\* The first step of start_plan.
BeginPlan(q) == CreateTrip(q) \/ CreateTripFails(q)

\* plan_travel.
PlanTravel(q) ==
    /\ q \notin Replans
    /\ BeginPlan(q)
    /\ request' = [request EXCEPT ![q] = "client"]

\* What replan makes of the state that status has found: {} when there is no
\* memory, or reading it has raised, whether or not the workflow exists; an
\* AttributeError when the memory has no final plan.  A prompt of three or
\* four characters passes ReplanRequest and is refused by TravelPlanRequest.
Basis(found, short) ==
    CASE found = "running" -> "unfinished"
      [] short -> "short"
      [] found \in {"absent", "unreadable"} -> "bare"
      [] OTHER -> "inherited"

\* A refusal is answered 500 and leaves no trace.
Replan(q) ==
    /\ q \in Replans
    /\ poll.step = "answered"
    /\ poll.plan # q
    /\ \E short \in BOOLEAN :
          request' = [request EXCEPT ![q] = Basis(poll.memory, short)]
    /\ IF request'[q] \in Refused
         THEN Move(q, "idle", "rejected") /\ UNCHANGED <<trip, meta, memory, poll>>
         ELSE BeginPlan(q)

\* The steps of start_plan after the first.
AcceptPlan(q) == Accept(q) \/ AcceptFails(q) \/ SetExpiry(q) \/ SetExpiryFails(q)

NextR ==
    \/ \E q \in Plans : PlanTravel(q) \/ Replan(q)
    \/ /\ \E q \in Plans :
             \/ AcceptPlan(q) \/ RunPlan(q) \/ Die(q)
             \/ Status(q) \/ ForgetMeta(q) \/ ForgetMemory(q)
       /\ UNCHANGED request
    \/ PollAgain /\ UNCHANGED request

FairnessR == \A q \in Plans : WF_allVars(RunPlan(q) /\ UNCHANGED request)

SpecR == InitR /\ [][NextR]_allVars /\ FairnessR
-----------------------------------------------------------------------------
\* A replan of a workflow that status has shown as completed is not refused
\* for want of a plan, and plans from its prompt alone only if Redis has lost
\* the workflow's memory for good or raised when status read it: never
\* because the two reads of status fell too early in the run (travel.py 44-46,
\* travel_service.py 116-130).
CompletedReplans ==
    [][poll.meta = "completed" =>
          \A q \in Replans : request[q] = "none" =>
             /\ request'[q] # "unfinished"
             /\ request'[q] = "bare" =>
                   poll.memory = "unreadable" \/ memory[poll.plan] = "absent"]_allVars

\* A replan that is accepted of a workflow that status shows at work or
\* completed plans with that workflow's requirements: "Start a new workflow
\* using requirements from a previous plan" (travel.py).
ReplanUsesRequirements ==
    [][\A q \in Plans : request[q] = "none" /\ request'[q] = "bare" =>
          poll.meta \in {"none", "accepted"}]_allVars
=============================================================================

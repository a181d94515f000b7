--------------------------- MODULE TravelWorkflow ---------------------------
(***************************************************************************)
(* The travel planning graph (app/workflows/travel.py) run by the engine.  *)
(***************************************************************************)
EXTENDS WorkflowEngine

TravelNodes ==
    { "supervise", "requirements", "destination", "flights", "hotels", "food",
      "weather", "budget", "activities", "itinerary", "validation", "final_plan" }

\* The final plan no longer waits for the validation.
DroppedEdgeSlip ==
    [n \in TravelNodes |->
        CASE n = "supervise" -> {}
          [] n = "requirements" -> {"supervise"}
          [] n \in {"destination", "flights", "hotels", "food", "weather"} -> {"requirements"}
          [] n = "budget" -> {"requirements", "flights", "hotels"}
          [] n = "activities" -> {"destination"}
          [] n = "itinerary" -> {"activities", "weather", "hotels"}
          [] n = "validation" -> {"itinerary", "budget", "flights"}
          [] n = "final_plan" -> {"itinerary", "budget"}]

\* build_travel_planning_graph: the dependencies...
TravelDependsOn ==
    [n \in TravelNodes |->
        CASE n = "supervise" -> {}
          [] n = "requirements" -> {"supervise"}
          [] n \in {"destination", "flights", "hotels", "food", "weather"} -> {"requirements"}
          [] n = "budget" -> {"requirements", "flights", "hotels"}
          [] n = "activities" -> {"destination"}
          [] n = "itinerary" -> {"activities", "weather", "hotels"}
          [] n = "validation" -> {"itinerary", "budget", "flights"}
          [] n = "final_plan" -> {"validation"}]

ASSUME TravelAssumption == Nodes = TravelNodes /\ DependsOn = TravelDependsOn

\* ...and the order of the dict.
TravelOrder ==
    << "supervise", "requirements", "destination", "flights", "hotels", "food",
       "weather", "budget", "activities", "itinerary", "validation", "final_plan" >>
TravelPosition ==
    [n \in TravelNodes |-> CHOOSE i \in 1 .. 12 : TravelOrder[i] = n]

\* WorkflowNode.max_retries is left at its default.
TravelRetries == [n \in TravelNodes |-> 1]

\* The state key that the agent of a node writes.
Writes(n) == IF n = "supervise" THEN "supervisor" ELSE n

\* The name of the agent of a node, the key of its entry in agent_outputs.
AgentName ==
    [ supervise |-> "supervisor", requirements |-> "requirement_analysis",
      destination |-> "destination_research", flights |-> "flight_transportation",
      hotels |-> "hotel_stay", food |-> "food_restaurant", weather |-> "weather_season",
      budget |-> "budget_estimation", activities |-> "activity_attraction",
      itinerary |-> "itinerary_planning", validation |-> "validation",
      final_plan |-> "final_plan_generator" ]
-----------------------------------------------------------------------------
TravelLevel ==
    [n \in TravelNodes |->
        CASE n = "supervise" -> 0
          [] n = "requirements" -> 1
          [] n \in {"destination", "flights", "hotels", "food", "weather"} -> 2
          [] n \in {"budget", "activities"} -> 3
          [] n = "itinerary" -> 4
          [] n = "validation" -> 5
          [] n = "final_plan" -> 6]

\* The levels of the travel graph are its waves: research is over before
\* anything is estimated, and everything before the final plan.
TravelBarrier == IsLeveling(TravelLevel) /\ BarrierHolds(TravelLevel)
=============================================================================

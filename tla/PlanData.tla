------------------------------ MODULE PlanData ------------------------------
(***************************************************************************)
(* The contents of a travel workflow: the nested dictionaries that         *)
(* _deep_merge puts together (app/memory/shared_memory.py), and what the   *)
(* agents (app/agents/travel_agents.py) and the tools under them           *)
(* (app/tools/travel_tools.py) compute from what they read.                *)
(*                                                                         *)
(* A dictionary is a function on strings; every other JSON value stands in *)
(* a Leaf.  Texts, scores and currencies are left out.                     *)
(***************************************************************************)
EXTENDS Integers, Sequences, FiniteSets

Leaf(v) == [leaf |-> v]
IsDict(t) == DOMAIN t # {"leaf"}
Get(dict, key, default) == IF key \in DOMAIN dict THEN dict[key] ELSE default

\* One level of _deep_merge: two values that are both dictionaries are
\* merged by Inner, and otherwise the value on the right replaces the other.
MergeWith(Inner(_, _), left, right) ==
    [k \in DOMAIN left \cup DOMAIN right |->
        IF /\ k \in DOMAIN left \cap DOMAIN right
           /\ IsDict(left[k]) /\ IsDict(right[k])
          THEN Inner(left[k], right[k])
          ELSE IF k \in DOMAIN right THEN right[k] ELSE left[k]]

\* The levels below the first.  Dictionaries nest six deep in a state, at
\* agent_outputs.final_plan_generator.data.budget.breakdown, and no deeper.
Merge6(left, right) == MergeWith(LAMBDA l, r : r, left, right)
Merge5(left, right) == MergeWith(Merge6, left, right)
Merge4(left, right) == MergeWith(Merge5, left, right)
Merge3(left, right) == MergeWith(Merge4, left, right)
Merge2(left, right) == MergeWith(Merge3, left, right)

(***************************************************************************)
(* Names that end in "Slip" are not part of the model: each is what the    *)
(* definition after it would become under a plausible mistake in the code, *)
(* kept to show that a property of the model tells the two apart.          *)
(***************************************************************************)
\* {**left, **right}.
ShallowMergeSlip(left, right) == MergeWith(LAMBDA l, r : r, left, right)

\* Lists are extended instead of being replaced.
ExtendListsSlip(left, right) ==
    LET merged == MergeWith(Merge2, left, right)
        lists == DOMAIN left \cap DOMAIN right \cap {"activities", "itinerary"}
    IN  [k \in DOMAIN merged |->
            IF k \in lists THEN Leaf(left[k].leaf \o right[k].leaf) ELSE merged[k]]

\* _deep_merge.
DeepMerge(left, right) == MergeWith(Merge2, left, right)
-----------------------------------------------------------------------------
\* What TravelPlanRequest lets through: positive counts and amounts, 0 for no
\* budget.  A request's dates are a pair, or <<>> when one of the two is
\* missing; nothing keeps the end from lying before the start.
ValidRequest(request) ==
    /\ request.travelers \in 1 .. 20
    /\ request.budget \in Nat
    /\ request.dates = <<>> \/ request.dates \in Nat \X Nat

AtLeastOne(n) == IF n >= 1 THEN n ELSE 1

Duration(dates) == IF dates = <<>> THEN 3 ELSE AtLeastOne(dates[2] - dates[1] + 1)

\* RequirementAnalysisAgent; a budget_amount of 0 is none.
Requirements(request) ==
    [ duration_days |-> Leaf(Duration(request.dates)),
      travelers |-> Leaf(request.travelers),
      budget_amount |-> Leaf(request.budget) ]

\* PlacesTool, FlightSearchTool and HotelSearchTool.
Highlights == <<"center", "market", "viewpoint">>
FlightOptions == <<"flt-flex-1">>
HotelOptions == <<"stay-central-1">>

\* BudgetTool.
Breakdown(travelers, days) ==
    [ flights |-> 420 * travelers,
      hotel |-> 145 * AtLeastOne(days - 1),
      food |-> 55 * travelers * days,
      activities |-> 70 * travelers * days,
      local_transport |-> 25 * travelers * days ]

Total(breakdown) ==
    breakdown.flights + breakdown.hotel + breakdown.food + breakdown.activities
        + breakdown.local_transport

\* BudgetEstimationAgent.
Budget(travelers, days) ==
    LET costs == Breakdown(travelers, days) IN
    [ breakdown |-> [item \in DOMAIN costs |-> Leaf(costs[item])],
      estimated_total |-> Leaf(Total(costs)) ]

\* activities[day_number :: days].
OffByOneSlip(list, first, step) ==
    IF first >= Len(list) THEN <<>>
    ELSE [i \in 1 .. ((Len(list) - first - 1) \div step) + 1 |-> list[first + 1 + (i - 1) * step]]

\* list[first - 1 :: step].
Slice(list, first, step) ==
    IF first > Len(list) THEN <<>>
    ELSE [i \in 1 .. ((Len(list) - first) \div step) + 1 |-> list[first + (i - 1) * step]]

Filler == <<"explore">>

\* ItineraryPlanningAgent.
Itinerary(activities, days) ==
    [day \in 1 .. days |->
        LET items == Slice(activities, day, days) IN IF items = <<>> THEN Filler ELSE items]

\* ">=" for ">".
TooStrictSlip(budget, estimate) == budget # 0 /\ estimate # 0 /\ estimate >= budget

\* An estimated_total that is missing is None, 0 here.
ExceedsBudget(budget, estimate) == budget # 0 /\ estimate # 0 /\ estimate > budget

\* ValidationAgent.
Validation(state) ==
    LET conflicts ==
            (IF ExceedsBudget(state.requirements.budget_amount.leaf,
                              Get(Get(state, "budget", <<>>), "estimated_total", Leaf(0)).leaf)
               THEN {"over_budget"} ELSE {})
            \cup (IF Get(state, "itinerary", Leaf(<<>>)).leaf = <<>> THEN {"no_itinerary"} ELSE {})
    IN  [is_valid |-> Leaf(conflicts = {}), conflicts |-> Leaf(conflicts)]

\* FinalPlanGeneratorAgent: a section that is missing is an empty one.  Its
\* summary repeats three of the requirements and is left out.
Sections ==
    { "destination", "flights", "hotels", "food", "activities", "weather",
      "budget", "itinerary", "validation" }
Empty(section) == IF section \in {"activities", "itinerary"} THEN Leaf(<<>>) ELSE <<>>
FinalPlan(state) ==
    [section \in Sections \cup {"requirements"} |->
        IF section = "requirements" THEN state.requirements
        ELSE Get(state, section, Empty(section))]

\* What the agent of node n answers when it is handed the state.
Section(n, state) ==
    CASE n = "supervise" -> Leaf("requirements_then_parallel_research_then_validation")
      [] n = "requirements" -> Requirements(state.request.leaf)
      [] n = "destination" -> [highlights |-> Leaf(Highlights)]
      [] n = "flights" -> [options |-> Leaf(FlightOptions), ground_transport |-> Leaf("rail")]
      [] n = "hotels" -> [hotels |-> Leaf(HotelOptions)]
      [] n = "food" -> [restaurants |-> Leaf("two")]
      [] n = "weather" -> [forecast |-> Leaf("mild")]
      [] n = "budget" ->
            Budget(state.requirements.travelers.leaf, state.requirements.duration_days.leaf)
      [] n = "activities" -> Get(Get(state, "destination", <<>>), "highlights", Leaf(<<>>))
      [] n = "itinerary" ->
            Leaf(Itinerary(Get(state, "activities", Leaf(<<>>)).leaf,
                           state.requirements.duration_days.leaf))
      [] n = "validation" -> Validation(state)
      [] n = "final_plan" -> FinalPlan(state)
=============================================================================

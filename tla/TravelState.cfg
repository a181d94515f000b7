\* The travel graph with its contents; two answers may be merged twice.
CONSTANTS
    Nodes <- TravelNodes
    DependsOn <- TravelDependsOn
    Position <- TravelPosition
    MaxRetries <- TravelRetries
    Faults = {"hook"}
    Requests <- BoundaryRequests
    Flaky = {"activities", "itinerary"}
SPECIFICATION DataSpec
INVARIANTS
    TravelBarrier
    StateIsWhole
    PlanIsCurrent
    EveryHighlightOnce
    ValidMeansAffordable
PROPERTIES
    AnswersStay

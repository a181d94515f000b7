\* A replan of a plan that is at work, while nothing fails.
CONSTANTS
    Plans = {"p1", "p2"}
    Replans = {"p2"}
    Faults = {}
SPECIFICATION SpecR
PROPERTIES
    ReplanUsesRequirements

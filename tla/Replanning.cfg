\* A plan, a replan of it, and a client that polls both, under every kind of fault.
CONSTANTS
    Plans = {"p1", "p2"}
    Replans = {"p2"}
    Faults = {"workflow", "redis", "db", "stop", "loss"}
SPECIFICATION SpecR
INVARIANTS
    CompletedMeansReady
    
    StatusIsConsistent
PROPERTIES
    RunSettles
    CompletedReplans

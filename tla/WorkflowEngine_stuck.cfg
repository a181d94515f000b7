\* A graph that no schedule can complete: the deadlock error.
CONSTANTS
    a = a
    b = b
    c = c
    d = d
    e = e
    Nodes <- Stuck
    DependsOn <- StuckDependsOn
    Position <- StuckPosition
    MaxRetries <- StuckRetries
    Faults = {"agent", "memory"}
SPECIFICATION Spec
INVARIANTS
    DeadlockIsReal
PROPERTIES
    Termination

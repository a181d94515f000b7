\* The diamond with every kind of fault: safety, refinement, termination.
CONSTANTS
    a = a
    b = b
    c = c
    d = d
    e = e
    Nodes <- Diamond
    DependsOn <- DiamondDependsOn
    Position <- DiamondPosition
    MaxRetries <- DiamondRetries
    Faults = {"registry", "agent", "memory", "hook", "loss"}
SPECIFICATION Spec
INVARIANTS
    TypeOK
    AgentsSeeDependencies
    CompletedIsBacked
    LoopHeadIsQuiet
    ObserverOrder
    ResultIsWhole
    BlameIsFirst
PROPERTIES
    NothingAfterTheEnd
    ImplementsDag
    Termination

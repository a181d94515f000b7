\* A wave of two over the lock, two attempts, failing Redis commands.
CONSTANTS
    Nodes <- Fork
    DependsOn <- ForkDependsOn
    Position <- ForkPosition
    MaxRetries <- ForkRetries
    Faults = {"memory", "agent"}
    NoOne = NoOne
SPECIFICATION SpecOnRedis
PROPERTIES
    ImplementsEngine
    WorkflowEnds
    LockIsFreed

\* A client that connects during a publish.
CONSTANTS
    Sockets = {"s1", "s2", "s3"}
    Publishes = {"p1"}
    Nowhere = "nowhere"
SPECIFICATION Spec
INVARIANTS
    BroadcastReaches

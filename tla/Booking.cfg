\* Three bookings, a limit of two a minute, two attempts, every kind of fault.
CONSTANTS
    c1 = c1
    c2 = c2
    c3 = c3
    NoResult = NoResult
    Calls <- ThreeCalls
    UserOf <- Anonymous
    PayloadOf <- Selection
    MaxCalls = 2
    MaxRetries = 1
    Faults = {"redis", "provider", "stop", "db"}
SPECIFICATION Spec
INVARIANTS
    LimitHolds
    OrphanedCounters
    AcceptedIsBacked
PROPERTIES
    CallsEnd

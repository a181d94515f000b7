\* Two clients book the same selection, and nothing ever fails.
CONSTANTS
    c1 = c1
    c2 = c2
    c3 = c3
    NoResult = NoResult
    Calls <- ThreeCalls
    UserOf <- Anonymous
    PayloadOf <- Selection
    MaxCalls = 3
    MaxRetries = 1
    Faults = {}
SPECIFICATION Spec
INVARIANTS
    RowHasOwnRequest

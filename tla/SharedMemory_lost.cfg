\* A call outlives its lock, Redis never fails, both calls check the version.
CONSTANTS
    u1 = u1
    u2 = u2
    u3 = u3
    NoOne = NoOne
    Updates <- TwoUpdates
    Checked <- TwoUpdates
    SlowHolders = TRUE
    Faults = {}
SPECIFICATION Spec
INVARIANTS
    NoLostUpdate

\* No call outlives its lock: three updates, two with a version check.
CONSTANTS
    u1 = u1
    u2 = u2
    u3 = u3
    NoOne = NoOne
    Updates <- ThreeUpdates
    Checked <- TwoUpdates
    SlowHolders = FALSE
    Faults = {"redis", "crash", "loss"}
SPECIFICATION Spec
INVARIANTS
    TypeOK
    NoLostUpdate
    VersionCountsUpdates
    OneWinnerPerVersion
PROPERTIES
    ImplementsAtomic
    UpdatesEnd

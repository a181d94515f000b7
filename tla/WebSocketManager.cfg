\* Three clients that come and go, two publishes at once.
CONSTANTS
    Sockets = {s1, s2, s3}
    Publishes = {p1, p2}
    Nowhere = Nowhere
SPECIFICATION Spec
SYMMETRY Interchangeable
INVARIANTS
    TypeOK
    NoLeak
    ListenersAreKept
    QuietPublishReaches

SPECIFICATION Spec
CONSTANTS
    s1 = s1
    s2 = s2
    s3 = s3
    Sessions = {s1, s2, s3}
    NoSession = NoSession
    Lease = 3
    MaxDelay = 4
    MaxSecond = 1
    Base = 3
    Width = 3
SYMMETRY Symmetry
INVARIANTS LeaseInv OneBeliever FencedTxOwnsSeat
PROPERTY LiveLeaseKept

SPECIFICATION FairSpec
CONSTANTS
    f1 = f1
    f2 = f2
    h1 = h1
    h2 = h2
    t1 = t1
    t2 = t2
    Followers = {f1, f2}
    Ticks = {t1}
    Nobody = Nobody
    Conf <- ExplicitSeat
    Lease = 2
    HeartbeatEvery = 1
    SilenceAfter = 1
    PerSecond = 1
    MaxClock = 0
    MaxRows = 2
    MaxEnds = 0
PROPERTY WakeupsReachFollower
CHECK_DEADLOCK FALSE

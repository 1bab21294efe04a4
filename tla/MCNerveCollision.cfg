SPECIFICATION Spec
CONSTANTS
    f1 = f1
    f2 = f2
    h1 = h1
    h2 = h2
    t1 = t1
    t2 = t2
    Followers = {f1, f2}
    Ticks = {t1}
    Nobody = Nobody
    Conf <- OneWorkspace
    Lease = 2
    HeartbeatEvery = 1
    SilenceAfter = 1
    PerSecond = 1
    MaxClock = 1
    MaxRows = 1
    MaxEnds = 0
INVARIANT LiveFollowerKeepsQueue
CHECK_DEADLOCK FALSE

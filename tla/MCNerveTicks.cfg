SPECIFICATION Spec
CONSTANTS
    f1 = f1
    f2 = f2
    h1 = h1
    h2 = h2
    t1 = t1
    t2 = t2
    Followers = {f1}
    Ticks = {t1, t2}
    Nobody = Nobody
    Conf <- OwnWorkspaces
    Lease = 1
    HeartbeatEvery = 1
    SilenceAfter = 1
    PerSecond = 1
    MaxClock = 2
    MaxRows = 2
    MaxEnds = 0
INVARIANTS TickTakesOrphans LiveFollowerKeepsQueue SilenceReportedOnce
PROPERTIES NoFalseSilence SeatLeaseMovesForward
CHECK_DEADLOCK FALSE

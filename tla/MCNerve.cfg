SPECIFICATION Spec
CONSTANTS
    f1 = f1
    f2 = f2
    h1 = h1
    h2 = h2
    t1 = t1
    t2 = t2
    Followers = {f1, f2}
    Ticks = {t1}
    Nobody = Nobody
    Conf <- TwoReaders
    Lease = 1
    HeartbeatEvery = 1
    SilenceAfter = 1
    PerSecond = 1
    MaxClock = 0
    MaxRows = 2
    MaxEnds = 1
INVARIANTS DeliveryInv RepeatsExplained
PROPERTIES ImplementsQueue LinesInOrder
CHECK_DEADLOCK FALSE

SPECIFICATION FairSpec
CONSTANTS
    s1 = s1
    s2 = s2
    Sessions = {s1, s2}
    NoSession = NoSession
    Lease = 2
    Retry = 1
    DueRetry = 1
    HeartbeatEvery = 1
    MaxDelay = 0
    Generations = {1, 2}
    InboxSize = 2
    MaxFaults = 1
INVARIANTS ResidentInv HolderIsWatching SourcesAccounted RewriteIsPending
PROPERTIES ImplementsLease HomeGetsWatched RewritesGetMirrored

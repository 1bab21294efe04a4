SPECIFICATION AllSpec
CONSTANTS
    p1 = p1
    p2 = p2
    p3 = p3
    b1 = b1
    b2 = b2
    w1 = w1
    v1 = v1
    data = data
    task = task
    backlog = backlog
    report = report
    link = link
    log = log
    Placers = {p1, p2, p3}
    Installed = {p3}
    Earlier = Earlier
    NoFile = NoFile
    Releases = {b1, b2}
    Watches = {w1}
    Verbs = {v1}
    None = None
    Originals = {"new", "v1", "v2", "v3", "later", "foreign", "rowless", "clash"}
    MaxFaults = 3
    MaxMirrored = 1
    Root = data
    Dirs = {task}
    Docs = {report}
    Specials = {link}
    Others = {log}
    Parent <- MCParent
    Depth <- MCDepth
    MaxRev = 2
    Paths = {backlog, report}
    Capacity = 1
    MaxEnds = 1
INVARIANTS PlacementInv OutcomeIsTrue ReleaseIsOneBuild DatabaseIsWhole NothingIsMissed
PROPERTIES ExecutableKept NothingIsOverwritten WatchOpens SweepsCatchUp ImplementsSource
CHECK_DEADLOCK FALSE

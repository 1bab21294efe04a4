SPECIFICATION AllSpec
CONSTANTS
    p1 = p1
    p2 = p2
    r1 = r1
    r2 = r2
    root = root
    task1 = task1
    task2 = task2
    Procs = {p1, p2}
    Paths = {"harbor", "skiff"}
    Ids = {"h", "s", "x"}
    Lines <- MCLines
    MaxRev = 2
    Readers = {r1, r2}
    Labels = {"a", "b"}
    MaxDocs = 1
    RootDocs = {root}
    Artifacts = {task1, task2}
    MaxSecond = 1
    Base = 2
    Width = 2
    MaxId = 3
    HomeValues = {"homeA", "homeB"}
    IdValues = {"idA", "idB", ""}
    LabelValues = {"labelA", "labelB", ""}
    KindValues = {"secondmate", ""}
    Lower <- MCLower
    Clean <- MCClean
    Dates <- MCDates
SYMMETRY Symmetry
INVARIANTS
    AnswersAreFresh SubscribersAreSeated PrintedIsCurrent HomesAreAsGiven FamiliesAgree
PROPERTY SettledHomesRest
CHECK_DEADLOCK FALSE

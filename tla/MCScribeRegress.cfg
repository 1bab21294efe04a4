SPECIFICATION Spec
CONSTANTS
    captain = captain
    attach = attach
    w1 = w1
    w2 = w2
    Files = {captain}
    Verbs = {attach}
    Watchers = {w1}
    Nobody = Nobody
    Absent = Absent
    MaxRev = 4
    ContentOf <- FreshContents

PROPERTIES CurrentNeverRegresses
CHECK_DEADLOCK FALSE

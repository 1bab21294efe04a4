SPECIFICATION Spec
CONSTANTS
    captain = captain
    attach = attach
    w1 = w1
    w2 = w2
    Files = {captain}
    Verbs = {attach}
    Watchers = {w1, w2}
    Nobody = Nobody
    Absent = Absent
    MaxRev = 4
    ContentOf <- VanishingContents
SYMMETRY Symmetry
INVARIANTS MirrorInv UnchangedMeansMirrored
PROPERTIES NoDuplicateVersion
CHECK_DEADLOCK FALSE

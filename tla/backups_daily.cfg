SPECIFICATION Spec
CONSTANTS
    w1 = w1
    w2 = w2
    Dailies = {"d1"}
    Copies = {}
    Restores = {}
    Upgrades = {}
    SchemaVersion = 1
    Writes = {w1, w2}
    Keep = 2
    MaxTime = 1
    MaxSuffix = 1
    Quiesced = TRUE
    Damages = TRUE
    Faults = TRUE
INVARIANT
    DailyUndoable
    RetentionBound
PROPERTY
    PruneKeepsNewest
SYMMETRY MCSymmetry
CHECK_DEADLOCK FALSE

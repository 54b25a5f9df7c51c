SPECIFICATION FairSpec
CONSTANTS
    w1 = w1
    w2 = w2
    Dailies = {}
    Copies = {}
    Restores = {"r1"}
    Upgrades = {}
    SchemaVersion = 1
    Writes = {w1}
    Keep = 1
    MaxTime = 0
    MaxSuffix = 0
    Quiesced = TRUE
    Damages = TRUE
    Faults = FALSE
PROPERTY
    RecoveryRestores
CHECK_DEADLOCK FALSE

SPECIFICATION UpgradeSpec
CONSTANTS
    u1 = u1
    u2 = u2
    Dailies = {}
    Copies = {}
    Restores = {"r1"}
    Upgrades = {u1, u2}
    SchemaVersion = 3
    Origins <- MCOrigins
    Writes = {w1}
    Keep = 1
    MaxTime = 1
    MaxSuffix = 0
    Quiesced = TRUE
    Damages = FALSE
    Faults = TRUE
    RowIds = {1, 3}
INVARIANTS
    MigrationsKeepRows
    TypeOK
PROPERTIES
    NothingDropped
    ActiveStaysWhole
    UpgradeIsAtomic
    PreUpgradeKept
SYMMETRY MCSymmetry
CHECK_DEADLOCK FALSE

SPECIFICATION FairSpec
CONSTANTS
    e1 = e1
    e2 = e2
    k1 = k1
    x1 = x1
    x2 = x2
    Emails = {e1}
    Manuals = {m1}
    Obligations = {o1, o2}
    Fees = {f1}
    Sessions = {s1, s2}
    Keys = {k1}
    Texts = {x1}
    Days = {d1}
    MaxAmount = 2
    MaxRevisions = 1
    ConfirmFlags = {TRUE}
    LegacyFacts <- MCLegacyFacts
    Parses = {e1}
    ParsedFacts <- MCParsedFacts
    Plans <- MCPlans
INVARIANTS
    TypeOK
    PaymentCapacity
    TargetCapacity
    LinksJoinActive
    PairsUnique
    RebuiltOnce
    PlanLoopAgrees
PROPERTIES
    RebuildFinishes
    ImplementsFunds
CHECK_DEADLOCK FALSE

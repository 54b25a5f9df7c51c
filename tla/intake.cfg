SPECIFICATION IntakeSpec
CONSTANTS
    e1 = e1
    e2 = e2
    k1 = k1
    x1 = x1
    Emails = {e1, e2, e3}
    Manuals = {}
    Obligations = {}
    Fees = {}
    Sessions = {s1}
    Keys = {k1}
    Texts = {x1}
    Days = {d1}
    MaxAmount = 1
    MaxRevisions = 0
    ConfirmFlags = {TRUE}
    LegacyFacts <- MCLegacyFacts
    Parses = {e1, e2}
    ParsedFacts <- MCParsedFacts
    Plans <- NoPlans
    Syncs = {y1, y2}
    MaxResults = 2
    MaxFailures = 1
INVARIANT
    CountedOnce
PROPERTY
    EveryMessageArrives
CHECK_DEADLOCK FALSE

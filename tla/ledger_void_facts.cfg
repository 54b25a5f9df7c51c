SPECIFICATION FairSpec
CONSTANTS
    e1 = e1
    e2 = e2
    k1 = k1
    x1 = x1
    x2 = x2
    Emails = {e1}
    Manuals = {}
    Obligations = {}
    Fees = {}
    Sessions = {s1}
    Keys = {k1}
    Texts = {x1}
    Days = {}
    MaxAmount = 2
    MaxRevisions = 0
    ConfirmFlags = {TRUE}
    LegacyFacts <- MCLegacyFacts
    Parses = {e1}
    ParsedFacts <- MCParsedFacts
    Plans <- NoPlans
PROPERTIES
    VoidKeepsFacts
CHECK_DEADLOCK FALSE

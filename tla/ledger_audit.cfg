SPECIFICATION Spec
CONSTANTS
    e1 = e1
    e2 = e2
    k1 = k1
    x1 = x1
    x2 = x2
    Emails = {e1}
    Manuals = {m1, m2}
    Obligations = {o1}
    Fees = {f1, f2}
    Sessions = {s1}
    Keys = {k1, k2}
    Texts = {x1}
    Days = {d1}
    MaxAmount = 2
    MaxRevisions = 1
    ConfirmFlags = {FALSE}
    LegacyFacts <- MCLegacyFacts
    Parses = {e1}
    ParsedFacts <- MCParsedFacts
    Plans <- NoPlans
INVARIANTS
    AuditConsistent
    ManualProjection
    NoUnconfirmedDuplicate
PROPERTIES
    AuditAppendOnly
SYMMETRY Interchangeable
CHECK_DEADLOCK FALSE

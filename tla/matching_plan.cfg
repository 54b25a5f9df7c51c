SPECIFICATION MatchingSpec
CONSTANTS
    e1 = e1
    e2 = e2
    o1 = o1
    o2 = o2
    c1 = c1
    c2 = c2
    n1 = n1
    n2 = n2
    k0 = k0
    k1 = k1
    k2 = k2
    Emails = {e1, e2}
    Manuals = {}
    Obligations = {o1, o2}
    Fees = {}
    Sessions = {}
    Keys = {k0, k1, k2}
    Texts = {"x"}
    Days = {d1}
    MaxAmount = 2
    MaxRevisions = 0
    ConfirmFlags = {FALSE}
    LegacyFacts <- MCLegacyFacts
    Parses = {e2}
    ParsedFacts <- MCParsedFacts
    Plans <- NoPlans
    Senders = {n1, n2}
    Payers = {y1}
    Accounts = {c1, c2}
    SenderOf <- MCSenderOf
    PaidOn <- MCPaidOn
    PaymentId <- MCPaymentId
    ObligationId <- MCObligationId
    Terms <- OneAccount
    Ranges <- FullRange
    Expected <- NoneExpected
    Planners = {a1}
    MaxMeanwhile = 2
INVARIANT
    MatchingTypeOK
PROPERTY
    AppliedPlanIsCurrent
CHECK_DEADLOCK FALSE

SPECIFICATION UseSpec
CONSTANTS
    a1 = a1
    s1 = s1
    s2 = s2
    s3 = s3
    c1 = c1
    Accounts <- OneAccount
    Schedules <- ThreeSchedules
    Sessions <- OneSession
    Months = 2
    MonthEnd <- TwoMonths
    Amounts <- TwoAmounts
SYMMETRY Symmetry
INVARIANTS
    TypeOK
    SchedulesDisjoint
    SchedulesWithinAccount
    ClosedMonthsStayClosed
    GuidedUnambiguous
PROPERTIES
    RentNeverRewritten
    GuidedPlanKept
CHECK_DEADLOCK FALSE

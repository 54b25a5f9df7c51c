SPECIFICATION Spec
CONSTANTS
    Properties = {h1, h2}
    Units = {t1, t2}
    Payers = {y1, y2}
    Accounts = {a1, a2}
    Expenses = {x1}
    Labels = {"l1"}
    Senders = {n1}
    Setups = {s1, s2}
INVARIANTS
    SetupHolds
    OneProperty
SYMMETRY MCSymmetry
CHECK_DEADLOCK FALSE

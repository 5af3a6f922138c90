SPECIFICATION Spec
CONSTANTS
    a1 = a1
    a2 = a2
    c1 = c1
    c2 = c2
    c3 = c3
    i1 = i1
    Personal = {}
    Clearing = {c1, c2, c3}
    Existing = {c1, c2}
    Purchases = {}
    Transfers = {t2}
    Mimos = {t3}
    Items = {}
    ShareInputs <- PerType
    PositionInputs <- NoItem
    ClearingInputs <- Chains
    Requests = {r1, r2}
    MaxTime = 4
SYMMETRY Connections
PROPERTIES
    FreshRequestsLeaveNothingDangling
    FreshRequestsCloseNoCycle
CHECK_DEADLOCK FALSE

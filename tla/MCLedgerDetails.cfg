SPECIFICATION Spec
CONSTANTS
    a1 = a1
    a2 = a2
    c1 = c1
    c2 = c2
    c3 = c3
    i1 = i1
    Personal = {a1, a2}
    Clearing = {}
    Existing = {a1}
    Purchases = {t1}
    Transfers = {}
    Mimos = {}
    Items = {i1}
    ShareInputs <- ToOne
    PositionInputs <- ItemWrites
    ClearingInputs <- NoClearing
    Requests = {r1, r2}
    MaxTime = 5
SYMMETRY Connections
INVARIANT
    DetailsNeverVanish
CHECK_DEADLOCK FALSE

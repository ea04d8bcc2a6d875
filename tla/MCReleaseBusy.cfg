CONSTANTS
    v1 = v1
    r1 = r1
    r2 = r2
    c1 = c1
    s1 = s1
    p1 = p1
    p2 = p2
    l1 = l1
    l2 = l2
    n1 = n1
    n2 = n2
    t1 = t1
    k1 = k1
    t2 = t2
    t3 = t3
    Vessels = {v1}
    Reviews = {r1}
    Coordinators = {c1}
    Surveyors = {s1}
    Keys = {}
    NoKey = NoKey
    Versions = {1, 2, 3}
    Plans = {p1, p2}
    Legs = {l1, l2}
    PlanNames = {n1, n2}
    LegNames = {n1}
    Windows <- OneWindow
    ShoreOperators = {}
    QualityManagers = {}
    NoLeg = NoLeg
    Defects = {}
    Codes = {}
    Batches = {}
    BatchNumbers = {}
    Nobody = Nobody
    Stations = {}
    Sequences = {}
    Times <- Now
    MaxAge = 1
    MaxAttempts = 2
    Never = Never
    Checking = FALSE
    Clients = {t1, t2}
    Elsewhere = FALSE
SPECIFICATION TxSpec
SYMMETRY MCSymmetry
PROPERTY ReleaseOkOrConflict
CHECK_DEADLOCK FALSE

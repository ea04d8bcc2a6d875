CONSTANTS
    v1 = v1
    r1 = r1
    r2 = r2
    c1 = c1
    s1 = s1
    p1 = p1
    p2 = p2
    l1 = l1
    l2 = l2
    n1 = n1
    n2 = n2
    t1 = t1
    k1 = k1
    t2 = t2
    t3 = t3
    Vessels = {v1}
    Reviews = {r1, r2}
    Coordinators = {c1}
    Surveyors = {s1}
    Keys = {k1}
    NoKey = NoKey
    Versions = {1, 2, 3}
    Plans = {}
    Legs = {}
    PlanNames = {n1, n2}
    LegNames = {n1}
    Windows <- OneWindow
    ShoreOperators = {}
    QualityManagers = {}
    NoLeg = NoLeg
    Defects = {}
    Codes = {}
    Batches = {}
    BatchNumbers = {}
    Nobody = Nobody
    Stations = {}
    Sequences = {}
    Times <- Now
    MaxAge = 1
    MaxAttempts = 2
    Never = Never
    Checking = FALSE
    Clients = {t1, t2}
    Elsewhere = TRUE
SPECIFICATION TxSpec
PROPERTIES
    Serializable
    RequestsAnswered
CHECK_DEADLOCK FALSE

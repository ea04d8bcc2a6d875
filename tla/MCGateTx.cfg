CONSTANTS
    v1 = v1
    r1 = r1
    c1 = c1
    s1 = s1
    p1 = p1
    l1 = l1
    n1 = n1
    n2 = n2
    q1 = q1
    o1 = o1
    d1 = d1
    d2 = d2
    b1 = b1
    x1 = x1
    t1 = t1
    t2 = t2
    Vessels = {v1}
    Reviews = {r1}
    Coordinators = {c1}
    Surveyors = {s1}
    Keys = {}
    NoKey = NoKey
    Versions = {1, 2, 3, 4}
    Plans = {p1}
    Legs = {l1}
    PlanNames = {n1}
    LegNames = {n1}
    Windows <- OneWindow
    ShoreOperators = {o1}
    QualityManagers = {q1}
    NoLeg = NoLeg
    Defects = {d1}
    Codes = {n1}
    Batches = {b1}
    BatchNumbers = {n1}
    Nobody = Nobody
    Stations = {x1}
    Sequences = {1}
    Times <- Now
    MaxAge = 1
    MaxAttempts = 2
    Never = Never
    Checking = FALSE
    Clients = {t1, t2}
    Elsewhere = FALSE
SPECIFICATION ScheduledTxSpec
SYMMETRY MCSymmetry
INVARIANTS
    DefectEvidence
    ReleaseEvidence
PROPERTIES
    DeliveryPromised
    SampledWhileActive
CHECK_DEADLOCK FALSE

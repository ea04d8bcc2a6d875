CONSTANTS
    v1 = v1
    r1 = r1
    c1 = c1
    s1 = s1
    o1 = o1
    p1 = p1
    l1 = l1
    n1 = n1
    x1 = x1
    q1 = q1
    d1 = d1
    b1 = b1
    Vessels = {v1}
    Reviews = {r1}
    Coordinators = {c1}
    Surveyors = {s1}
    Keys = {}
    NoKey = NoKey
    Versions = {1, 2}
    Plans = {p1}
    Legs = {l1}
    PlanNames = {n1}
    LegNames = {n1}
    Windows <- OneWindow
    ShoreOperators = {o1}
    QualityManagers = {q1}
    NoLeg = NoLeg
    Defects = {d1}
    Codes = {n1}
    Batches = {b1}
    BatchNumbers = {n1}
    Nobody = Nobody
    Stations = {x1}
    Sequences = {1, 2}
    Times <- Ticks
    MaxAge = 1
    MaxAttempts = 2
    Never = Never
    Checking = TRUE
SPECIFICATION ScheduledFairSpec
INVARIANTS
    SystemTypeOK
    FreshnessFromSamples
    StaleIsOld
PROPERTIES
    SilentGoesStale
CHECK_DEADLOCK FALSE

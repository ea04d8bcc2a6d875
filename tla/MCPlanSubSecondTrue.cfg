CONSTANTS
    v1 = v1
    v2 = v2
    r1 = r1
    r2 = r2
    c1 = c1
    s1 = s1
    p1 = p1
    p2 = p2
    l1 = l1
    l2 = l2
    l3 = l3
    n1 = n1
    n2 = n2
    n3 = n3
    Vessels = {v1}
    Reviews = {r1}
    Coordinators = {c1}
    Surveyors = {s1}
    Keys = {}
    NoKey = NoKey
    Versions = {1, 2, 3}
    Plans = {p1, p2}
    Legs = {l1, l2, l3}
    PlanNames = {n1, n2}
    LegNames = {n1, n2, n3}
    Windows <- MixedWindows
SPECIFICATION Spec
SYMMETRY MCSymmetry
INVARIANT LegsApart
CHECK_DEADLOCK FALSE

CONSTANTS
    v1 = v1
    v2 = v2
    r1 = r1
    r2 = r2
    c1 = c1
    c2 = c2
    s1 = s1
    s2 = s2
    k1 = k1
    k2 = k2
    Vessels = {v1, v2}
    Reviews = {r1, r2}
    Coordinators = {c1, c2}
    Surveyors = {s1, s2}
    Keys = {k1, k2}
    NoKey = NoKey
    Versions = {1, 2, 3}
SPECIFICATION ReviewSpec
SYMMETRY MCSymmetry
INVARIANTS
    ReviewTypeOK
    DecisionConsistent
    KeyNamesOneReview
    ReviewAudited
PROPERTY ReviewHistory
\* Every review may be decided and every key expired: nothing is left to do.
CHECK_DEADLOCK FALSE

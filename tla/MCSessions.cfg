CONSTANTS
    m1 = m1
    m2 = m2
    a1 = a1
    k1 = k1
    k2 = k2
    h1 = h1
    h2 = h2
    Procs = {m1, m2}
    Latest = 2
    MaxFaults = 2
    Accounts = {a1}
    Tokens = {k1, k2}
    Handlers = {h1, h2}
SPECIFICATION ServerSpec
INVARIANTS
    SessionsTypeOK
    ServesItsSchema
    OneLogout
PROPERTIES
    LogoutIsFinal
    StartsAndStops
CHECK_DEADLOCK FALSE

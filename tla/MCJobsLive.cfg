CONSTANTS
    w1 = w1
    w2 = w2
    MaxJobs = 4
    MaxEnqueued = 2
    Procs = {w1}
    MaxAttempts = 2
    Lease = 1
    Interval = 1
    MaxBackoff = 1
    MaxWait = 0
    MaxFaults = 1
SPECIFICATION JobsSpec
INVARIANT OneCheck
PROPERTIES
    JobsSettle
    ChecksGoOn
CHECK_DEADLOCK FALSE

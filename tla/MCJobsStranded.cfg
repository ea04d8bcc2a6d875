CONSTANTS
    w1 = w1
    w2 = w2
    MaxJobs = 2
    MaxEnqueued = 1
    Procs = {w1}
    MaxAttempts = 2
    Lease = 1
    Interval = 2
    MaxBackoff = 2
    MaxWait = 0
    MaxFaults = 1
SPECIFICATION JobsSpec
PROPERTY LeaseReleases
CHECK_DEADLOCK FALSE

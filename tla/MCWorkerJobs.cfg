CONSTANTS
    w1 = w1
    w2 = w2
    MaxJobs = 3
    MaxEnqueued = 1
    Procs = {w1, w2}
    MaxAttempts = 2
    Lease = 1
    Interval = 2
    MaxBackoff = 2
    MaxWait = 0
    MaxFaults = 1
SPECIFICATION JobsSpec
SYMMETRY MCSymmetry
INVARIANTS
    JobsTypeOK
    OneWorkerPerJob
    LeaseOnlyRunning
    ChecksPerProcess
PROPERTY JobHistory
CHECK_DEADLOCK FALSE

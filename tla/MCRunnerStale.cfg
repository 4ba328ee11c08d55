\* One daemon, no faults: an answer does not fit its column.
CONSTANTS
    Chats = {c1}
    MaxRows = 2
    Daemons = {d1}
    MaxConcurrentJobs = 1
    ClaimAttempts = 2
    RequeueOnStart = TRUE
    SharedRoot = TRUE
    SharedAddr = TRUE
    Clients = FALSE
    Results = {"success", "oversize", "partial"}
    MaxStarts = 1
    MaxFaults = 0
SPECIFICATION Spec
INVARIANT StoppedLeavesNoPending
\* Users and daemons may all have stopped: every start has been used up.
CHECK_DEADLOCK FALSE

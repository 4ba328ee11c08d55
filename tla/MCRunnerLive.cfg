\* One daemon that requeues at each start, crashing, failing and being
\* restarted, and clients of its API; fair steps.
CONSTANTS
    Chats = {c1}
    MaxRows = 2
    Daemons = {d1}
    MaxConcurrentJobs = 1
    ClaimAttempts = 2
    RequeueOnStart = TRUE
    SharedRoot = TRUE
    SharedAddr = TRUE
    Clients = TRUE
    Results = {"success", "oversize"}
    MaxStarts = 2
    MaxFaults = 1
SPECIFICATION FairSpec
INVARIANT PendingAccountedFor
PROPERTIES EveryJobSettles ShutdownCompletes
\* Users and daemons may all have stopped: every start has been used up.
CHECK_DEADLOCK FALSE

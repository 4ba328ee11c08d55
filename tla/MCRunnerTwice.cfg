\* A second start of the daemon on the same host, with two slots each:
\* it requeues before it finds the address taken, and the first one has a
\* second slot.
CONSTANTS
    Chats = {c1}
    MaxRows = 2
    Daemons = {d1, d2}
    MaxConcurrentJobs = 2
    ClaimAttempts = 2
    RequeueOnStart = TRUE
    SharedRoot = TRUE
    SharedAddr = TRUE
    Clients = FALSE
    Results = {"success"}
    MaxStarts = 2
    MaxFaults = 0
SPECIFICATION Spec
SYMMETRY Symmetry
INVARIANT NeverHandedToTwo
\* Users and daemons may all have stopped: every start has been used up.
CHECK_DEADLOCK FALSE

\* Two daemons with two slots each on one table, with REQUEUE_PENDING_ON_START
\* off as README says for several workers, and an address and a root each.
CONSTANTS
    Chats = {c1}
    MaxRows = 2
    Daemons = {d1, d2}
    MaxConcurrentJobs = 2
    ClaimAttempts = 2
    RequeueOnStart = FALSE
    SharedRoot = FALSE
    SharedAddr = FALSE
    Clients = FALSE
    Results = {"success"}
    MaxStarts = 3
    MaxFaults = 1
SPECIFICATION Spec
SYMMETRY Symmetry
INVARIANTS PermitsAddUp HandedOut WorkspaceWhileRunning
PROPERTIES OldestFirst ImplementsStore
\* Users and daemons may all have stopped: every start has been used up.
CHECK_DEADLOCK FALSE

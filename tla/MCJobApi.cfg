\* One of each client in a chat they share with its other users; workers,
\* restarts and users at any moment; the clients' loops are fair.
CONSTANTS
    Chats = {c1}
    MaxRows = 3
    AskClients = {a}
    EnqueueClients = {e}
    MaxFaults = 1
SPECIFICATION FairSpec
INVARIANTS ShowsOwnAnswer ExitTellsOutcome
PROPERTIES EveryWaiterReturns
\* Users and clients may all have stopped.
CHECK_DEADLOCK FALSE

\* Three jobs, two connections, an interruption, and time for tokens to run out.
CONSTANTS
    Jobs = {j1, j2, j3}
    PoolSize = 2
    JobTime = 1
    Slack = 1
    HttpTimeout = 1
    Margin = 2
    TokenLife = 3
    RefreshLife = 6
    MaxTime = 6
    MaxRefresh = 4
    MaxFaults = 1
SPECIFICATION FairSpec
INVARIANTS TokenOutlivesJob UnspentUnlessInterrupted RefreshArrivesInTime
PROPERTIES HandsOutOnlyWhileUsable EveryAccessReturns
\* The clock and the supply of tokens are bounded.
CHECK_DEADLOCK FALSE

\* More pipes than the polling budget has tries: (5*60)/(3*len(pipes)) is 0
\* from 101 pipes on.  The budget is scaled to one try (WaitSeconds =
\* RetrySeconds), so two pipes reach the same integer division to zero.
CONSTANTS
    std = std
    dlt = dlt
    p1 = p1
    p2 = p2
    Null = Null
    Bindings <- MCPipeBindings
    Delta <- MCPipeBindings
    JWT = TRUE
    MaxTxns = 1
    MaxCrashes = 0
    MaxLoadFailures = 1
    WaitSeconds = 3
    RetrySeconds = 3
SPECIFICATION Spec
INVARIANT NoLostTransaction

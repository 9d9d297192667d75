\* Store/commit/acknowledge with a crash and a Snowpipe load failure:
\* one MERGE/COPY binding and one Snowpipe binding, under fair scheduling.
CONSTANTS
    std = std
    dlt = dlt
    p1 = p1
    p2 = p2
    Null = Null
    Bindings <- MCBindings
    Delta <- MCDelta
    JWT = TRUE
    MaxTxns = 2
    MaxCrashes = 1
    MaxLoadFailures = 1
    WaitSeconds = 6
    RetrySeconds = 3
SPECIFICATION LiveSpec
INVARIANT TypeOK
INVARIANT NoLostTransaction
PROPERTY CommittedEventuallyApplied
PROPERTY TablesSpec

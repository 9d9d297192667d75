\* Backfill interleaved with concurrent commits and one crash, tail-off mode;
\* downstream checked against the source on the covered keys, and the backfill loop
\* checked to terminate.
CONSTANTS
    None = None
    Keys <- MCKeys
    Vals = {1, 2}
    ChunkSize = 2
    TailMode = FALSE
    MaxTxns = 2
    MaxRestarts = 1
    MaxWatermarks = 6

SPECIFICATION Spec
\* The capture ends (Terminated) once tail-off mode has reached its last
\* watermark; a coordinator that stops anywhere before the table is Active,
\* at the watermark bound included, violates BackfillCompletes.
CHECK_DEADLOCK FALSE

INVARIANT TypeOK
INVARIANT ExactlyOnce
PROPERTY BackfillCompletes

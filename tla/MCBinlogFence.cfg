\* Flush alignment and the fence guarantee, with backpressure on a small
\* channel and DML only (no DDL).
CONSTANTS
    t1 = t1
    t2 = t2
    NoTable = NoTable
    Tables <- MCTables
    InitEngine <- MCInitEngine
    Capacity = 2
    MaxLog = 8
    MaxRows = 2
    AlterKinds = {}

SPECIFICATION Spec

INVARIANT TypeOK
PROPERTY FlushAtCommitBoundary
INVARIANT FenceCoversServerPosition
INVARIANT NoSanityCheckFailure
INVARIANT NoFenceWatchdogTimeout

\* ALTER TABLE ... ENGINE on an active table, then a transaction on it.
CONSTANTS
    t1 = t1
    t2 = t2
    NoTable = NoTable
    Tables <- MCOneTable
    InitEngine <- MCOneInnoDB
    Capacity = 11
    MaxLog = 5
    MaxRows = 1
    AlterKinds = {"engine"}

SPECIFICATION Spec

INVARIANT NoFenceWatchdogTimeout

\* ALTER TABLE on an active table while the events channel is full.
CONSTANTS
    t1 = t1
    t2 = t2
    NoTable = NoTable
    Tables <- MCTables
    InitEngine <- MCInitEngine
    Capacity = 1
    MaxLog = 6
    MaxRows = 1
    AlterKinds = {"column"}

SPECIFICATION Spec

INVARIANT NoLockChannelCycle

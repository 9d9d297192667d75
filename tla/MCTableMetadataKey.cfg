\* RENAME, CHANGE or DROP of the key column a.
\* Key columns are the ones ActivateTable was given.
CONSTANTS
    a = a
    b = b
    c = c
    t1 = t1
    t2 = t2
    NoType = NoType
    Names <- MCNames
    Types <- MCTypes
    InitColumns <- MCInitColumns
    InitTypes <- MCInitTypes
    EnumCases <- MCNoEnums
    KeyColumns <- MCKeyColumns
    RowMetadataModes <- MCModes
    MaxDDL = 1
    MaxOptions = 1
SPECIFICATION Spec
\* A fatal error of the replication worker ends the capture.
CHECK_DEADLOCK FALSE

INVARIANT RowKeyPresent

\* Two RENAME COLUMN options in one statement, as MySQL allows for a swap.
\* Decoding under the tracked (MINIMAL) row metadata.
CONSTANTS
    a = a
    b = b
    c = c
    t1 = t1
    t2 = t2
    NoType = NoType
    Names <- MCNames
    Types <- MCTypes
    InitColumns <- MCInitColumns
    InitTypes <- MCInitTypes
    EnumCases <- MCNoEnums
    KeyColumns <- MCKeyColumns
    RowMetadataModes = {"MINIMAL"}
    MaxDDL = 1
    MaxOptions = 2
SPECIFICATION Spec
\* A fatal error of the replication worker ends the capture.
CHECK_DEADLOCK FALSE

INVARIANT RowsDecodeFaithfully

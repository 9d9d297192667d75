\* Every single-option ALTER TABLE on a two-column table keyed on a, three
\* statements deep, with row events under either binlog_row_metadata.
CONSTANTS
    a = a
    b = b
    c = c
    t1 = t1
    t2 = t2
    NoType = NoType
    Names <- MCNames
    Types <- MCTypes
    InitColumns <- MCInitColumns
    InitTypes <- MCInitEnumTypes
    EnumCases <- MCEnumCases
    KeyColumns <- MCKeyColumns
    RowMetadataModes <- MCModes
    MaxDDL = 3
    MaxOptions = 1
SPECIFICATION Spec
\* A fatal error of the replication worker ends the capture.
CHECK_DEADLOCK FALSE
INVARIANT TypeOK
INVARIANT RowsDecodeFaithfully

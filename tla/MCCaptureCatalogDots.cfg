\* A table c in a schema named "a.b" (a quoted identifier), beside p.t.
CONSTANTS
    CaseFold <- MCCaseFold
    FlowPublishedAt <- MCFlowPublishedAt
    FallbackKey <- MCFallbackKey
    Tables <- MCDottedTables
    KeyChoices <- MCKeyChoices
    DefaultSchema <- MCDefaultSchema
    ColumnNames <- MCNames

SPECIFICATION Spec

INVARIANT BackfillScansItsTable

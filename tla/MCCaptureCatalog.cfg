\* Republication, primary-key changes and backfills across capture restarts,
\* over four tables: key columns named "/" and "~1", a mixed-case table
\* name, a key with an omitted column, a view and a materialized table.
CONSTANTS
    CaseFold <- MCCaseFold
    FlowPublishedAt <- MCFlowPublishedAt
    FallbackKey <- MCFallbackKey
    Tables <- MCTables
    KeyChoices <- MCKeyChoices
    DefaultSchema <- MCDefaultSchema
    ColumnNames <- MCNames

SPECIFICATION Spec

INVARIANT TypeOK
INVARIANT EscapeRoundTrip

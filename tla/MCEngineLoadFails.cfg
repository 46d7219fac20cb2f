SPECIFICATION Spec
CONSTANTS
    Handle = {a, b}
    NumTables = 5
    Schema <- MCSchema
    Statements <- MCStatements
    Entries <- MCEntries
    StartRows <- MCStartRows
    MaxStatements = 1
    Double <- Exactly
PROPERTY
    LoadErrorsReported

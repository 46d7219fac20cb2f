SPECIFICATION FairSpec
CONSTANTS
    Handle = {a, b}
    NumTables = 5
    Schema <- MCSchema
    Statements <- MCStatements
    Entries <- MCEntries
    StartRows <- MCStartRows
    MaxStatements = 1
    Double <- Exactly
INVARIANTS
    TypeOK
    FilesLoadable
    KeysUnique
    FreshLoads
PROPERTIES
    ReferencesExist
    LocksAsSpecified
    StatementsAtomic
    StatementsReturn

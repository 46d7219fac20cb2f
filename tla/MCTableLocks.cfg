SPECIFICATION FairSpec
CONSTANTS
    b = b
    Handle = {a, b, c}
    NumTables = 2
    Entries <- MCEntries
    MaxStatements = 1
INVARIANTS
    TypeOK
    Exclusion
    LockedAll
    NoDeadlock
PROPERTY
    StatementsEnd

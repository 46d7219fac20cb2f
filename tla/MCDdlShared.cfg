SPECIFICATION FairSpec
CONSTANTS
    a = a
    Handle = {a, b}
    Table = {t}
    Schemas = {1, 2}
    Header <- OwnHeader
    Allowed <- OneCreator
    QuietDrops = TRUE
    NumInodes = 9
    NumAny = 2
    Bound <- InTurn
INVARIANTS
    WritersExclusive
PROPERTIES
    StatementsReturn
    TablesAsPromised

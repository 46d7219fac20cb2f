SPECIFICATION Spec
CONSTANTS
    a = a
    Handle = {a}
    Table = {t}
    Schemas = {1, 2}
    Header <- OwnHeader
    Allowed <- Everything
    QuietDrops = FALSE
    NumInodes = 7
    NumAny = 5
    Bound <- AnyOrder
INVARIANTS
    TablesUsable
    CatalogCurrent
PROPERTY
    TablesAsPromised

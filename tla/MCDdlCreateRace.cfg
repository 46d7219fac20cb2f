SPECIFICATION Spec
CONSTANTS
    a = a
    Handle = {a, b}
    Table = {t}
    Schemas = {1, 2}
    Header <- OwnHeader
    Allowed <- Everything
    QuietDrops = FALSE
    NumInodes = 9
    NumAny = 2
    Bound <- AnyOrder
PROPERTY
    CreateNeverReplaces

SPECIFICATION AllSpec
CONSTANTS
    Double <- Rounded
    Chars <- MCChars
    Scalars <- MCScalars
    Nesting = 4
    Leaves <- MCLeaves
    Others <- MCOthers
    Contexts <- MCContexts
    MaxOps = 2
    MaxText = 3
    Mantissa = 3
    Passes <- MCPasses
    Queries <- MCSelects
    Data <- MCData
INVARIANTS
    ThreeValuedLogic
    OrderOfTables
    LikeAsDefined
    AnswerIsRight
    ErrorsAreReal
CHECK_DEADLOCK FALSE

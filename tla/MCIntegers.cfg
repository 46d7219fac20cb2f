SPECIFICATION Spec
CONSTANTS
    Double <- Rounded
    Chars <- MCChars
    Scalars <- MCScalars
    Nesting = 2
    Leaves <- MCLeaves
    Others <- MCOthers
    Contexts <- MCContexts
    MaxOps = 0
    MaxText = 3
    Mantissa = 3
INVARIANT
    IntegersExact

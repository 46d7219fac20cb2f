SPECIFICATION AllSpec
CONSTANTS
    NumInodes = 5
    MaxStatements = 3
    MaxFailures = 2
    Identifiers <- MCIdentifiers
    Schemas <- MCSchemas
    Saved <- MCSaved
    Characters <- MCCharacters
    MaxText = 6
    MaxHeader = 5
    MaxCell = 2
    MaxColumns = 2
    MaxEdits = 2
    MaxRows = 2
INVARIANTS
    WholeFiles
    RowsHaveTheirSchema
    FilesMeanTheirSchema
    RowsSurviveFiles
    OutputTellsResult
CHECK_DEADLOCK FALSE

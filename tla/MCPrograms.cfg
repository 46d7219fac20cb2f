SPECIFICATION AllSpec
CONSTANTS
    Names <- MCNames
    Safe <- MCSafe
    Ids = {r1, r2}
    NoId = NoId
    Texts <- MCTexts
    Letters <- MCLetters
    UpperCase <- MCUpperCase
    Keywords <- MCKeywords
    RealOverflows <- MCRealOverflows
    Greatest = 127
    ArgLists <- MCArgLists
    Formats <- MCFormats
    Dashed <- MCDashed
    Scripts <- MCScripts
    Null = Null
    Characters <- MCCharacters
    Exits <- MCExits
    MaxLength = 6
    MaxTokens = 5
    MaxTyped = 6
    MaxArgs = 4
    MaxScript = 5
INVARIANTS
    FailuresDescribed
    NothingLeaks
    ListedOnce
    TokensAreTheText
    SplitterAgrees
    ParsesAsMeant
    RunsWhatWasTyped
    OnlyDocumentedUse
    ScriptRunsInOrder
PROPERTIES
    NothingGivenOnFailure
    ProgramEnds
CHECK_DEADLOCK FALSE

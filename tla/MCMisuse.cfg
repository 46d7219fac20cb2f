SPECIFICATION AllSpec
CONSTANTS
    Names <- MCNames
    Safe <- MCSafe
    Ids = {r1, r2}
    NoId = NoId
    Texts <- MCTexts
    Letters <- MCLetters
    UpperCase <- MCUpperCase
    Keywords <- MCKeywords
    RealOverflows <- MCRealOverflows
    Greatest = 127
    ArgLists <- MCArgLists
    Formats <- MCFormats
    Dashed <- MCDashed
    Scripts <- MCScripts
    Null = Null
    Characters <- MCCharacters
    Exits <- MCExits
    MaxLength = 3
    MaxTokens = 1
    MaxTyped = 1
    MaxArgs = 1
    MaxScript = 1
INVARIANT
    MisuseDescribed
CHECK_DEADLOCK FALSE

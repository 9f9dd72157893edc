\* Four result sets of up to two results each, one file of up to two queries
\* and one query under way, two ids; formats of up to three letters; files of
\* up to eight characters; texts of up to four tokens, with two values of up to
\* two characters and three characters of space; results of up to two rows and two
\* columns, with values of up to two characters.
SPECIFICATION MCSpec
CONSTANTS
    MaxResults = 2
    MaxQueries = 2
    MaxSets = 4
    MaxOpen = 1
    MaxId = 2
    MaxFormat = 3
    MaxHeap = 1
    MaxChars = 8
    MaxTokens = 4
    MaxValues = 2
    MaxLength = 2
    MaxSize = 3
    PointerSize = 4
    UIntMod = 16
    FieldName = {"id", "name"}
    MaxRows = 2
    MaxFields = 2
    MaxText = 2
    NumberLength = {1}
INVARIANTS
    TypeOK
    ResultsOwnedOnce
    IdsKeepTheirResults
    ActiveIsOwn
    PublicGetsItsArguments
    SendsWhatTheFileSays
    TextIsFilledIn
    ReadsWhatWasSent
PROPERTY
    OnlyLastCanBeMissing

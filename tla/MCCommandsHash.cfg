SPECIFICATION CommandSpec
CONSTANTS
    Inputs <- MCFiles
    Letters <- MCLetters
    Lead = {"<"}
    Continuation = {">"}
    MaxInteger = 98
    MaxLength = 99
    Word = 198
    HashLen = 2
    HashChars = 4
    Shown = 4
    Uris <- MCUris
INVARIANT
    HashOfInfo
CHECK_DEADLOCK FALSE

SPECIFICATION DecoderSpec
CONSTANTS
    Inputs <- MCInputs
    Letters = {"a"}
    MaxInteger = 98
    MaxLength = 20
INVARIANT
    KeysSorted
CHECK_DEADLOCK FALSE

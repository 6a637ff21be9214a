SPECIFICATION DecoderFairSpec
CONSTANTS
    Inputs <- MCInputs
    Letters = {"a"}
    MaxInteger = 98
    MaxLength = 20
INVARIANTS
    DecoderTypeOK
    DepthBounded
    AgreesWithGrammar
PROPERTIES
    Linear
    DecodeEnds
CHECK_DEADLOCK FALSE

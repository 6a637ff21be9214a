SPECIFICATION Spec
CONSTANTS
    NumPieces = 9
    SimpleKinds <- MCKinds
    HaveIndices <- MCHaveIndices
    Payloads <- MCPayloads
    HeaderLen = 2
    MaxLen = 2
    MaxSent = 3
    OutKinds = {"request"}
    Garbage <- MCGarbage
    MaxAhead = 1
    MaxOut = 2
INVARIANT HaveRecorded
CHECK_DEADLOCK FALSE

SPECIFICATION AttemptSpec
CONSTANTS
    Prompt = 1000
    Wrapper = 20
    Placeholder = 10
    MaxArtifact = 2
    MaxArtifacts = 5
    Receiver <- MCReceiver
    KeySet <- MCKeySet
    Requests <- MCRequests
    Inputs <- MCInputs
    Detections <- MCDetections
    Judgements <- MCJudgements
    Marker <- MCMarker
    Prefix <- MCPrefix
    Chunks <- MCChunks
    Tokens <- MCTokens
    Config <- MCConfig
    Runtime <- MCRuntime
    Pinned <- MCPinned
    Skew = 1
    MaxStall = 1
    MaxText = 3
    MaxReplaced = 1
INVARIANTS
    ShownIsTheAnswer
    RecordedOnce
    TokenOutlivesCall
    SuccessIsOneRuntime
    RoomWasReserved
    DebateIsGrounded
PROPERTIES
    AttemptEnds
CHECK_DEADLOCK FALSE

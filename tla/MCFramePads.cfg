SPECIFICATION Spec
CONSTANTS
    Ports = {0, 1}
    ButtonCount = 2
    CallbackSets <- InputCallbacks
    EnableAnswers <- NoEnableAnswer
    NoAnswer = NoAnswer
    PixelBytes = 2
    NuintMax = 31
    SpanLengths <- Nothing
    Extents <- Nothing
    Pitches <- Nothing
    AudioLengths <- Nothing
    NoVideo = NoVideo
INVARIANTS
    PolledBeforeRead
    SteadyInput
    PadsDecoded

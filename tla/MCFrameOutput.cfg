SPECIFICATION Spec
CONSTANTS
    Ports = {0}
    ButtonCount = 1
    CallbackSets <- OutputCallbacks
    EnableAnswers <- AllEnableAnswers
    NoAnswer = NoAnswer
    PixelBytes = 2
    NuintMax = 31
    SpanLengths <- SmallLengths
    Extents <- SmallExtents
    Pitches <- SmallPitches
    AudioLengths <- SmallAudio
    NoVideo = NoVideo
INVARIANTS
    RowsInSpan
    AudioAccounted

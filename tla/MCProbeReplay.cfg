SPECIFICATION ReplaySpec
CONSTANTS
    Width = 4
    BoxWidth = 2
    CursorStep = 2
    FrameModulus = 6
    ByteModulus = 2
    Tau = 3
    PhaseStep = 2
    AudioFrames = 2
INVARIANTS
    RuntimeStateAccepted
    OptionsInForce
    NothingLeftBehind
    ReplaysExactly

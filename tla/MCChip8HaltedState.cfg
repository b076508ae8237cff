SPECIFICATION Spec
CONSTANTS
    MemorySize = 4
    ProgramStart = 1
    ByteSize = 3
    RegisterCount = 2
    StackSize = 1
    FontStart = 2
    GlyphSize = 1
    FontDigits = 1
    InstructionsPerFrame = 2
    AudioSampleRate = 2
    PhasePerFrame = 1
    Quirks <- JumpQuirk
    Keys = {1}
    ForeignStates <- MCForeignStates
    Idle = Idle
PROPERTY
    HaltedStateStable

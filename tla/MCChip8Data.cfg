SPECIFICATION DataSpec
CONSTANTS
    ByteSize = 3
    RegisterCount = 1
    StackSize = 1
    DisplaySize = 2
    MemorySize = 3
    AudioSampleRate = 10
    QuirkLimit = 2
    StateMagic = 50
    StateVersion = 4
    Reached <- MCReached
    MaxDamage = 2
    NoState = NoState
    WordWidth = 8
    FirstLeft = 3
    Right = 5
    SecondLeft = 2
    Seed <- MCSeed
    Width = 3
    Height = 2
    SpriteWidth = 2
    MaximumHeight = 2
    Coordinates = {2, 3}
    NoSprite = NoSprite
INVARIANTS
    StateTypeOK
    SavedStateReloads
    AcceptedStateCanonical
    GeneratorAlive
PROPERTIES
    DrawInjective
    ImplementsContract

SPECIFICATION ReplaySpec
CONSTANTS
    Options = {"ShiftWithVy", "ClipSprites"}
    Keys = {0}
    Buttons = {"B", "Up"}
    KeypadMapping <- MCKeypadMapping
    Machines = {0, 1, 2}
    Fresh = 0
    Execute <- MCExecute
INVARIANTS
    QuirksHaveASource
    ReplaysExactly
PROPERTIES
    AloneOptionsTakeEffect

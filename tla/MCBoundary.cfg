SPECIFICATION BoundarySpec
CONSTANTS
    Platforms <- MCPlatforms
    CoreOptionValuesMaximum = 128
    None = None
    \* Calls of every function, with these contents of a register.
    Patterns <- MCPatterns
    \* Lines of up to four bytes: empty, unterminated, terminated early and late,
    \* with percent signs anywhere.
    Terminator = 0
    Percent = 37
    OtherBytes = {65, 66}
    Levels <- MCLevels
    Debug = 0
    Error = 3
    MaximumLength = 4
INVARIANTS
    AcceptedFieldsCoincide
    ValuesArrive
    ServedAsNamed
    WithinTheData
    HeardAsSaid
    LoggedVerbatim
CHECK_DEADLOCK FALSE

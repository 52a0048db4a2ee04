SPECIFICATION Spec
CONSTANTS
    Length <- MCLength
    Codes = {0, 8, 30, 189, 767}
    Values <- MCValues
INVARIANTS HotkeyRunsCommands SourceRunsLines NumbersAsStrtol EventsAsSpelled
CHECK_DEADLOCK FALSE

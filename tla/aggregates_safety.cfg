CONSTANTS
    MaxHour = 2
    MaxCalls = 3
    FlushSize = 2
    Events = {"late", "gap", "skip", "sharp", "overlap", "boundary", "startup", "race", "stop", "kill", "abort", "sql"}
    MaxEvents = 2
SPECIFICATION Spec
VIEW Memory
CHECK_DEADLOCK FALSE
INVARIANTS
    CountedAtMostOnce
    FinishedHourIsComplete
    OpenHourResumesExactly
PROPERTY
    BookmarkNeverMovesBack

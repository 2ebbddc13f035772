CONSTANTS
    MaxHour = 2
    MaxCalls = 2
    FlushSize = 2
    Events = {"kill"}
    MaxEvents = 1
SPECIFICATION Spec
CHECK_DEADLOCK FALSE
INVARIANT
    BookmarksSeparate

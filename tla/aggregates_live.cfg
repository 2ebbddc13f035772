CONSTANTS
    MaxHour = 2
    MaxCalls = 2
    FlushSize = 2
    Events = {"stop", "boundary", "late"}
    MaxEvents = 2
SPECIFICATION FairSpec
CHECK_DEADLOCK FALSE
PROPERTY
    EventuallyCounted

CONSTANTS
    a1 = a1
    a2 = a2
    Alerts <- TwoAlerts
    Packets = 5
    Minute = 2
    Settings <- SomeSettings
    MaxCalls = 2
    MaxEdits = 1
    MaxFaults = 1
SPECIFICATION FairSpec
INVARIANTS
    SumIsWindow
    EditsAreNotForgotten
PROPERTIES
    ClearLeavesAMinute
    

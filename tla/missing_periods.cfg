SPECIFICATION FairSpec
CONSTANTS
    MaxHour = 3
    MaxBack = 2
    DaysBack = {2}
    NoHour = NoHour
INVARIANTS SearchIsExact FinishedRunLeavesNoGap
PROPERTIES FinishedHoursAreLeftAlone EventuallyRepaired

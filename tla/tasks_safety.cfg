SPECIFICATION Spec
CONSTANTS
    GuiKinds = {"rerate", "invoices", "recalculate"}
    MaxTasks = 2
    MaxFaults = 2
    FaultKinds = {"kill", "signal", "sql", "lost", "launcher"}
    Processes = {1, 2, 3}
    FiveMinutes = 1
    OneHour = 2
    Day = 4
INVARIANTS
    OneProgramPerTask
    ProgramsRunAlone
    WorkedOnce
    LeftInProgressIsExplained
PROPERTIES
    AnswersAreFinal

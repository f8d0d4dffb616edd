SPECIFICATION MCSpec
CONSTANTS
    MaxHandlers = 2
    MaxReadings = 1
    MaxFaults = 2
    MaxPulls = 1
    BackgroundPatchJob = TRUE
    Jobs = {j1, j2}
    Pages <- TwoPages
    Changing = {"a"}
    MaxChanges = 2
    MaxRuns = 2
    MaxClock = 2
    MaxCommands = 3
INVARIANTS
    MissedIsRepeated
    SessionsAgree
    CredentialsAgree

    
CHECK_DEADLOCK FALSE

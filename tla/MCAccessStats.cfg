CONSTANTS
    Requests = {r1, r2, r3}
    LastHour = 2
    RetainHours = 1
    MaxFaults = 2
    None = None
SPECIFICATION FairSpec
CHECK_DEADLOCK FALSE
INVARIANTS CountsKept ShownIsStored
PROPERTIES GracefulStopSaves CountsLeaveMemory

\* Two logins for one permit, two checks, two resets and a failure.
CONSTANTS
    Logins = {l1, l2}
    Checks = {c1, c2}
    Slots = 1
    Limit = 1
    LastTick = 3
    MaxResets = 2
    MaxFaults = 1
    None = None
SPECIFICATION FairSpec
CHECK_DEADLOCK FALSE
INVARIANTS TypeOK OldSessionsEnd EndedStaysEnded
PROPERTIES ExpiresOnlyIdle LoginsAnswered

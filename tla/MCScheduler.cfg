\* The scheduler's run of a database with one layer, one failure, one manual
\* run or change of the settings.
CONSTANTS
    Layers = {l1}
    Users = {u1}
    Runs = {r1}
    Scheduled = r1
    MaxFaults = 1
    MaxChanges = 1
    Whole = Whole
    None = None
SPECIFICATION FairSpec
PROPERTIES  OncePerDay IdleReclaimed

\* A request whose data is too large to cache and two others, over three tiles that share
\* directories and a file.
CONSTANTS
    n1 = n1
    n2 = n2
    Names <- MCNames
    Keys <- MCKeys
    Requests = {r1, r2, r3}
    Oversized = {r1}
    None = None
SYMMETRY Symmetric
SPECIFICATION Spec
CHECK_DEADLOCK FALSE
INVARIANTS ServedWasCommitted CoherentWithoutRace

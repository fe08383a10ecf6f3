\* One run of the cleanup while a tile is served from memory, no failure.
CONSTANTS
    Layers = {l1}
    Users = {u1}
    Runs = {r1}
    MaxFaults = 0
    Whole = Whole
    None = None
SPECIFICATION Spec
PROPERTY AccessedKept

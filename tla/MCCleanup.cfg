\* Two overlapping runs over two layers while a request, the clock and an
\* administrator change what they have read, and something fails.
CONSTANTS
    Layers = {l1, l2}
    Users = {u1}
    Runs = {r1, r2}
    MaxFaults = 1
    Whole = Whole
    None = None
SYMMETRY Symmetric
CONSTRAINT FewMarksAfterFault
SPECIFICATION Spec
INVARIANTS TypeOK RowsMatchFiles MarkerTruthful
PROPERTY ProtectedKept

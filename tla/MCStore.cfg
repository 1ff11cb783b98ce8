\* Two processes, one file that everybody writes and two snapshots.
CONSTANTS
    Proc = {p1, p2}
    File = {state}
    Value = {v1, v2}
    Inode = {i1, i2, i3}
    MaxStamp = 2
    ClockBack = FALSE
    None = None
VIEW View
SYMMETRY Symmetry
SPECIFICATION Spec
INVARIANTS
    TypeOK
    FailureLeavesNothing
PROPERTIES
    LatestIsNewest
    ImplementsAtomicFiles

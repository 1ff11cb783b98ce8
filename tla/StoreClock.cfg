\* The clock may be set back between two snapshots.
CONSTANTS
    Proc = {p1, p2}
    File = {state}
    Value = {v1, v2}
    Inode = {i1, i2, i3}
    MaxStamp = 2
    ClockBack = TRUE
    None = None
VIEW View
SYMMETRY Symmetry
SPECIFICATION Spec
PROPERTIES
    LatestIsNewest

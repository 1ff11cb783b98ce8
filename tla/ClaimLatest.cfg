\* A confirmed change and the menu's rollback.
CONSTANTS
    Session = {s1}
    Unit = {u1, u2}
    Config = {c1, c2}
    Data = {d1}
    Commands = {"enable", "change", "rollback"}
    Faults = {}
    Patient = TRUE
    Slow = FALSE
    None = None
SPECIFICATION Spec
PROPERTIES
    LatestUndone

\* Two operators change the configuration.
CONSTANTS
    Session = {s1, s2}
    Unit = {u1, u2}
    Config = {c1, c2}
    Data = {d1}
    Commands = {"enable", "change"}
    Faults = {}
    Patient = TRUE
    Slow = FALSE
    None = None
SPECIFICATION Spec
PROPERTIES
    RejectedLeavesFiles

\* An apply that outlasts its own timer.
CONSTANTS
    Session = {s1}
    Unit = {u1, u2}
    Config = {c1}
    Data = {d1}
    Commands = {"enable"}
    Faults = {}
    Patient = TRUE
    Slow = TRUE
    None = None
SPECIFICATION FairSpec
PROPERTIES
    UnconfirmedRestored

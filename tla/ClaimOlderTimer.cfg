\* A second change while the timer of the first is pending.
CONSTANTS
    Session = {s1}
    Unit = {u1, u2}
    Config = {c1, c2}
    Data = {d1}
    Commands = {"enable", "change"}
    Faults = {}
    Patient = FALSE
    Slow = FALSE
    None = None
SPECIFICATION Spec
PROPERTIES
    ConfirmKeeps

\* Changes that fail, whose file is not put back and whose timer is not stopped.
CONSTANTS
    Session = {s1}
    Unit = {u1, u2}
    Config = {c1, c2}
    Data = {d1}
    Commands = {"enable", "change"}
    Faults = {"apply", "store", "stop"}
    Patient = TRUE
    Slow = FALSE
    None = None
SPECIFICATION Spec
PROPERTIES
    ConfirmKeeps

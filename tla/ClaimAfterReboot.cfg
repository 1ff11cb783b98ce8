\* An activation after a reboot without boot persistence.
CONSTANTS
    Session = {s1}
    Unit = {u1, u2}
    Config = {c1}
    Data = {d1}
    Commands = {"enable"}
    Faults = {"reboot"}
    Patient = TRUE
    Slow = FALSE
    None = None
SPECIFICATION Spec
PROPERTIES
    PreChangeRestored

\* A reboot while the timer of a second activation is pending.
CONSTANTS
    Session = {s1}
    Unit = {u1, u2}
    Config = {c1, c2}
    Data = {d1}
    Commands = {"enable", "change"}
    Faults = {"reboot"}
    Patient = TRUE
    Slow = FALSE
    None = None
SPECIFICATION FairSpec
PROPERTIES
    UnconfirmedRestored

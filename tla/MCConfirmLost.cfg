\* One patient operator whose session may be lost at any point.
CONSTANTS
    Session = {s1}
    Unit = {u1, u2}
    Config = {c1, c2}
    Data = {d1, d2}
    Commands = {"change", "import", "enable", "apply", "unattended", "setup", "disable"}
    Faults = {"apply", "disable", "store", "snapshot", "schedule", "stop", "service", "lost"}
    Patient = TRUE
    Slow = FALSE
    None = None
SPECIFICATION FairSpec
INVARIANTS
    BootOnlyEnabled
    GuardHeld
PROPERTIES
    UnconfirmedUndone

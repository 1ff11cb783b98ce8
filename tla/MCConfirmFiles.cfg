\* One patient operator, and activations that fail.
CONSTANTS
    Session = {s1}
    Unit = {u1, u2}
    Config = {c1, c2}
    Data = {d1, d2}
    Commands = {"change", "import", "enable", "apply", "unattended", "setup", "disable", "rollback"}
    Faults = {"apply", "schedule", "stop", "service"}
    Patient = TRUE
    Slow = FALSE
    None = None
SYMMETRY Symmetry
SPECIFICATION Spec
INVARIANTS
    LiveMatchesFiles
PROPERTIES
    PreviousRestored
    ConfirmedStays

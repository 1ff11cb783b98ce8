\* One impatient operator and everything that can go wrong.
CONSTANTS
    Session = {s1}
    Unit = {u1, u2}
    Config = {c1, c2}
    Data = {d1}
    Commands = {"change", "import", "enable", "apply", "unattended", "setup", "disable", "rollback"}
    Faults = {"apply", "disable", "rollback", "store", "snapshot", "schedule", "stop", "service", "lost", "reboot"}
    Patient = FALSE
    Slow = TRUE
    None = None
SYMMETRY Symmetry
SPECIFICATION Spec
INVARIANTS
    TypeOK

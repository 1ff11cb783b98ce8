\* Two operators who do not wait for each other.
CONSTANTS
    Session = {s1, s2}
    Unit = {u1, u2}
    Config = {c1, c2}
    Data = {d1}
    Commands = {"change", "enable", "apply", "disable"}
    Faults = {"apply", "disable", "schedule", "stop", "lost"}
    Patient = FALSE
    Slow = FALSE
    None = None
SYMMETRY Symmetry
SPECIFICATION Spec
INVARIANTS
    GuardHeld

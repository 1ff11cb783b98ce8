\* An import whose snapshot cannot be written.
CONSTANTS
    Session = {s1}
    Unit = {u1, u2}
    Config = {c1}
    Data = {d1, d2}
    Commands = {"enable", "import"}
    Faults = {"snapshot"}
    Patient = TRUE
    Slow = FALSE
    None = None
SPECIFICATION Spec
INVARIANTS
    ImportActivates

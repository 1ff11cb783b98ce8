\* One operator imports while another enables.
CONSTANTS
    Session = {s1, s2}
    Unit = {u1, u2}
    Config = {c1}
    Data = {d1}
    Commands = {"enable", "import", "disable"}
    Faults = {}
    Patient = TRUE
    Slow = FALSE
    None = None
SPECIFICATION Spec
PROPERTIES
    DisableRemovesPolicy

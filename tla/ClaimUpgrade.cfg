\* Version 0.1.0 was enabled when this version was installed.
CONSTANTS
    Session = {s1}
    Nic = {n1, n2, n3}
    Device = {m1, m2, m3}
    Addressless = {}
    Installed = {"enabled"}
    Faults = {}
    Heeding = {"setup", "rollback"}
    None = None
SYMMETRY Symmetry
SPECIFICATION Spec
INVARIANTS
    DisabledMeansClean

\* One operator enables while another is in the setup wizard.
CONSTANTS
    Session = {s1, s2}
    Nic = {n1, n2, n3}
    Device = {m1, m2, m3}
    Addressless = {}
    Installed = {"nothing", "disabled"}
    Faults = {}
    Heeding = {"setup", "rollback"}
    None = None
SYMMETRY Symmetry
SPECIFICATION Spec
INVARIANTS
    DisabledMeansClean

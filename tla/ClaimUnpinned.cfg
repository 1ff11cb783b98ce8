\* The interfaces could not be discovered when setup ran.
CONSTANTS
    Session = {s1}
    Nic = {n1, n2, n3}
    Device = {m1, m2, m3}
    Addressless = {}
    Installed = {"nothing", "disabled"}
    Faults = {"rename", "discover"}
    Heeding = {"setup", "rollback"}
    None = None
SYMMETRY Symmetry
SPECIFICATION Spec
INVARIANTS
    EveryLinkOnChosen

\* disable could not revert DNS, and setup moves on to other interfaces.
CONSTANTS
    Session = {s1}
    Nic = {n1, n2, n3}
    Device = {m1, m2, m3}
    Addressless = {}
    Installed = {"nothing", "disabled"}
    Faults = {"apply", "rename", "dnsRevert"}
    Heeding = {"rollback"}
    None = None
SYMMETRY Symmetry
SPECIFICATION Spec
INVARIANTS
    DisabledMeansClean

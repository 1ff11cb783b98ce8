\* One operator at a time, after a fresh installation or an upgrade while
\* disabled; interfaces may swap their names at a reboot.
CONSTANTS
    Session = {s1}
    Nic = {n1, n2, n3}
    Device = {m1, m2, m3}
    Addressless = {m3}
    Installed = {"nothing", "disabled"}
    Faults = {"apply", "rename", "dnsRevert"}
    Heeding = {"setup", "rollback"}
    None = None
SYMMETRY Symmetry
SPECIFICATION Spec
INVARIANTS
    TypeOK
    DisabledMeansClean
    UndoCoversAll
    RulesEffective
    LiveOnChosen

\* The host reboots and has no boot persistence.
CONSTANTS
    Proc = {p1}
    Config = {managedDNS, systemDNS}
    Managed = {managedDNS}
    Data = {d1}
    Faults = {"reboot"}
    MaxSnapshots = 2
    SharedStore = FALSE
    Heeding = FALSE
    None = None
SPECIFICATION Spec
INVARIANTS
    DoctorHonest

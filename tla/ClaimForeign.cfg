\* Another program uses irroute's priorities while irroute is enabled.
CONSTANTS
    Proc = {p1}
    Config = {managedDNS, systemDNS}
    Managed = {managedDNS}
    Data = {d1}
    Faults = {"intruder"}
    MaxSnapshots = 2
    SharedStore = FALSE
    Heeding = FALSE
    None = None
SPECIFICATION Spec
PROPERTIES
    DisableOnlyManaged

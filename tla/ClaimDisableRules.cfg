\* `ip rule del` may fail.
CONSTANTS
    Proc = {p1}
    Config = {managedDNS, systemDNS}
    Managed = {managedDNS}
    Data = {d1}
    Faults = {"ruleDel"}
    MaxSnapshots = 2
    SharedStore = FALSE
    Heeding = FALSE
    None = None
SPECIFICATION Spec
PROPERTIES
    DisableRemovesRules

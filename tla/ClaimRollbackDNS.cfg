\* `resolvectl revert` may fail.
CONSTANTS
    Proc = {p1}
    Config = {managedDNS, systemDNS}
    Managed = {managedDNS}
    Data = {d1}
    Faults = {"dnsRevert"}
    MaxSnapshots = 3
    SharedStore = FALSE
    Heeding = FALSE
    None = None
SPECIFICATION Spec
PROPERTIES
    RollbackRevertsDNS

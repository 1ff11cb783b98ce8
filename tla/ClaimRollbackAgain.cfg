\* `resolvectl` may fail to set DNS; a rollback is followed by another one.
CONSTANTS
    Proc = {p1}
    Config = {managedDNS, systemDNS}
    Managed = {managedDNS}
    Data = {d1}
    Faults = {"dnsSet"}
    MaxSnapshots = 4
    SharedStore = FALSE
    Heeding = FALSE
    None = None
SPECIFICATION Spec
PROPERTIES
    RollbackRevertsDNS

\* An irroute that is killed, and a rollback after it.
CONSTANTS
    Proc = {p1}
    Config = {managedDNS, systemDNS}
    Managed = {managedDNS}
    Data = {d1}
    Faults = {"crash"}
    MaxSnapshots = 2
    SharedStore = FALSE
    Heeding = FALSE
    None = None
SPECIFICATION Spec
PROPERTIES
    LostSessionRollback

\* Commands and writes fail, except `ip rule` and `resolvectl revert`.
CONSTANTS
    Proc = {p1, p2}
    Config = {managedDNS, systemDNS}
    Managed = {managedDNS}
    Data = {d1, d2}
    Faults = {"read", "save", "flush", "load", "dnsSet"}
    MaxSnapshots = 3
    SharedStore = FALSE
    Heeding = TRUE
    None = None
SYMMETRY Symmetry
SPECIFICATION Spec
INVARIANTS
    NoOrphanDNS
    SafetyPoint
    ReplyPathWhole
    GuardedPolicy
PROPERTIES
    RollbackRestores
    DisableCleans

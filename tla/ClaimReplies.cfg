\* Nothing fails.
CONSTANTS
    Proc = {p1}
    Config = {managedDNS, systemDNS}
    Managed = {managedDNS}
    Data = {d1}
    Faults = {}
    MaxSnapshots = 2
    SharedStore = FALSE
    Heeding = FALSE
    None = None
SPECIFICATION Spec
INVARIANTS
    RepliesAlwaysLocal

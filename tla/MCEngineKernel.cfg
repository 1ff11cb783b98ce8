\* Commands fail and the host reboots; the store's writes succeed.
CONSTANTS
    Proc = {p1, p2}
    Config = {managedDNS, systemDNS}
    Managed = {managedDNS}
    Data = {d1, d2}
    Faults = {"read", "flush", "load", "ruleAdd", "dnsSet", "reboot"}
    MaxSnapshots = 3
    SharedStore = FALSE
    Heeding = FALSE
    None = None
SYMMETRY Symmetry
SPECIFICATION Spec
INVARIANTS
    PolicyWhole
    LiveMatchesRecord
PROPERTIES
    ImplementsDoubleBuffer

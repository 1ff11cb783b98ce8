\* Kills and reboots at any point, files edited under the lock.
CONSTANTS
    Proc = {p1, p2}
    Config = {managedDNS, systemDNS}
    Managed = {managedDNS}
    Data = {d1}
    Faults = {"read", "save", "flush", "load", "ruleAdd", "dnsSet", "dnsRevert", "crash", "reboot", "intruder"}
    MaxSnapshots = 2
    SharedStore = TRUE
    Heeding = FALSE
    None = None
SYMMETRY Symmetry
SPECIFICATION Spec
INVARIANTS
    TypeOK
    OneHandler
PROPERTIES
    NoLiveTableRebuilt
    NoForeignLoss

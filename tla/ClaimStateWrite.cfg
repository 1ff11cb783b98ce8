\* The write of state.json at the end of a disable fails.
CONSTANTS
    Proc = {p1}
    Config = {managedDNS, systemDNS}
    Managed = {managedDNS}
    Data = {d1}
    Faults = {"save"}
    MaxSnapshots = 3
    SharedStore = FALSE
    Heeding = FALSE
    None = None
SPECIFICATION Spec
INVARIANTS
    LiveMatchesRecord

\* All force lists of up to two entries over eight addresses, for all pairs of networks.
CONSTANTS
    Bits = 3
    Networks <- MCNetworks
    Imports <- MCImports
    MaxForced = 2
SPECIFICATION Spec
INVARIANTS
    TypeOK
    EgressAsIntended
    BatchLoads
    NoOverlap

SPECIFICATION Spec
CONSTANTS
    Loadbalancers = {a, b}
    Devices = {d1, d2}
    MaxOps = 2
    MaxFaults = 1
INVARIANT
    TypeOK
PROPERTIES
    KnownTreeIsKept
    OrphansGo

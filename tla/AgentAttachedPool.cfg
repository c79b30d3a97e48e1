CONSTANTS
    Devices = {d1}
    Objects = {"loadbalancer", "listener", "pool"}
    MaxFaults = 1
    MaxOps = 2
    GlobalAgent = TRUE
SPECIFICATION Spec
PROPERTY UnknownPoolIsRemoved

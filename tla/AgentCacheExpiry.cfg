CONSTANTS
    Devices = {d1}
    Objects = {"loadbalancer", "listener"}
    MaxFaults = 0
    MaxOps = 1
    GlobalAgent = FALSE
SPECIFICATION Spec
PROPERTY CacheIsThrownAway

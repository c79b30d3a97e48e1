CONSTANTS
    Devices = {d1}
    Objects = {"loadbalancer", "listener"}
    MaxFaults = 2
    MaxOps = 1
    GlobalAgent = TRUE
SPECIFICATION Spec
PROPERTY TimedOutIsError

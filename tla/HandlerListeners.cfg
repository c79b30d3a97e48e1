CONSTANTS
    Devices = {d1, d2}
    Objects = {"loadbalancer", "listener", "pool"}
    MaxFaults = 1
SPECIFICATION HandlerSpec
SYMMETRY Symmetry
INVARIANTS
    HandlerTypeOK
    ReportIsTrue
    SyncRestoresService

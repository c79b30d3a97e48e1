CONSTANTS
    Devices = {d1, d2}
    Objects = {"loadbalancer", "pool", "member"}
    MaxFaults = 1
    MaxOps = 2
    GlobalAgent = TRUE
SPECIFICATION Spec
INVARIANTS
    ReportIsTrue
    SyncRestoresService
    ReportAnswersSnapshot
PROPERTIES
    ActiveIsDeployed
    DestroyedIsPurged

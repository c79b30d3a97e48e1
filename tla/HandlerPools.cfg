CONSTANTS
    Devices = {d1, d2}
    Objects = {"loadbalancer", "pool", "member", "healthmonitor"}
    MaxFaults = 1
SPECIFICATION HandlerSpec
SYMMETRY Symmetry
INVARIANTS
    ReportIsTrue
    SyncRestoresService
    ReportAnswersSnapshot

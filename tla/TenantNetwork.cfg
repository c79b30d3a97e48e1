SPECIFICATION Spec
CONSTANTS
    Loadbalancers <- MCLoadbalancers
    Tenants = {"t", "u"}
    Networks <- MCNetworks
    TenantOf <- MCTenantOf
    NetworksOf <- MCNetworksOf
    Owner <- MCOwner
    Flat = {"s"}
    Overlapping <- MCOverlapping
    DeviceCount = 2
    NamespaceLimits = {1, 2}
    MaxOps = 3
    MaxFaults = 1
    MaxResets = 1
INVARIANTS
    TypeOK
    AddressIsConnected
    CacheIsTrue
    OverlapIsSeparated
    TenantsAreApart
CHECK_DEADLOCK FALSE

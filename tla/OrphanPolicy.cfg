SPECIFICATION Spec
CONSTANTS
    Loadbalancers = {a, b}
    Devices = {d1}
    MaxOps = 1
    MaxFaults = 0
PROPERTY
    KnownPolicyIsKept

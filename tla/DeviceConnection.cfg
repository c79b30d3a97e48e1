SPECIFICATION Spec
CONSTANTS
    Devices <- MCDevices
    Configurations <- MCConfigurations
    MaxFaults = 2
INVARIANTS
    TypeOK
    ActiveIsPrepared
PROPERTIES
    ActivationFollowsValidation
    ErrorsAreRetried
    StateConverges
    ActivationIsFollowedByResync

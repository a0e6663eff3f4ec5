CONSTANTS
    Networks <- MCNetworks
    HostFunctions <- MCHostFunctions
    U64Max = 1000000000
    EnvProto = 23
    EnvPre = 0
    MaxVmArgs = 2
    PageSize = 1
    None = None
    HandleSpace = 1024
    Handles = {0, 2, 3}
    MaxObjs = 3
    MaxUploads = 1
SPECIFICATION Spec
CHECK_DEADLOCK FALSE
INVARIANTS
    TypeOK
    FuelWithinBudget
    EverythingMetered
    HandlesIsolated
    AuthAligned
    UploadedInstantiates
PROPERTY Terminates

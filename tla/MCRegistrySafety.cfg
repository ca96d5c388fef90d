CONSTANTS
    Instance = {i1, i2, i3}
    Foreign = {i3}
    Address = {a1, a2, a3}
    NoAddress = NoAddress
    NoInstance = NoInstance
    Container = {c1}
    Image = {m1}
    ReuseAddresses = FALSE
    InitialStates = {"unlaunched", "running", "stopped"}
    ConsoleOps = {"stop", "start"}
    MaxConsoleOps = 1
    Worker = {svc, req}
    Hosted = svc
    MaxObjects = 1
    MaxRequests = 1
    MaxFaults = 0
SPECIFICATION Spec
SYMMETRY ServerSymmetry
INVARIANTS
    AvailableHasClient
    NoCrossTalk
    OnlyOwnServers
PROPERTIES
    AvailabilityIsReal

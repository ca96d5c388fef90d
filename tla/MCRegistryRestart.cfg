CONSTANTS
    Instance = {i1}
    Foreign = {}
    Address = {a1, a2, a3}
    NoAddress = NoAddress
    NoInstance = NoInstance
    Container = {c1}
    Image = {m1}
    ReuseAddresses = FALSE
    InitialStates = {"running"}
    ConsoleOps = {"stop", "start"}
    MaxConsoleOps = 2
    Worker = {svc, req}
    Hosted = svc
    MaxObjects = 1
    MaxRequests = 0
    MaxFaults = 0
SPECIFICATION Spec
PROPERTIES
    RunningServersBecomeAvailable

CONSTANTS
    Instance = {i1}
    Foreign = {}
    Address = {a1}
    NoAddress = NoAddress
    NoInstance = NoInstance
    Container = {c1}
    Image = {m1}
    ReuseAddresses = FALSE
    InitialStates = {"unlaunched", "pending"}
    ConsoleOps = {"launch", "create", "remove"}
    MaxConsoleOps = 3
    Worker = {svc, req}
    Hosted = svc
    MaxObjects = 2
    MaxRequests = 1
    MaxFaults = 1
SPECIFICATION Spec
PROPERTY RunningServersBecomeAvailable

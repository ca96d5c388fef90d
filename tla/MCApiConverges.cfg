CONSTANTS
    Instance = {i1}
    Foreign = {}
    Address = {a1}
    NoAddress = NoAddress
    NoInstance = NoInstance
    Container = {c1}
    Image = {m1}
    ReuseAddresses = FALSE
    InitialStates = {"unlaunched", "running", "stopped"}
    ConsoleOps = {}
    MaxConsoleOps = 0
    Worker = {svc, req}
    Hosted = svc
    MaxObjects = 2
    MaxRequests = 1
    MaxFaults = 1
    All = All
    NoImage = NoImage
    TheImage = m1
    TheServer = i1
    Commands <- NotTerminate
SPECIFICATION ApiSpec
PROPERTIES
    RequestsAreAnswered
    EventuallyMirrorsCloud
    EventuallyMirrorsContainers
    ImplementsAccount

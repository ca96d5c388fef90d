CONSTANTS
    Instance = {i1}
    Foreign = {}
    Address = {a1}
    NoAddress = NoAddress
    NoInstance = NoInstance
    Container = {c1, c2}
    Image = {m1}
    ReuseAddresses = FALSE
    InitialStates = {"running"}
    ConsoleOps = {}
    MaxConsoleOps = 0
    Worker = {svc, req}
    Hosted = svc
    MaxObjects = 1
    MaxRequests = 1
    MaxFaults = 0
    All = All
    NoImage = NoImage
    TheImage = m1
    TheServer = i1
    Commands <- EveryCommand
SPECIFICATION ApiSpec
SYMMETRY ContainerSymmetry
PROPERTIES
    SpawnsOnIdleServers

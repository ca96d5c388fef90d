CONSTANTS
    Instance = {i1, i2}
    Foreign = {i2}
    Address = {a1}
    NoAddress = NoAddress
    NoInstance = NoInstance
    Container = {c1, c2}
    Image = {m1, m2}
    ReuseAddresses = FALSE
    InitialStates = {"running", "stopped"}
    ConsoleOps = {}
    MaxConsoleOps = 0
    Worker = {svc, req}
    Hosted = svc
    MaxObjects = 2
    MaxRequests = 1
    MaxFaults = 0
    All = All
    NoImage = NoImage
    TheImage = m1
    TheServer = i1
    Commands <- OfEither
SPECIFICATION ApiSpec
SYMMETRY ContainerSymmetry
INVARIANTS
    ApiTypeOK
    HandlersHaveClients
PROPERTIES
    ImplementsAccount

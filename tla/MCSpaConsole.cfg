CONSTANTS
    s1 = s1
    i1 = i1
    aws = aws
    c1 = c1
    c2 = c2
    Absent = Absent
    ApiHostName = "http://localhost:5000"
    Provider = {aws}
    Server = {s1}
    Image = {i1}
    ProviderOf <- AllAtAws
    Slot = {c1, c2}
    MaxLists = 2
    MaxEvents = 2
    MaxFaults = 1
SPECIFICATION Spec
INVARIANTS
    TypeOK
    RequestsAreRouted
    LoadingMeansRunning
    LinksLeadToPages
PROPERTIES
    ListsFollowOperations
    ServersEventuallyShown
    DialogsEnd
CHECK_DEADLOCK FALSE

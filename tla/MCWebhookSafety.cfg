SPECIFICATION Spec
CONSTANTS
    n1 = n1
    n2 = n2
    slugA = slugA
    slugB = slugB
    u1 = u1
    u2 = u2
    None = None
    Notification = {n1, n2}
    Poison = {}
    Slug = {slugA, slugB}
    Url = {u1, u2}
    SlugOf <- TwoSlugs
    InitialTables <- ThreeRows
    MaxManagerStops = 1
    MaxSenderStops = 1
    MaxRestarts = 1
    MaxEdits = 0
    MaxFaults = 1
CHECK_DEADLOCK FALSE
INVARIANTS
    TypeOK
    PublishedIsAccountedFor
    HandledIsFannedOut
    JobsOnce
    PostedOncePerSender
PROPERTY ImplementsDelivery

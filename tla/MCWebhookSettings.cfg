SPECIFICATION Spec
CONSTANTS
    n1 = n1
    n2 = n2
    slugA = slugA
    slugB = slugB
    u1 = u1
    u2 = u2
    None = None
    Notification = {n1, n2}
    Poison = {n2}
    Slug = {slugA}
    Url = {u1, u2}
    SlugOf <- OneSlug
    InitialTables <- EveryTable
    MaxManagerStops = 1
    MaxSenderStops = 0
    MaxRestarts = 0
    MaxEdits = 1
    MaxFaults = 1
CHECK_DEADLOCK FALSE
INVARIANT NoMixedSettings
PROPERTIES
    NotificationsAreConsumed
    JobsAreSettled
    EventuallyFollowsTable

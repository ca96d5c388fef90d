CONSTANTS
    t1 = t1
    t2 = t2
    u1 = u1
    g1 = g1
    g2 = g2
    s1 = s1
    None = None
    Tab = {t1, t2}
    User = {u1}
    Grant = {g1, g2}
    Slot = {s1}
    MaxFaults = 1
SPECIFICATION Spec
PROPERTIES
    ExpiredAccessIsRenewedOrDropped
    TabsSettle
CHECK_DEADLOCK FALSE

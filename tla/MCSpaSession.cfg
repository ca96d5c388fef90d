CONSTANTS
    t1 = t1
    t2 = t2
    u1 = u1
    g1 = g1
    g2 = g2
    g3 = g3
    s1 = s1
    s2 = s2
    None = None
    Tab = {t1, t2}
    User = {u1}
    Grant = {g1, g2, g3}
    Slot = {s1, s2}
    MaxFaults = 1
SPECIFICATION Spec
SYMMETRY Anonymous
INVARIANTS
    TypeOK
    OneRenewalTimer
    TabsRenew
PROPERTY QuietLogoutsLast
CHECK_DEADLOCK FALSE

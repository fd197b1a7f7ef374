SPECIFICATION PoolSpec
CONSTANTS
    k1 = k1
    k2 = k2
    k3 = k3
    u1 = u1
    u2 = u2
    u3 = u3
    u4 = u4
    l1 = l1
    l2 = l2
    l3 = l3
    l4 = l4
    l5 = l5
    l6 = l6
    l7 = l7
    None = None
    Keys = {k1, k2, k3}
    Users = {u1, u3}
    Connections = {u3}
    Locks = {l1, l2, l3, l4, l5, l6}
    MaxLocks = 2
PROPERTIES HeldLockStays

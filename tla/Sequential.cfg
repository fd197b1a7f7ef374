SPECIFICATION FairSpec
CONSTANTS
    k1 = k1
    d1 = d1
    d2 = d2
    o1 = o1
    c1 = c1
    s1 = s1
    s2 = s2
    l1 = l1
    l2 = l2
    l3 = l3
    l4 = l4
    None = None
    Keys = {k1}
    Users = {d1, d2, o1}
    Deliveries = {d1, d2}
    Connections = {}
    Locks = {l1, l2, l3, l4}
    MaxLocks = 1
    Chats = {c1}
    ChatOf <- OneChat
    MessageOf <- MessageOfs
    KeyOf <- OneSession
    Stops = {s1, s2}
    StopChat <- StopsInChat
    OtherKeys = {k1}
    MaxExpiries = 1
INVARIANTS CancelKept HandledOnce DrainMissesFew MutualExclusion
PROPERTIES ImplementsTurns MessagesSettle

SPECIFICATION Spec
CONSTANTS
    m1 = m1
    m2 = m2
    i1 = i1
    t1 = t1
    t2 = t2
    s1 = s1
    None = None
    Messages = {m1}
    Injections = {}
    Streamed = {}
    TopicOf <- OneTopic
    Stops = {s1}
    MaxEvents = 2
    Private = TRUE
INVARIANTS StopSuppresses
CHECK_DEADLOCK FALSE

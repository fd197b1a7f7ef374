SPECIFICATION FairSpec
CONSTANTS
    m1 = m1
    m2 = m2
    i1 = i1
    t1 = t1
    t2 = t2
    s1 = s1
    None = None
    Messages = {m1, m2}
    Injections = {i1}
    Streamed = {m1}
    TopicOf <- TwoTopics
    Stops = {s1}
    MaxEvents = 1
    Private = TRUE
INVARIANTS SilenceExplained CrashAnnounced
PROPERTIES TurnsEnd
CHECK_DEADLOCK FALSE

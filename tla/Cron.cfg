SPECIFICATION FairSpec
CONSTANTS
    j1 = j1
    j2 = j2
    d1 = d1
    t1 = t1
    t2 = t2
    t3 = t3
    t4 = t4
    None = None
    Jobs = {j1, j2}
    Deps = {d1}
    Users = {t1, t2, t4}
    JobOf <- UserJob
    DepOf <- Shared
    MaxEdits = 1
INVARIANTS Sequential NoOrphans ScheduleTrue
PROPERTIES QueueMoves StopHolds
CHECK_DEADLOCK FALSE

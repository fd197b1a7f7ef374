SPECIFICATION FairSpec
CONSTANTS
    agent0 = agent0
    sub1 = sub1
    sub2 = sub2
    v1 = v1
    v2 = v2
    watcher = watcher
    cmd1 = cmd1
    cmd2 = cmd2
    shutdown = shutdown
    None = None
    Main = agent0
    Subs = {sub1}
    Slots = {1, 2}
    Configs = {v1, v2}
    Watcher = watcher
    Commands = {cmd1}
    Shutdown = shutdown
    Concurrent = FALSE
    MaxTries = 1
    MaxEdits = 2
INVARIANTS OneRun TablesAgree
PROPERTIES NoResurrection ShutdownEnds
CHECK_DEADLOCK FALSE

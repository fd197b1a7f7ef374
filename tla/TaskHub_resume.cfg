SPECIFICATION FairSpec
CONSTANTS
    t1 = t1
    t2 = t2
    c1 = c1
    c2 = c2
    main = main
    sub = sub
    Tasks = {t1}
    Chats = {c1}
    ChatOf <- OneChat
    DirOf <- TwoDirs
    DefaultDir = main
    Unheard = {}
    MaxParallel = 1
    MaxSpawns = 3
    Windows = {"resume_while_delivering", "request_while_stopping", "crash"}
INVARIANTS OneRunAtATime RunningIffRun LiveRunsTracked ShutdownLeavesNoRun
PROPERTIES ImplementsLifecycle TasksSettle

SPECIFICATION Spec
CONSTANTS
    t1 = t1
    t2 = t2
    c1 = c1
    c2 = c2
    main = main
    sub = sub
    Tasks = {t1, t2}
    Chats = {c1, c2}
    ChatOf <- OneChat
    DirOf <- TwoDirs
    DefaultDir = main
    Unheard = {t2}
    MaxParallel = 1
    MaxSpawns = 2
    Windows = {"cancel_while_delivering", "cancel_before_start", "folder_vanishes", "crash"}
INVARIANTS AdmissionBound ParentKnows FoldersMatch
PROPERTIES RemovedForGood

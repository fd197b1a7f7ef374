SPECIFICATION Spec
CONSTANTS
    n1 = n1
    ia = ia
    c1 = c1
    c2 = c2
    p1 = p1
    p2 = p2
    None = None
    Calls = {c1, c2}
    Names = {n1, ia}
    Peer = ia
    Prompts = {p1, p2}
    MaxTasks = 1
    MaxSessions = 1
SYMMETRY Symmetries
INVARIANTS OneCall RunningTrue WorkIsSaved

SPECIFICATION Spec
CONSTANTS
    k1 = k1
    k2 = k2
    c1 = c1
    c2 = c2
    user = user
    task = task
    new1 = new1
    new2 = new2
    model = model
    before = before
    Earlier = before
    None = None
    Keys = {k1, k2}
    Providers = {c1, c2}
    Topics = {k2}
    Startup = c1
    TopicDefault <- OwnDefault
    Turns = {user, task}
    Injected = {task}
    Asks <- NoAsks
    Resets = {new1, new2}
    Switches = {model}
    KeyOf <- KeysOf
    Found <- FoundBoth
INVARIANTS FileTrue
PROPERTIES OthersKept
CHECK_DEADLOCK FALSE

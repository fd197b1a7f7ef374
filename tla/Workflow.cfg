SPECIFICATION FairSpec
CONSTANTS
    c1 = c1
    MaxRuns = 2
    Chats = {c1}
    ChatOf <- OneChat
    Steps <- Review
    MaxParallel = 1
INVARIANTS RunningIsDriven WaitingIsParked StoreAgrees
PROPERTIES AdmissionBound CancelledStops RunsSettle

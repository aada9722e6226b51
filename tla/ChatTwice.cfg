SPECIFICATION Spec
CHECK_DEADLOCK FALSE
CONSTANTS
    Requests = {r1, r2}
    Turns = {t1}
    MaxCalls = 2
    MaxRounds = 1
    Batches <- OneByOne
    Sessions <- Subscriber
    NoTurn = NoTurn
    NoRequest = NoRequest
INVARIANTS
    ContinuationRunsOnce

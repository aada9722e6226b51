SPECIFICATION Spec
CHECK_DEADLOCK FALSE
CONSTANTS
    Requests = {r1}
    Turns = {t1}
    MaxCalls = 2
    MaxRounds = 1
    Batches <- OneOrTwo
    Sessions <- Subscriber
    NoTurn = NoTurn
    NoRequest = NoRequest
PROPERTIES
    SavedStepOnlyForReplay

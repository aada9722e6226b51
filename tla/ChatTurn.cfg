SPECIFICATION Spec
CHECK_DEADLOCK FALSE
CONSTANTS
    Requests = {r1, r2}
    Turns = {t1}
    MaxCalls = 2
    MaxRounds = 1
    Batches <- OneOrTwo
    Sessions <- AllSessions
    NoTurn = NoTurn
    NoRequest = NoRequest
SYMMETRY Handlers
INVARIANTS
    TypeOK
    ToolResultOnce
    BarrierHolds
    AnswersArePaid
    ChargedForAnswer
    SerialTurnAnsweredOnce
    SerialTurnNeverHangs

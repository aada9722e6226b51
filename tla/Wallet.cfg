SPECIFICATION Spec
CONSTANTS
    alice = alice
    nobody = nobody
    mine = mine
    foreign = foreign
    gone = gone
    nosession = nosession
    k1 = k1
    k2 = k2
    k3 = k3
    m1 = m1
    Users = {alice, nobody}
    Keys = {k1, k2, k3}
    Metas = {m1}
    Sessions = {mine, foreign, gone}
    NoSession = nosession
    NoUser = NoUser
    Owner <- MCOwner
    Txns = {t1, t2}
    Requests <- MCAllRequests
    LastN = 3
INVARIANTS
    TypeOK
    Conservation
    NeverOverdrawn
    KeyPostedOnce
    PostingIsWhole
    AnswerHonest
    ViewExplainsBalance
PROPERTIES
    ImplementsLedger
    EveryCallEnds

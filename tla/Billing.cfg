SPECIFICATION Spec
CONSTANTS
    u1 = u1
    u2 = u2
    d1 = d1
    h1 = h1
    h2 = h2
    s1 = s1
    s2 = s2
    s3 = s3
    Missing = Missing
    Absent = Missing
    Handlers = {h1, h2}
    Users = {u1, u2}
    Devices = {d1}
    Uuids = {u1, u2, d1}
    Calls = {"started", "updated", "expired", "synced", "bought", "called", "given", "credited"}
    Request <- OneRequest
    Sales = {s1, s2, s3}
    Payment <- Payments
    Config <- Settings
    MaxTime = 1
    MaxStarts = 2
SYMMETRY Symmetry
INVARIANTS
    TypeOK
    AnsweredIsCredited
    PaymentCreditedOnce
    OneGrantPerPeriod
    NoWaitCycle
    CallbackReconciles

PROPERTIES
    ActivationIsGranted
    IsLedger

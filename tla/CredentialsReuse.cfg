SPECIFICATION Spec
CONSTANTS
    h1 = h1
    h2 = h2
    d1 = d1
    d2 = d2
    a = a
    b = b
    k1 = k1
    k3 = k3
    Null = Null
    None = Null
    Handlers = {h1, h2}
    Users = {1, 2, 3, 4}
    Devices = {d1, d2}
    Tokens = {1, 2, 3, 4}
    Subjects = {a, b}
    AppleTokens <- Presented
    AuthConfig <- Settings
    ApiKeys = {k1, k3}
    Prefix <- KeyPrefixes
    MaxSignIns = 3
    MaxCalls = 3
SYMMETRY Symmetry
CHECK_DEADLOCK FALSE
INVARIANTS
    SingleUse

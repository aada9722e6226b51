SPECIFICATION Spec
CONSTANTS
    h1 = h1
    h2 = h2
    d1 = d1
    d2 = d2
    a = a
    b = b
    k1 = k1
    k3 = k3
    Null = Null
    None = Null
    Handlers = {h1, h2}
    Users = {1, 2, 3, 4, 5, 6, 7, 8}
    Devices = {d1, d2}
    Tokens = {1, 2, 3, 4}
    Subjects = {a, b}
    AppleTokens <- Presented
    AuthConfig <- Settings
    ApiKeys = {k1, k3}
    Prefix <- KeyPrefixes
    MaxSignIns = 4
    MaxCalls = 4
SYMMETRY Symmetry
CHECK_DEADLOCK FALSE
INVARIANTS
    AccountsTypeOK
    DeviceConverges
    IdentityConverges
    RotatedWhileOverlapping
    FirstSignInKeepsAccount
    SerialKeyIsWhole

SPECIFICATION Spec
CHECK_DEADLOCK FALSE
CONSTANTS
    h1 = h1
    h2 = h2
    w1 = w1
    p1 = p1
    p2 = p2
    Nobody = Nobody
    NoWorkspace = NoWorkspace
    Handlers = {h1, h2}
    Workspaces = {w1}
    Paths = {p1, p2}
    Keys = {"user", "device", "ip"}
    Worlds <- MCWorlds
    Limit <- MCLimit
    WorkspaceMax <- MCWorkspaceMax
    SiteMax <- MCSiteMax
    Window = 2
    MaxTime = 2
    ImageCost = 1
    ImageTtl = 1
    SweepInterval = 1
    SweepBatch = 1
    MaxSessions = 2
    SessionTtl = 1
SYMMETRY HandlerSymmetry
INVARIANTS
    ChatTypeOK
    WindowBound
    
    ImagesPaidAndKept
    NoOrphanResult
    CallsHaveUses
    FreeAnswersOverlap
    ChargedWhenAnswered

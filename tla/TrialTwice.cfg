SPECIFICATION Spec
CHECK_DEADLOCK FALSE
CONSTANTS
    h1 = h1
    h2 = h2
    w1 = w1
    p1 = p1
    p2 = p2
    Nobody = Nobody
    NoWorkspace = NoWorkspace
    Handlers = {h1, h2, h3}
    Workspaces = {w1}
    Paths = {p1, p2}
    Keys = {"user", "device", "ip"}
    Worlds <- TrialWorlds
    Limit <- MCLimit
    WorkspaceMax <- MCWorkspaceMax
    SiteMax <- MCSiteMax
    Window = 2
    MaxTime = 2
    ImageCost = 1
    ImageTtl = 1
    SweepInterval = 1
    SweepBatch = 1
    MaxSessions = 1
    SessionTtl = 1
SYMMETRY HandlerSymmetry
INVARIANT
    OneExtraTrial

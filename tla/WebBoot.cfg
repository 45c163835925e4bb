SPECIFICATION Spec
CONSTANTS
    Handlers = {h1, h2}
    MaxRequests = 3
    MaxFaults = 1
    MaxBoots = 1
    MaxTokens = 2
    MaxLoginAttempts = 2
    LoginWindow = 1
    LoginBlock = 3
    MaxNow = 6
    MaxFailures = 4
    Clients = {c1, c2}
    Uploads = {"a"}
    MaxModelRequests = 4
    MaxModelFaults = 1
    MaxKills = 1
    FrameCapacity = 1
    EventCapacity = 2
    MaxScenes = 4
    MaxRespawns = 2
    KindSets = {{"flip"}}
    Parts = {"web"}
INVARIANT FileLoads
CHECK_DEADLOCK FALSE

CONSTANTS
    s1 = s1
    s2 = s2
    t1 = t1
    t2 = t2
    Sources <- TwoSources
    Hosts <- OneHost
    Shapes <- TwoShapes
    Packets <- SomePackets
    Side <- OneThread
    Alike = 80
    Decay <- TenMinutes
    Horizon = 9
    AlertCooldown = 1
    BlockCooldown = 3
    CampaignWin = 3
    FloodWin = 3
    FloodSize = 3
    Lookback = 2
    MinEvents = 2
    Crowd = 1
    MaxPackets = 3
    MaxFaults = 1
    Pauses <- Waits
SPECIFICATION LearnSpec
INVARIANTS  MistakesLeaveLessons CampaignsAreRuns
\* the pipeline rests when no packet is left
CHECK_DEADLOCK FALSE

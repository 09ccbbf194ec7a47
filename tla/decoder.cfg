CONSTANTS
    d1 = d1
    d2 = d2
    Decoders <- TwoDecoders
    Sources <- TwoSources
    Hosts <- TwoHosts
    Classes <- ThreeClasses
    AlertCooldown = 1
    HystHold = 2
    BlockCooldown = 3
    RepeatWin = 3
    DistWin = 3
    EscalateWin = 5
    CampaignIdle = 5
    SlowWin = 6
    RepeatN = 3
    DistSources = 2
    SlowN = 4
    Patterns <- Lateral
    Kinds <- AllKinds
    Pauses <- Waits
    MaxCalls = 4
SPECIFICATION Spec
INVARIANTS BlockNeedsCause ChainsAreReal OneCampaignPerClass
\* no call is left
CHECK_DEADLOCK FALSE

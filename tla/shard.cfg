CONSTANTS
    p1 = p1
    p2 = p2
    k1 = k1
    k2 = k2
    main = main
    Producers <- OneProducer
    Control = main
    Keys <- OneKey
    NShards = 1
    ShardOf <- SameShard
    Policies <- EveryPolicy
    Capacity = 2
    SampleRate = 2
    MaxMissed = 1
    AutoRestart = TRUE
    Hanging <- Nothing
    MaxEvents = 3
    MaxFlushes = 1
SPECIFICATION FairSpec
INVARIANTS EntityOrder NothingVanishes DropsReported
PROPERTIES AcceptedIsFinished ShutdownReturns
CHECK_DEADLOCK FALSE

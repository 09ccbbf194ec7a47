CONSTANTS
    p1 = p1
    p2 = p2
    c1 = c1
    c2 = c2
    Producers <- TwoProducers
    Callbacks <- TwoCallbacks
    Capacity = 2
    MaxEmits = 3
SPECIFICATION FairSpec
INVARIANTS FramesInOrder Accounted HandlersAgree
PROPERTIES ImplementsFairFifo NothingWaitsForever
\* the system may stop once every producer has emitted its frames
CHECK_DEADLOCK FALSE

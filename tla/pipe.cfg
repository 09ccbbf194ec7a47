CONSTANTS
    cnn1 = cnn1
    rnn1 = rnn1
    dec1 = dec1
    val1 = val1
    db1 = db1
    db2 = db2
    StageOf <- StageOfSome
    Workers <- OnePerStage
    Capacity = 1
    MaxPackets = 2
    Labelled <- FirstOnly
    Sourced <- FirstOnly
SPECIFICATION FairSpec
INVARIANTS OnePlace BlockedOnlyAfter LogInOrder
PROPERTIES AcceptedIsFinished LoggedBlockIsEnforced
\* the pipeline rests when nothing is submitted, and ends after stop()
CHECK_DEADLOCK FALSE

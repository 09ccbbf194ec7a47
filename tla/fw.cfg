CONSTANTS
    a = a
    b = b
    w1 = w1
    w2 = w2
    op = op
    Ips <- TwoIps
    Platform = "linux"
    Blockers <- OneWorker
    Operators <- OneOperator
    MaxCommands = 4
    MaxRestarts = 1
SPECIFICATION Spec
SYMMETRY Symmetry
INVARIANTS CurrentlyBlockedAtFirst RulesAreTracked NothingForgotten
CHECK_DEADLOCK FALSE

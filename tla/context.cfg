\* The synchronous pipeline: one worker, two sources, segments of at most three.
CONSTANTS
    Sources = {s1, s2}
    Workers = {w1}
    None = None
    Scores = {10, 60, 90}
    Drifts = {0, 2, 9, 13}
    FlushN = 3
    FlushT = 2
    Ticks <- TickRates
    Gain = 1
    MaxPackets = 5
    MaxTime = 3
SPECIFICATION Spec
INVARIANTS EveryPacketInOneSegment DriftNeedsSlowTick
PROPERTIES SegmentsStayYoung
CHECK_DEADLOCK FALSE

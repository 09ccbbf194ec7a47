\* Either mode, and two clients, who send two lines each, the second with a character of
\* several bytes.
CONSTANTS
    Clients = {c1, c2}
    None = None
    Modes = {"synthetic", "live"}
    Wide = {2}
    Lines = 2
SPECIFICATION FairSpec
INVARIANTS LinesArriveWhole MadeUpAlone
PROPERTIES TrafficResumes
CHECK_DEADLOCK FALSE

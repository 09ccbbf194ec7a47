CONSTANTS
    dispatch = dispatch
    background = background
    Loggers <- Dispatch
    Exporters <- Background
    MaxPerScope = 1
    Expiring = TRUE
    MaxEvents = 2
    MaxFaults = 2
SPECIFICATION FairDbSpec
INVARIANTS IdsAreDistinct 
 

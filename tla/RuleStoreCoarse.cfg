\* One front end, no fault, coarse timestamps.
CONSTANTS
    FrontEnds = {f1}
    Texts <- MCTexts
    Names <- MCNames
    NoName = NoName
    IdText <- MCIdText
    DefaultName <- MCDefaultName
    Faults = {}
    FineStamps = FALSE
    MaxId = 2
    MaxOps = 2
    MaxFaults = 0
SPECIFICATION FairSpec
CHECK_DEADLOCK FALSE
PROPERTIES DaemonFollowsFile

\* One front end, and no fault but a daemon that may be killed.
CONSTANTS
    FrontEnds = {f1}
    Texts <- MCTexts
    Names <- MCNames
    NoName = NoName
    IdText <- MCIdText
    DefaultName <- MCDefaultName
    Faults = {"daemon"}
    FineStamps = TRUE
    MaxId = 2
    MaxOps = 5
    MaxFaults = 1
SPECIFICATION FairSpec
CHECK_DEADLOCK FALSE
INVARIANTS RestartsKeepRules
PROPERTIES NoDisarm RefinesBook DaemonFollowsFrontEnd

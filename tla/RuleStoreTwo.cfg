\* Two front ends, every fault, a timestamp per write.
CONSTANTS
    FrontEnds = {f1, f2}
    Texts <- MCTexts
    Names <- MCNames
    NoName = NoName
    IdText <- MCIdText
    DefaultName <- MCDefaultName
    Faults = {"open", "write", "kill", "daemon"}
    FineStamps = TRUE
    MaxId = 2
    MaxOps = 3
    MaxFaults = 1
SPECIFICATION FairSpec
CHECK_DEADLOCK FALSE
INVARIANTS UniqueIds
PROPERTIES DaemonFollowsFile

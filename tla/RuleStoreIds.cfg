\* Two front ends, no fault.
CONSTANTS
    FrontEnds = {f1, f2}
    Texts <- MCTexts
    Names <- MCNames
    NoName = NoName
    IdText <- MCIdText
    DefaultName <- MCDefaultName
    Faults = {}
    FineStamps = TRUE
    MaxId = 2
    MaxOps = 2
    MaxFaults = 0
SPECIFICATION Spec
CHECK_DEADLOCK FALSE
INVARIANTS IdsAgree

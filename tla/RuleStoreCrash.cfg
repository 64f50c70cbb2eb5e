\* One front end that may be killed inside a save.
CONSTANTS
    FrontEnds = {f1}
    Texts <- MCTexts
    Names <- MCNames
    NoName = NoName
    IdText <- MCIdText
    DefaultName <- MCDefaultName
    Faults = {"kill"}
    FineStamps = TRUE
    MaxId = 2
    MaxOps = 2
    MaxFaults = 1
SPECIFICATION Spec
CHECK_DEADLOCK FALSE
INVARIANTS RulesSurvive

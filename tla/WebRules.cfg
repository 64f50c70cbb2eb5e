\* A front end's command, another process's save and two polls that overlap.
CONSTANTS
    Handlers = {h1, h2}
    MaxOps = 1
    MaxSaves = 1
SPECIFICATION RulesFairSpec
CHECK_DEADLOCK FALSE
PROPERTIES ResponsesAreWhole ListCatchesUp

\* Two polls that overlap.
CONSTANTS
    Handlers = {h1, h2}
    MaxOps = 0
    MaxSaves = 0
SPECIFICATION RulesSpec
CHECK_DEADLOCK FALSE
INVARIANT NoRuleTwice

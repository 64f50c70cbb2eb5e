\* A command that a poll interrupts.
CONSTANTS
    Handlers = {h1}
    MaxOps = 1
    MaxSaves = 0
SPECIFICATION RulesSpec
CHECK_DEADLOCK FALSE
INVARIANT RulesSurvive

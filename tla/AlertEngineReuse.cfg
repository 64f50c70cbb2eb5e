\* Ids that come back for another rule.
CONSTANTS
    Ids = {1, 2}
    Metrics = {m1}
    Operators = {">", "<="}
    Thresholds = {0}
    Values = {0, 1}
    None = None
    Unread = Unread
    Cooldown = 2
    MaxElapsed = 0
    MaxBack = 0
    IdsReused = TRUE
    MaxFaults = 0
SPECIFICATION FairSpec
CHECK_DEADLOCK FALSE
INVARIANTS BreachIsShown

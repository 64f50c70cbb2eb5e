\* Evaluations that take time.
CONSTANTS
    Ids = {1, 2}
    Metrics = {m1}
    Operators = {">", "<="}
    Thresholds = {0}
    Values = {0, 1}
    None = None
    Unread = Unread
    Cooldown = 3
    MaxElapsed = 1
    MaxBack = 0
    IdsReused = FALSE
    MaxFaults = 0
SPECIFICATION FairSpec
CHECK_DEADLOCK FALSE
PROPERTIES RepeatsFullySpaced

\* A daemon dies, and the next one dispatches what the last one just did.
CONSTANTS
    Ids = {1, 2}
    Metrics = {m1}
    Operators = {">", "<="}
    Thresholds = {0}
    Values = {0, 1}
    None = None
    Unread = Unread
    Cooldown = 3
    MaxElapsed = 0
    MaxBack = 0
    IdsReused = FALSE
    MaxFaults = 1
SPECIFICATION Spec
CHECK_DEADLOCK FALSE
PROPERTIES RepeatsFullySpaced

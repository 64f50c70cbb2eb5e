\* A clock that is set back keeps a rule silent for longer than the cooldown (SilentForCooldown is violated).
CONSTANTS
    Ids = {1, 2}
    Metrics = {m1}
    Operators = {">", "<="}
    Thresholds = {0}
    Values = {0, 1}
    None = None
    Unread = Unread
    Cooldown = 4
    MaxElapsed = 1
    MaxBack = 2
    IdsReused = FALSE
    MaxFaults = 0
SPECIFICATION Spec
CHECK_DEADLOCK FALSE
INVARIANTS SilentForCooldown

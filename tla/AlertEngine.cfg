\* Two rules over one metric, delays of up to a second, a log that fails or a daemon that dies.
CONSTANTS
    Ids = {1, 2}
    Metrics = {m1}
    Operators = {">", "<="}
    Thresholds = {0}
    Values = {0, 1}
    None = None
    Unread = Unread
    Cooldown = 4
    MaxElapsed = 1
    MaxBack = 1
    IdsReused = FALSE
    MaxFaults = 1
SPECIFICATION FairSpec
CHECK_DEADLOCK FALSE
INVARIANTS BreachIsShown OneReadingPerTick
PROPERTIES RepeatsSpaced PersistentBreachIsLogged

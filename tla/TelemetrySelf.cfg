\* A standalone receiver on its own.
CONSTANTS
    Nodes = {n1}
    Procs = {p1}
    Standalone = {p1}
    None = None
    OnlineThreshold = 1
    StaleThreshold = 2
    MaxSyncs = 2
    MaxGivenUp = 0
SPECIFICATION Spec
CHECK_DEADLOCK FALSE
PROPERTIES ReadingsNeverRegress

\* One node; a dashboard and a standalone receiver; overlapping syncs; a push given up.
CONSTANTS
    Nodes = {n1}
    Procs = {p1, p2}
    Standalone = {p1}
    None = None
    OnlineThreshold = 0
    StaleThreshold = 1
    MaxSyncs = 2
    MaxGivenUp = 1
SPECIFICATION FairSpec
CHECK_DEADLOCK FALSE
INVARIANTS OnlineIsEarned
PROPERTIES ReadingsAdvance ReadersCatchUp

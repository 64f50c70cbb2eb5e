\* Three spawned processes, two of which may end.
CONSTANTS
    Daemons = {d1, d2, d3}
    None = None
    MaxEnds = 2
SPECIFICATION FairSpec
CHECK_DEADLOCK FALSE
INVARIANTS OneDaemon PidFileNamesDaemon LockIsLive
PROPERTIES SpawnBringsDaemon

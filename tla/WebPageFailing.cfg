\* The metrics fail for good, the other requests do not.
CONSTANTS
    Endpoints = {"metrics", "rules"}
    None = None
    Reading = Reading
    MaxPolls = 2
    MaxWorkers = 1
    MaxChanges = 1
SPECIFICATION FairSpec
CHECK_DEADLOCK FALSE
PROPERTIES CardsCatchUp

\* Two endpoints, polls that overlap, a sensor cache with its worker, a change of what is shown.
CONSTANTS
    Endpoints = {"metrics", "rules"}
    None = None
    Reading = Reading
    MaxPolls = 2
    MaxWorkers = 1
    MaxChanges = 1
SPECIFICATION FairSpec
CHECK_DEADLOCK FALSE
INVARIANT OneTimer
PROPERTIES BackOnlyIfOvertaken PageCatchesUp

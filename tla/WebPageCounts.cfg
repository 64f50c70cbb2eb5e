\* A tab that is stayed on, and the count on it.
CONSTANTS
    Endpoints = {"metrics", "rules"}
    None = None
    Reading = Reading
    MaxPolls = 2
    MaxWorkers = 1
    MaxChanges = 1
SPECIFICATION Spec
CHECK_DEADLOCK FALSE
INVARIANT CountsAgree

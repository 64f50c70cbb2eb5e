\* Responses of two polls are rendered in the other order.
CONSTANTS
    Endpoints = {"metrics", "rules"}
    None = None
    Reading = Reading
    MaxPolls = 2
    MaxWorkers = 1
    MaxChanges = 1
SPECIFICATION Spec
CHECK_DEADLOCK FALSE
PROPERTIES NeverBack

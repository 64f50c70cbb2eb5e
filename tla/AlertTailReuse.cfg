\* An id that is removed and given again between two ticks.
CONSTANTS
    Names = {n1, n2}
    Ids = {1}
    Unseen = Unseen
    HastyReuse = TRUE
    MaxLines = 3
SPECIFICATION Spec
CHECK_DEADLOCK FALSE
INVARIANTS NoReplay

\* Two rules, which may share a log, and a user who lets a tick pass before reusing an id.
CONSTANTS
    Names = {n1}
    Ids = {1, 2}
    Unseen = Unseen
    HastyReuse = FALSE
    MaxLines = 4
SPECIFICATION FairSpec
CHECK_DEADLOCK FALSE
INVARIANTS NoneOverlooked NoReplay
PROPERTIES AlertsSurfaced

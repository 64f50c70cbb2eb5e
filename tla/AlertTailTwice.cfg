\* Lines that are appended between the stat and the read.
CONSTANTS
    Names = {n1}
    Ids = {1, 2}
    Unseen = Unseen
    HastyReuse = FALSE
    MaxLines = 3
SPECIFICATION Spec
CHECK_DEADLOCK FALSE
INVARIANTS SurfacedOnce

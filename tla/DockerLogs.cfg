\* What a container writes is taken for the daemon's words.
CONSTANTS
    Names = {n1, n2}
    LogKinds = {"none", "lines", "misleading"}
    MaxChanges = 2
SPECIFICATION Spec
INVARIANTS LogsAreTrue

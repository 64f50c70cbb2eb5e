\* Two containers, two changes during a question; logs without misleading lines.
CONSTANTS
    Names = {n1, n2}
    LogKinds = {"none", "lines"}
    MaxChanges = 2
SPECIFICATION Spec
INVARIANTS RowsAreSnapshot FailureIsTrue PageIsTrue LogsAreTrue

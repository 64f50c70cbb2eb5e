\* The daemon stops answering after the page has reached it.
CONSTANTS
    Names = {n1, n2}
    LogKinds = {"none", "lines"}
    MaxChanges = 2
SPECIFICATION Spec
INVARIANTS ReachableIsListed

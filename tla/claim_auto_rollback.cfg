SPECIFICATION Spec
CONSTANTS
    a1 = a1
    w1 = w1
    Apps = {a1}
    Workers = {w1}
    AutoRollbackApps = {a1}
    Inputs = {"deploy"}
    MaxRequests = 1
    MaxCrashes = 0
INVARIANT AutoRollbackOnlyAfterFailure
CHECK_DEADLOCK FALSE

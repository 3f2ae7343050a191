SPECIFICATION Spec
CONSTANTS
    a1 = a1
    a2 = a2
    w1 = w1
    w2 = w2
    Apps = {a1, a2}
    Workers = {w1, w2}
    AutoRollbackApps = {a1}
    Inputs = {"push", "cancel", "slow"}
    MaxRequests = 2
    MaxCrashes = 1
INVARIANT TypeOK
INVARIANT RunningIsOwned
INVARIANT ExclusiveExecution
INVARIANT CancelHonoured
PROPERTY FinalStatusIsFinal
PROPERTY ImplementsLifecycle
SYMMETRY WorkerSymmetry
CHECK_DEADLOCK FALSE

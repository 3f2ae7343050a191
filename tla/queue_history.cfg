SPECIFICATION FairSpec
CONSTANTS
    a1 = a1
    w1 = w1
    Apps = {a1}
    Workers = {w1}
    AutoRollbackApps = {a1}
    Inputs = {"deploy", "rollback", "cancel"}
    MaxRequests = 3
    MaxCrashes = 1
INVARIANT ImageProvenance
INVARIANT AutoRollbackBounded
INVARIANT NewestSuccessIsReleased
PROPERTY JobsEnd
CHECK_DEADLOCK FALSE

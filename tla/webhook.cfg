SPECIFICATION Spec
CONSTANTS
    r1 = r1
    r2 = r2
    r3 = r3
    named = named
    foreign = foreign
    Requests = {r1, r2, r3}
    Deliveries = {named, foreign}
    Identified = {named}
    Foreign = {foreign}
    Limit = 1
    MaxChanges = 1
    MaxCrashes = 1
INVARIANT AtMostOnce
INVARIANT LimitIsKept
INVARIANT QueuedOnlyWhenAllowed
SYMMETRY RequestSymmetry
CHECK_DEADLOCK FALSE

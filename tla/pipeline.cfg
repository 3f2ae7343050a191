SPECIFICATION Spec
CONSTANTS
    Jobs = {1, 2}
    Apps = {git, dir}
    Local = {dir}
    Revisions = 2
    OwnIgnore = {2}
    Limit = 3
    Watched = {2}
    MaxCrashes = 1
INVARIANTS EvidenceIsBuilt IgnoreIsRight 
PROPERTY StreamDelivers
CHECK_DEADLOCK FALSE

SPECIFICATION Spec
CONSTANTS
    Checks <- DiskAndDeployment
    Blind <- DiskOnly
    Restored = {"MD-P0-03 app"}
    MaxErrors = 1
    MaxCrashes = 1
INVARIANT NoDuplicates
PROPERTY ResolvedOnlyIfGone
PROPERTY AlertsSettle

SPECIFICATION BackupsSpec
CONSTANTS
    BackupRetention = 2
    Providers = {"local", "s3"}
    MaxSeconds = 3
    Budgets <- DatabaseBudgets
INVARIANT SchemaComplete
INVARIANT BackupRemains
PROPERTY OpensInTheEnd
CHECK_DEADLOCK FALSE

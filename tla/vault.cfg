SPECIFICATION Spec
CONSTANTS
    o1 = o1
    o2 = o2
    NoKey = NoKey
    Operators = {o1, o2}
    MaxFailures = 2
    Names = {1, 2}
    Values = {1, 2}
    Budgets <- EnvironmentBudgets
INVARIANT GuessesBounded
INVARIANT SecretsReadable
INVARIANT DeploymentIsWhole
INVARIANT RollbackRestores
SYMMETRY OperatorSymmetry
CHECK_DEADLOCK FALSE

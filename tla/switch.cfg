SPECIFICATION Spec
CONSTANTS
    Scenarios <- SwitchScenarios
    MaxReleases = 4
INVARIANTS RouteServes IdleRouteIsProven ReleaseKept SuccessServes
PROPERTY RestartServes
CHECK_DEADLOCK FALSE

SPECIFICATION Spec
CONSTANTS
    MaxRepairs = 2
    RecursionLimit = 41
    MaxGenerations = 1
    Deployments <- MCOneDeployment
    Flaky = {}
INVARIANTS FailedRepairEndsPlanning
CHECK_DEADLOCK FALSE

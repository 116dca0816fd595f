SPECIFICATION Spec
CONSTANTS
    MaxRepairs = 2
    RecursionLimit = 41
    MaxGenerations = 1
    Deployments <- MCDeployments
    Flaky <- MCFlaky
INVARIANTS TypeOK LoopsBounded ReportsDescribeThePlan RepairedPlanIsReplanned
CHECK_DEADLOCK FALSE

SPECIFICATION FairSpec
CONSTANTS
    g1 = g1
    g2 = g2
    walk = walk
    places = places
    Generations <- MCGenerations
    Requests <- MCRequests
    Routes <- MCRoutes
    Credits <- MCCredits
    Budget = 2
    Allowance = 2
    GenerationSlots = 1
    ProcessSlots = 1
    Workers = 2
    MaxBatches <- MCMaxBatches
INVARIANTS TypeOK BudgetHolds ReservationsAreOpen WireWithinLimits NoSecondRequest
PROPERTIES EveryBatchEnds
CHECK_DEADLOCK FALSE

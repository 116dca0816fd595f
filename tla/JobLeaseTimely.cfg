SPECIFICATION FairSpec
CONSTANTS
    Job = {j1, j2}
    Trip = {t1, t2}
    Instance = {i1, i2}
    Nobody = Nobody
    NoTrip = NoTrip
    LeaseSeconds = 2
    HeartbeatInterval = 1
    MaxHeartbeatGap = 2
    StaleAfter = 2
    MaxConcurrent = 1
    Redelivery = FALSE
INVARIANTS ActiveWithinLimit
PROPERTIES BeatingJobIsSafe EveryJobSettles

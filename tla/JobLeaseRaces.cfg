SPECIFICATION Spec
CONSTANTS
    Job = {j1, j2}
    Trip = {t1}
    Instance = {i1, i2}
    Nobody = Nobody
    NoTrip = NoTrip
    LeaseSeconds = 2
    HeartbeatInterval = 1
    MaxHeartbeatGap = 3
    StaleAfter = 2
    MaxConcurrent = 0
    Redelivery = TRUE
SYMMETRY Symmetry
INVARIANTS TypeOK OneActivePerTrip WorkIsClaimed
PROPERTIES ValidLeaseRespected VerdictIsTheOwners LifecycleSpec

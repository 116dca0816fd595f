SPECIFICATION Spec
CONSTANTS
    User = {u1, u2}
    Trip = {t1, t2}
    Job = {j1, j2, j3}
    NoUser = NoUser
    NoTrip = NoTrip
    NoUsage = NoUsage
    Window = 2
    UserLimit = 1
    GlobalLimit = 2
    MaxConcurrent = 0
    MaxTrips = 1
    MaxDelay = 1
SYMMETRY Symmetry
INVARIANT NoOwnerlessTrip

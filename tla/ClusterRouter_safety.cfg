\* Two requests of one or two users for one cluster, which may be deleted at any time.
SPECIFICATION Spec
CONSTANTS
    Clusters = {c1}
    Users = {u1, u2}
    Requests = {r1, r2}
    Setups <- SomeSetups
    TTL = 2
    BuildTime = 1
    Budget = 2
    LookupTime = 1
    MaxTime = 4
SYMMETRY Symmetry
INVARIANTS
    TypeOK
    OwnIdentity
    BoundedServing
    EvictionIsComplete
    FailureHasCause
CHECK_DEADLOCK FALSE

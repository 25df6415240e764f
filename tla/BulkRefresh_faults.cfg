SPECIFICATION Spec
CONSTANTS
    Procs = {p1}
    Requests = {r1, r2}
    Scopes = {s1, s2}
    Names = {1}
    Wide = s1
    Asker = r1
    AsksFor <- MCAsksFor
    MayLeave = {r1, r2}
    Deletable = {1}
    InScope <- MCInScope
    QueueDepth = 1
    BatchSize = 1
    MaxTargets = 3
    MaxRetries = 2
    MaxGen = 2
    MaxStops = 1
    MaxPanics = 1
    MaxFaults = 1
INVARIANTS
    TypeOK
    ExclusiveScope
    ActiveIsOwned
    SuccessMeansPatched
CHECK_DEADLOCK FALSE
SYMMETRY Symmetry

SPECIFICATION FairSpec
CONSTANTS
    Procs = {p1}
    Requests = {r1, r2}
    Scopes = {s1, s2}
    Wide = s1
    Asker = r1
    AsksFor <- MCOneWide
    MayLeave = {r2}
    Deletable = {}
    Names = {1, 2, 3}
    InScope <- MCNarrowScopes
    QueueDepth = 1
    BatchSize = 2
    MaxTargets = 3
    MaxRetries = 2
    MaxGen = 1
    MaxStops = 1
    MaxPanics = 1
    MaxFaults = 0
INVARIANTS
    ReportIsExact
PROPERTIES
    JobsEnd
CHECK_DEADLOCK FALSE

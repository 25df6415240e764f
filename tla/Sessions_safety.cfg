SPECIFICATION Spec
CONSTANTS
    Users = {"ann", "bob"}
    Logins = {"ann", "bob"}
    Placements <- MCPlacements
    Owner <- MCOwner
    Handlers = {h1, h2}
    NoSession = NoSession
    Never = Never
    Grace = 1
    AccessTTL = 2
    RefreshTTL <- MCRefreshTTL
    MaxTokens = 3
    MaxTime = 3
SYMMETRY Symmetry
CHECK_DEADLOCK FALSE
INVARIANTS
    TypeOK
    OneToken
    SessionNotLost
    RemovedLosesAccess
    RejectedStaysOut

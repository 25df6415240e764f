SPECIFICATION Spec
CONSTANTS
    Clients = {c1, c2}
    Kinds = {pods}
    AlwaysAllow = {pods}
    Namespaces = {}
    AllNs = allNs
    SubIDs = {1}
    NoSub = noSub
    MaxClients = 1
    MaxSubscriptions = 1
    SendBuffer = 1
    SubBuffer = 1
    EventBuffer = 1
    MaxEvents = 1
INVARIANTS
    TypeOK
    RegisteredMeansOpen
    CountMatches
PROPERTIES
    ServedOrDisconnected
CHECK_DEADLOCK FALSE
SYMMETRY Symmetry

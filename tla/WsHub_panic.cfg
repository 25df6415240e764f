SPECIFICATION Spec
CONSTANTS
    Clients = {c1}
    Kinds = {pods}
    AlwaysAllow = {}
    Namespaces = {n1}
    AllNs = allNs
    SubIDs = {1}
    NoSub = noSub
    MaxClients = 1
    MaxSubscriptions = 2
    SendBuffer = 1
    SubBuffer = 1
    EventBuffer = 1
    MaxEvents = 2
INVARIANTS
    NoSendPanic
CHECK_DEADLOCK FALSE

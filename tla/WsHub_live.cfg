SPECIFICATION FairSpec
CONSTANTS
    Clients = {c1}
    Kinds = {pods}
    AlwaysAllow = {}
    Namespaces = {}
    AllNs = allNs
    SubIDs = {1}
    NoSub = noSub
    MaxClients = 1
    MaxSubscriptions = 1
    SendBuffer = 1
    SubBuffer = 1
    EventBuffer = 1
    MaxEvents = 1
PROPERTIES
    RemovedIsDisconnected
    RevocationSticks
    LostIsUnregistered
CHECK_DEADLOCK FALSE

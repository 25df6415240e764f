\* One cluster, the loop and one administrator, two failures or restarts.
SPECIFICATION FairSpec
CONSTANTS
    Clusters = {c1}
    Setups <- SomeSetups
    Loop = loop
    Testers = {t1}
    MaxMoods = 2
    MaxFaults = 2
INVARIANTS
    TypeOK
    CallsChain
    ConnectedIsUsable
PROPERTIES
    StatusSettles
CHECK_DEADLOCK FALSE

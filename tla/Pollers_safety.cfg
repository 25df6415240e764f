\* One name, created twice, over two units of time and with one fault.
SPECIFICATION Spec
CONSTANTS
    n1 = n1
    Names <- OneName
    Window = 1
    SeedWindow = 1
    MaxTime = 2
    MaxBirths = 2
    MaxFaults = 1
INVARIANTS
    TypeOK
    Told
PROPERTIES
    NoRepeat
CHECK_DEADLOCK FALSE

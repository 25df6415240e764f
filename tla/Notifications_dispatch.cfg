\* Two callers, two administrators, one chat channel with a rule for it, a queue
\* and a semaphore of one.
SPECIFICATION FairSpec
CONSTANTS
    e1 = e1
    login = login
    chat = chat
    mail = mail
    Boot = boot
    Events = {e1}
    Sources <- MCSources
    Severities <- MCSeverities
    SourceOf <- MCSourceOf
    SeverityOf <- MCSeverityOf
    Audit = {}
    Emitters = {p1, p2}
    Admins = {a1, a2}
    Chats = {chat}
    Mails = {}
    Rules <- ChatRules
    QueueSize = 1
    Semaphore = 1
    Window = 1
    Day = 2
    Limit = 3
    MaxTime = 1
    MaxRows = 3
    MaxWrites = 2
    MaxFaults = 1
INVARIANTS
    TypeOK
    FewDuplicates
PROPERTIES
    DeletedGetsNothing
    QueueDrains
CHECK_DEADLOCK FALSE

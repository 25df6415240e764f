\* One caller with an event and an audit event, one administrator, one e-mail
\* channel with two rules for it, over two units of time.
SPECIFICATION Spec
CONSTANTS
    e1 = e1
    login = login
    chat = chat
    mail = mail
    Boot = boot
    Events = {e1, login}
    Sources <- MCSources
    Severities <- MCSeverities
    SourceOf <- MCSourceOf
    SeverityOf <- MCSeverityOf
    Audit = {login}
    Emitters = {p1}
    Admins = {a1}
    Chats = {}
    Mails = {mail}
    Rules <- MailRules
    QueueSize = 1
    Semaphore = 1
    Window = 1
    Day = 1
    Limit = 2
    MaxTime = 2
    MaxRows = 3
    MaxWrites = 1
    MaxFaults = 1
INVARIANTS
    NeverSkips
CHECK_DEADLOCK FALSE

\* One worker, so that claudes come one after the other.
SPECIFICATION TreeSpec
\* No request may be left.
CHECK_DEADLOCK FALSE
CONSTANTS
    p1 = p1
    p2 = p2
    w1 = w1
    chat = chat
    None = None
    User = User
    Home = p1
    Elsewhere = p2
    Projects = {p1}
    MaxTasks = 2
    MaxPriority = 0
    Workers = {w1}
    Services = {chat}
    Reapers = {}
    PathPrefix <- NoPrefix
    RawPriorities = {0}
    Requests = {"enqueue", "retry", "reply", "cancel"}
    IdleExit = FALSE
    SlowPrep = FALSE
    MaxFaults = 0
    Verdicts = {"reads", "unknown"}
    MaxTokens = 1
INVARIANTS
    
    WorkStaysOnItsBranch
    ResetsAreConfirmed

    

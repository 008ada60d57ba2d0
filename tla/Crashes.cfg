SPECIFICATION FairClaudeSpec
CONSTANTS
    p1 = p1
    p2 = p2
    w1 = w1
    w2 = w2
    chat = chat
    email = email
    None = None
    Projects = {p1}
    MaxTasks = 2
    MaxPriority = 1
    Workers = {w1, w2}
    Services = {email}
    Reapers = {email}
    PathPrefix <- NoPrefix
    RawPriorities = {0}
    Requests = {"enqueue", "cancel"}
    IdleExit = TRUE
    SlowPrep = TRUE
    MaxFaults = 1
INVARIANTS
    RunsAtMostOnce
    NothingGoesStale

    

\* Two threads in one process, one in another.
SPECIFICATION FairTxSpec
\* All calls may be made.
CHECK_DEADLOCK FALSE
CONSTANTS
    k1 = k1
    k2 = k2
    a1 = a1
    a2 = a2
    b1 = b1
    chat = chat
    email = email
    None = None
    Tasks = {k1}
    Statuses = {"stalled", "waiting"}
    Conns = {chat, email}
    Threads = {a1, a2, b1}
    ConnOf <- Owners
    MaxCalls = 3
    MaxFaults = 1
INVARIANTS
    NewsOnly
    ReturnsMeanCommits
    
PROPERTIES
    ImplementsEnvelopes
    CallsEnd

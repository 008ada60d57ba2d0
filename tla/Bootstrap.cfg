\* A session's installer and a batch over two projects, in any order.
SPECIFICATION BootSpec
\* No process need start again.
CHECK_DEADLOCK FALSE
CONSTANTS
    p1 = p1
    p2 = p2
    session = session
    script = script
    Projects = {p1, p2}
    Writers = {session, script}
    Route <- MCRoute
    Foreign = {"lint"}
    Matchers = {"", "Bash", "Edit", "m"}
    Given <- MCGiven
    Places <- MCPlaces
    MaxStarts = 3
    MaxUpsets = 1
INVARIANTS
    AloneItHeals
    OthersKept

\* Two agents of a directory, and everything that writes their rows, with a crash
\* or a restart.
SPECIFICATION AgentBusSpec
\* Users may open no more sessions and send no more mail.
CHECK_DEADLOCK FALSE
CONSTANTS
  Names = {a, b}
  BaseName = a
  MaxMessages = 1
  Sessions = {s1, s2}
  Operations = {"export", "spawn", "check", "register", "rejoin", "deregister", "cleanup"}
  MaxFailures = 1
  MaxOpened = 1
  MaxFaults = 1
  NoPid = NoPid
  Dead = Dead
  Nobody = Nobody
INVARIANTS
  AgentBusTypeOK
  NothingLost
  
SYMMETRY Slots

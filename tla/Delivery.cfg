\* Two sessions and the wake turns of one agent, two messages.
SPECIFICATION FairBusSpec
\* Users may open no more sessions and send no more mail.
CHECK_DEADLOCK FALSE
CONSTANTS
  Names = {a}
  BaseName = a
  MaxMessages = 2
  Sessions = {s1, s2}
  Operations = {"check"}
  MaxFailures = 2
  MaxOpened = 2
  MaxFaults = 0
  NoPid = NoPid
  Dead = Dead
  Nobody = Nobody
PROPERTIES
  
  StalePidHealed

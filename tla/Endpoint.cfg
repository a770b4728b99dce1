\* Two clients that start servers, leave and come back, --stop among them, and one
\* failure anywhere.
CONSTANTS
  c1 = c1
  c2 = c2
  Client = {c1, c2}
  Stopper = Stopper
  MaxServers = 2
  MaxPolls = 2
  MaxTries = 2
  MaxFaults = 1
SPECIFICATION FairSpec
INVARIANTS
  LostToIdleOrFault
PROPERTIES
  GivesUpOnlyIfTaken
  StopRetires
  ClientSettles
  ServersGo
\* The bound on servers ends every behaviour.
CHECK_DEADLOCK FALSE

SPECIFICATION FairSpec
CONSTANTS
  Instances = {d1}
  Clients = {c1, c2, c3}
  RootClients = {c1, c2}
  Mortal = {}
  Backlog = 1
  MaxFds = 2
  Requests = 1
  AllowHUP = TRUE
  AllowTERM = TRUE
  Nobody = Nobody
PROPERTIES
  EveryWaitEnds
  SessionTERMEndsDaemon
  ReloadAtNextConnection
CHECK_DEADLOCK FALSE

SPECIFICATION Spec
CONSTANTS
  Instances = {d1, d2}
  Clients = {c1, c2}
  RootClients = {c1}
  Mortal = {c1, d1}
  Backlog = 1
  MaxFds = 2
  Requests = 1
  AllowHUP = TRUE
  AllowTERM = TRUE
  Nobody = Nobody
INVARIANTS
  TypeOK
  SocketFileNamesListener
  PidFileNamesServer
  StreamInStep
  RepliesMatchRequests
  SessionTreeIsCurrent
  OnlyRootIsServed
CHECK_DEADLOCK FALSE

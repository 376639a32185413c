SPECIFICATION Spec
CONSTANTS
  Socket = {s1, s2, s3}
  Credential = {c1}
  kMaxClients = 2
  MaxRequests = 3
  MaxFailures = 0
SYMMETRY Perms
INVARIANTS
  BridgeFollowsSession
  PendingIsConnected
  PendingIsAsked
  ClientsCounted
  DecidedOnce

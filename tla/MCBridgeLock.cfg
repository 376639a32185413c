SPECIFICATION Spec
CONSTANTS
  Socket = {s1, s2}
  Credential = {c1}
  kMaxClients = 2
  MaxRequests = 2
  MaxFailures = 0
INVARIANTS
  AnsweredAfterLock

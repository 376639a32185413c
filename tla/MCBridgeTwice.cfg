SPECIFICATION FairSpec
CONSTANTS
  Socket = {s1, s2}
  Credential = {c1}
  kMaxClients = 1
  MaxRequests = 2
  MaxFailures = 1
PROPERTIES
  NothingAfterNo
  FilledIsAsked
  PendingClears

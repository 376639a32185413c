SPECIFICATION FairSpec
CONSTANTS
  Page <- MCPage
  Entry <- MCEntry
  Credential = {c1}
  Port = {p1, p2}
INVARIANTS
  FilledWhereItBelongs
PROPERTIES
  SaidIsDone
  CallsEnd

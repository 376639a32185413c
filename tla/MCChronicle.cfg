SPECIFICATION Spec
CONSTANTS
  event = event
  said = said
  Empty = Empty
  Type = {event}
  Summary = {said, Empty}
  MaxLog = 3
  MaxKey = 3
INVARIANTS
  IntactVerifies
  OkIsWritten

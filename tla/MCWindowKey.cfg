SPECIFICATION Spec
CONSTANTS
  n1 = n1
  n2 = n2
  c1 = c1
  c2 = c2
  t1 = t1
  t2 = t2
  Never = Never
  Gone = Gone
  Damaged = Damaged
  None = None
  Note = {n1}
  Credential = {c1}
  Text = {t1, t2}
  NoteRows <- OneNote
  CredentialRows <- OneCredential
INVARIANTS
  KeyGoneOnLock
CHECK_DEADLOCK FALSE

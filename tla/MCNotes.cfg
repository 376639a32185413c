SPECIFICATION Spec
CONSTANTS
  n1 = n1
  n2 = n2
  f1 = f1
  b1 = b1
  b2 = b2
  i1 = i1
  w1 = w1
  s1 = s1
  None = None
  Note = {n1, n2}
  Folder = {f1}
  Inbox = f1
  Block = {b1, b2}
  Image = {i1}
  Word = {w1}
  Secret = {s1}
  BlockWidth = 1
  MarkerWidth = 2
  MaxTyped = 2
  MaxEdited = 2
  Vaults <- SomeVaults
SYMMETRY References
INVARIANTS
  TypeOK
  RowsOfNotes
  SavedIsHeld
  ReferencesResolve
PROPERTIES
  WrittenIsTyped
  PhotoGoesHome

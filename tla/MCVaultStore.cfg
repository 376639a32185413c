SPECIFICATION Spec
CONSTANTS
  p1 = p1
  p2 = p2
  i1 = i1
  Password <- MCPassword
  Id <- MCId
  Field <- MCField
  Value = {1, 2}
  MaxSalt = 3
  MaxDamage = 1
SYMMETRY Symmetry
INVARIANTS
  VaultHasPassword
  RowsOpenWithVaultKey
  ContentKept
  FormatFlagHonest
  FillNeverWidened
  SessionHasVaultKey
PROPERTIES
  KeepsPromise
CHECK_DEADLOCK FALSE

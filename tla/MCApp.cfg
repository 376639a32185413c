SPECIFICATION Spec
CONSTANTS
  p1 = p1
  p2 = p2
  Password <- MCPassword
  SelfDestruct = TRUE
  MaxSaves = 1
  MaxFaults = 2
SYMMETRY Symmetry
INVARIANTS
  TypeOK
  VaultKept
  OldVaultKept
  NoForeignKey
  ResultTellsLive
  NoLeftovers

SPECIFICATION Spec
CONSTANTS
  p1 = p1
  p2 = p2
  Password <- MCPassword
  SelfDestruct = TRUE
  MaxSaves = 1
  MaxFaults = 1
SYMMETRY Symmetry
INVARIANT CountsWrongPasswords

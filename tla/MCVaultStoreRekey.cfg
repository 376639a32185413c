SPECIFICATION Spec
CONSTANTS
  p1 = p1
  p2 = p2
  i1 = i1
  Password <- MCPassword
  Id <- MCId
  Field <- AllField
  Value = {1}
  MaxSalt = 2
  MaxDamage = 0
SYMMETRY Symmetry
INVARIANT EveryRowOpens
CHECK_DEADLOCK FALSE

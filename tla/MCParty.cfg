SPECIFICATION Spec
CONSTANTS
  c1 = c1
  c2 = c2
  c3 = c3
  c4 = c4
  Chars = {c1, c2, c3, c4}
  Ids = {1, 2}
  None = None
  Settings <- MCSettings
  Misuse = {}
SYMMETRY Symmetry
INVARIANTS
  TypeOK
  RolesAgree
  PartiesViable
PROPERTIES
  LargePartiesLast

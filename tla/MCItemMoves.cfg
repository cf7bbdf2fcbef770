SPECIFICATION Spec
CONSTANTS
  c1 = c1
  c2 = c2
  p1 = p1
  p2 = p2
  w1 = w1
  w2 = w2
  Chars = {c1, c2}
  Stacks = {p1, p2}
  Wearables = {w1, w2}
  None = None
  StackSize = 2
  Units = 3
  Packless = {}
  Misuse = {}
SYMMETRY Symmetry
VIEW View
INVARIANTS
  TypeOK
  OnePlace
  TradesAgree
PROPERTIES
  AcceptedAsOffered
  Conserved

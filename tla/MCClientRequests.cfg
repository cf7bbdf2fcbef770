SPECIFICATION FairSpec
CONSTANTS
  s1 = s1
  s2 = s2
  c1 = c1
  c2 = c2
  Scripts = {s1, s2}
  Skill = {s1}
  Clients = {c1, c2}
  None = None
  Asked = {"target", "menu", "gump", "prompt", "uniprompt", "resurrect", "selcolor"}
  MaxShown = 2
  Misuse = {}
INVARIANTS
  RequestsMatch
  CursorAgrees
PROPERTIES
  AnswersAsker
  GoneClientsWake
CHECK_DEADLOCK FALSE

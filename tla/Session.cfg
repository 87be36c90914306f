SPECIFICATION Spec
CONSTANTS
  Users = {ann, bob}
  Calls = {c1, c2}
  MaxRequests = 3
  MaxTokens = 2
  None = None
INVARIANTS TypeOK SavesKeepOthers OwnValues
PROPERTIES EndsForAReason
SYMMETRY Symmetry

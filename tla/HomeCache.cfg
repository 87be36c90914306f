SPECIFICATION Spec
CONSTANTS
  Sections <- MCSections
  Handlers = {h1, h2}
  Timeout = 1
  TTL = 2
INVARIANTS TypeOK StalenessBounded
PROPERTY PageSettles

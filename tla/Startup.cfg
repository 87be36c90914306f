SPECIFICATION Spec
CONSTANTS
  Servers = {container, local}
  MaxRequests = 1
  MaxFaults = 2
INVARIANTS TypeOK SeededOnce ReferencesHold AdminIsSeeded
PROPERTIES ComesUp StopEnds

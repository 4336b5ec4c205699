CONSTANTS
  c1 = c1
  c2 = c2
  Nodes = {1, 2}
  Channels = {c1}
  NoNode = 0
  Leaders = {1}
  Flaky = TRUE
  Users = {2}
  Faults = {"crash", "outage"}
  Frail = {2}
  Streams = {2}
  MaxEvents = 1
SPECIFICATION Spec
INVARIANTS TypeOK
PROPERTIES OrphanedOnlyByUpsert PinnedWhileOwnerAlive OnlyControllersClaim 

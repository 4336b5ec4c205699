CONSTANTS
  c1 = c1
  c2 = c2
  Nodes = {1, 2}
  Channels = {c1}
  NoNode = 0
  Leaders = {1}
  Flaky = FALSE
  Users = {}
  Faults = {}
  Frail = {}
  Streams = {1, 2}
  MaxEvents = 1
SPECIFICATION Spec
INVARIANTS NoDuplicateCapture

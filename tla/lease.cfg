CONSTANTS
  n1 = n1
  n2 = n2
  NoNode = NoNode
  Nodes = {n1, n2}
  TTL = 3
  Batch = 2
SPECIFICATION FairSpec
INVARIANTS TypeOK OneRunningGrant BoundedOnOneGrant
PROPERTY Failover

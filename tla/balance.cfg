SPECIFICATION FairSpec
CONSTANTS
    Nodes = {1, 2}
    Channels = {1, 2, 3}
    NoNode = 0
    Popular = {2}
    MaxChanges = 1
INVARIANTS TypeOK
CHECK_DEADLOCK FALSE
PROPERTIES EveryChannelPlaced SettlesUnlessOverloaded EndingNodeEmptied

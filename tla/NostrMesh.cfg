\* Two saves, one push, one lost connection, with and without the webhook.
CONSTANTS
  None = None
  Ids = {1, 2}
  Texts = {"x"}
  PeerEvents <- MCPeerEvents
  MaxRequests = 2
  MaxStored = 1
  MaxDrops = 1
SPECIFICATION FairSpec
CHECK_DEADLOCK FALSE
INVARIANTS
  Consistent
  NoEcho
  TakenWhole
PROPERTIES
  Delivered
  TombstoneWins

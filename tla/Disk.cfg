SPECIFICATION Spec
CONSTANTS
  f1 = f1
  f2 = f2
  g1 = g1
  p1 = p1
  None = None
  Torn = Torn
  Null = Null
  EmptyHash = EmptyHash
  Shared <- MCShared
  Fetched <- MCFetched
  Peers <- MCPeers
  MaxStarts = 3
INVARIANTS KeysInv Kept ReferencesWhole HashesTruthful
CHECK_DEADLOCK FALSE

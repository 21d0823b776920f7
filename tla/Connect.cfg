SPECIFICATION FairConnSpec
CONSTANTS
  a = a
  b = b
  Nodes <- MCNodes
  Setups <- MCSetups
  MaxConns = 6
  MaxTroubles = 1
INVARIANTS EntriesInv Watched Agree
PROPERTY FindEachOther
CHECK_DEADLOCK FALSE

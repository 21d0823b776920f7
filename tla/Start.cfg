SPECIFICATION FairSpec
CONSTANTS
  MaxAsks = 3
  MaxPeerEvents = 1
INVARIANT SetupInv
PROPERTIES StatusTruthful StartsUp StopsOnceSetUp
\* The process may end.
CHECK_DEADLOCK FALSE

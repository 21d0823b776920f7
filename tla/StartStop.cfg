SPECIFICATION FairSpec
CONSTANTS
  MaxAsks = 3
  MaxPeerEvents = 1
PROPERTY StopHonoured
\* The process may end.
CHECK_DEADLOCK FALSE

SPECIFICATION FairSpec
CONSTANTS
  MaxListeners = 2
  Fds <- ThreeFds
  MaxEvents = 1
  Sending = TRUE
  Closing = TRUE
INVARIANT TypeOK
PROPERTIES SlotsMatchSet EventsReceived BroadcastReaches
\* exit and an access outside the array end the behaviour.
CHECK_DEADLOCK FALSE

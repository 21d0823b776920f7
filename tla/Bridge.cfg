SPECIFICATION FairSpec
CONSTANTS
  b1 = b1
  b2 = b2
  Browsers <- OneBrowser
  MaxBuffer = 2
  MaxEvents = 3
  NoText = {2}
  MaxHellos = 2
  Closing = TRUE
INVARIANT BridgeInv
PROPERTIES Forwarded WelcomeAnswered
\* The core and the browsers may fall silent, and an overflow ends the behaviour.
CHECK_DEADLOCK FALSE

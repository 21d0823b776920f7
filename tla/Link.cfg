SPECIFICATION FairSpec
CONSTANTS
  main = main
  part = part
  m1 = m1
  m2 = m2
  m3 = m3
  NoMsg = NoMsg
  Garbage = Garbage
  Senders <- MCSenders
  Msgs <- MCMsgs
  Plan <- MCPlan
  Kind <- MCKind
  BodyLen <- MCBodyLen
  Capacity = 3
  Width = 8
  MaxGoodbyes = 2
INVARIANTS LinkInv OnceInOrder
PROPERTIES ImplementsStream Delivered BodyFinishes
\* The threads have sent what they had to, or the peer has gone.
CHECK_DEADLOCK FALSE

SPECIFICATION Spec
CONSTANTS
  a1 = a1
  a2 = a2
  NoAddr = NoAddr
  Addrs <- MCAddrs
  Fds <- MCFds
  InitSize = 2
  MaxSize = 4
INVARIANTS TableInv LookupFinds
PROPERTIES ImplementsRegistry OnlyDeadDropped
\* An overrun or a dangling pointer ends the behaviour.
CHECK_DEADLOCK FALSE

SPECIFICATION TeamSpec
CONSTANTS
  a1 = a1
  a2 = a2
  NoAddr = NoAddr
  NoThread = NoThread
  Active <- Threads
  Addrs <- OneAddr
  Fds <- FewFds
  InitSize = 2
  MaxSize = 4
  MaxPeers = 2
INVARIANTS TypeOK IteratorInBounds LockDiscipline SelectCovers SetsOpen
PROPERTIES RoundExclusive LoneRoundComplete LockReleased
\* A failed assertion or a dangling pointer ends the behaviour.
CHECK_DEADLOCK FALSE

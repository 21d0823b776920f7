SPECIFICATION FairSpec
CONSTANTS
  n1 = n1
  n2 = n2
  f1 = f1
  f2 = f2
  f3 = f3
  NoFile = NoFile
  Nodes <- MCNodes
  Files <- MCFiles
  Owner <- MCOwner
  Setups <- PromptAlone
  MaxTransfers = 3
  Overlap = TRUE
PROPERTY Completes
\* When every file was asked for and handled nothing is left to do.
CHECK_DEADLOCK FALSE

SPECIFICATION FairSpec
CONSTANTS
  n1 = n1
  n2 = n2
  f1 = f1
  f2 = f2
  f3 = f3
  NoFile = NoFile
  Nodes <- MCNodes
  Files <- MCFiles
  Owner <- MCOwner
  Setups <- MCSetups
  MaxTransfers = 2
  Overlap = TRUE
INVARIANTS SlotsInv ContentIntact RowFound
PROPERTY CompletesAlone
\* When every file was asked for and handled nothing is left to do.
CHECK_DEADLOCK FALSE

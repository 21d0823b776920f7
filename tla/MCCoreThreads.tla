--------------------------- MODULE MCCoreThreads ---------------------------
EXTENDS CoreThreads
CONSTANTS a1, a2
OneAddr == {a1}
ConnMain == {"conn", "main"}
FewFds == {3, 4}
=============================================================================

--------------------------- MODULE MCPipeManager ---------------------------
EXTENDS PipeManager
ThreeFds == {5, 6, 7}
=============================================================================

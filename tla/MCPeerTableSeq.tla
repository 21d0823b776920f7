--------------------------- MODULE MCPeerTableSeq ---------------------------
(***************************************************************************)
(* Instances of PeerTableSeq for TLC.  gen grows with every realloc that    *)
(* moves the array; the array doubles at most log2(MaxSize) times.          *)
(***************************************************************************)
EXTENDS PeerTableSeq
CONSTANTS a1, a2
MCAddrs == {a1, a2}
MCFds == {3}
=============================================================================

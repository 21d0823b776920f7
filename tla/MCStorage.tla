----------------------------- MODULE MCStorage -----------------------------
(* Two shared files, one download and one peer; the core lives three times. *)
EXTENDS Storage
CONSTANTS f1, f2, g1, p1
MCShared == {f1, f2}
MCFetched == {g1}
MCPeers == {p1}
=============================================================================

----------------------------- MODULE MCPeerLink -----------------------------
EXTENDS PeerLink, TLC
CONSTANTS main, part, m1, m2, m3
MCSenders == {main, part}
MCMsgs == {m1, m2, m3}
\* The main thread sends an event and asks for a part, a thread sends a part.
MCPlan == main :> <<m1, m2>> @@ part :> <<m3>>
MCKind == m1 :> "event" @@ m2 :> "nonblocking" @@ m3 :> "part"
MCBodyLen == m1 :> 1 @@ m2 :> 1 @@ m3 :> 2
=============================================================================

---------------------------- MODULE PeerRegistry ----------------------------
(***************************************************************************)
(* What peermanager.c promises to one caller: a set of peers that can be    *)
(* visited in rounds, every registered peer exactly once per round.  Peers  *)
(* are dropped between rounds only, as read_thread does.                    *)
(***************************************************************************)
CONSTANT Ids             \* identities of peers

VARIABLES registered,    \* the peers in the registry
          seen           \* those the current round has visited

vars == <<registered, seen>>

Init == registered = {} /\ seen = {}

Add(k) == /\ k \notin registered
          /\ registered' = registered \cup {k}
          /\ UNCHANGED seen

Drop(k) == /\ k \in registered
           /\ seen = {}
           /\ registered' = registered \ {k}
           /\ UNCHANGED seen

Visit(k) == /\ k \in registered \ seen
            /\ seen' = seen \cup {k}
            /\ UNCHANGED registered

EndRound == /\ seen = registered
            /\ seen' = {}
            /\ UNCHANGED registered

Next == \/ \E k \in Ids : Add(k) \/ Drop(k) \/ Visit(k)
        \/ EndRound

Spec == Init /\ [][Next]_vars
=============================================================================

----------------------------- MODULE CoreTeams -----------------------------
(***************************************************************************)
(* CoreThreads with a choice of the threads that a behaviour has.           *)
(***************************************************************************)
EXTENDS CoreThreads

VARIABLE team

Teams == {{"conn", "read", "main"}, {"try", "read"}}
TeamVars == <<vars, team>>

TeamInit == Init /\ team \in Teams
TeamStep(t) == t \in team /\ Step(t) /\ UNCHANGED team
TeamNext == \E t \in Active : TeamStep(t)
TeamSpec == /\ TeamInit
            /\ [][TeamNext]_TeamVars
            /\ \A t \in Active : WF_TeamVars(~Waits(t) /\ TeamStep(t))

(***************************************************************************)
(* A round of peer_next misses no peer where the reading thread is the only *)
(* one that walks: RoundComplete for the second team.                       *)
(***************************************************************************)
LoneRoundComplete == [][ "main" \notin team => RoundEndsComplete ]_TeamVars
=============================================================================

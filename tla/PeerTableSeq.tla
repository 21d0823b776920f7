---------------------------- MODULE PeerTableSeq ----------------------------
(***************************************************************************)
(* The peer table in the hands of a single caller: peers are registered,    *)
(* and rounds of read_thread (core.c) visit the entries with peer_next,     *)
(* look peers up from the event handlers, collect the peers that hung up    *)
(* in a ptrlist and remove them when the round is over.                     *)
(***************************************************************************)
EXTENDS PeerTable

VARIABLES tbl,      \* the table of peermanager.c
          phase,    \* "idle", "round" (in the peer_next loop), "delete"
          cur,      \* the p of the loop, NoPtr once it has been dealt with
          del,      \* what delptrs holds: the item of its tail, or NoPtr
          marked,   \* keys of the peers that hung up in this round
          found,    \* result of the last lookup
          status    \* "ok", or the undefined behaviour that was reached

vars == <<tbl, phase, cur, del, marked, found, status>>

NoLookup == [addr |-> NoAddr, ptr |-> NoPtr]

TypeOK == /\ tbl \in Tables
          /\ phase \in {"idle", "round", "delete"}
          /\ cur \in Ptrs
          /\ del \in Ptrs
          /\ marked \subseteq Keys
          /\ found \in [addr : Addrs \cup {NoAddr}, ptr : Ptrs]
          /\ status \in {"ok", "overrun", "dangling"}

Init == /\ tbl = NewTable
        /\ phase = "idle"
        /\ cur = NoPtr
        /\ del = NoPtr
        /\ marked = {}
        /\ found = NoLookup
        /\ status = "ok"

\* The caller's writes to a new entry: address and port.
Fill(t, i, a) == [t EXCEPT !.mem[i].addr = a, !.mem[i].port = 1]

\* peer_new and the address of a connection or of a configured peer.
Register(a) ==
  /\ status = "ok" /\ phase = "idle"
  /\ CanGrow(tbl)
  /\ \E moved \in BOOLEAN : tbl' = Fill(PeerNew(tbl, moved), tbl.count, a)
  /\ found' = NoLookup
  /\ UNCHANGED <<phase, cur, del, marked, status>>

\* peer_exists_simple: register a probe, compare it with the others, remove it.
Lookup(a) ==
  /\ status = "ok"
  /\ phase = "idle" \/ (phase = "round" /\ cur # NoPtr)
  /\ CanGrow(tbl)
  /\ \E moved \in BOOLEAN :
       LET probed == Fill(PeerNew(tbl, moved), tbl.count, a)
       IN  /\ found' = [addr |-> a, ptr |-> PeerExists(probed, tbl.count)]
           /\ tbl' = PeerRemove(probed, probed.mem[tbl.count])
  /\ cur' = NoPtr
  /\ UNCHANGED <<phase, del, marked, status>>

\* select returned: delptrs is created and the loop over peer_next starts.
StartRound ==
  /\ status = "ok" /\ phase = "idle" /\ tbl.count > 0
  /\ phase' = "round"
  /\ del' = NoPtr
  /\ marked' = {}
  /\ found' = NoLookup
  /\ UNCHANGED <<tbl, cur, status>>

NextPeer ==
  /\ status = "ok" /\ phase = "round" /\ HasNext(tbl)
  /\ cur' = Ptr(tbl, tbl.iter)
  /\ tbl' = Advance(tbl)
  /\ found' = NoLookup
  /\ UNCHANGED <<phase, del, marked, status>>

\* recv returned 0: list_add_node, whose tail never advances, keeps p only.
HangUp ==
  /\ status = "ok" /\ phase = "round" /\ cur # NoPtr
  /\ del' = cur
  /\ marked' = marked \cup {tbl.mem[cur.slot].key}
  /\ cur' = NoPtr
  /\ found' = NoLookup
  /\ UNCHANGED <<tbl, phase, status>>

EndRound ==
  /\ status = "ok" /\ phase = "round" /\ ~HasNext(tbl)
  /\ tbl' = Rewind(tbl)
  /\ phase' = "delete"
  /\ cur' = NoPtr
  /\ found' = NoLookup
  /\ UNCHANGED <<del, marked, status>>

\* The loop over delptrs.
RemoveDead ==
  /\ status = "ok" /\ phase = "delete"
  /\ \/ /\ del = NoPtr
        /\ UNCHANGED <<tbl, status>>
     \/ /\ del # NoPtr /\ ~Valid(tbl, del)
        /\ status' = "dangling"
        /\ UNCHANGED tbl
     \/ /\ Valid(tbl, del)
        /\ RemoveOverruns(tbl, tbl.mem[del.slot])
        /\ status' = "overrun"
        /\ UNCHANGED tbl
     \/ /\ Valid(tbl, del)
        /\ ~RemoveOverruns(tbl, tbl.mem[del.slot])
        /\ tbl' = PeerRemove(tbl, tbl.mem[del.slot])
        /\ UNCHANGED status
  /\ phase' = "idle"
  /\ del' = NoPtr
  /\ found' = NoLookup
  /\ UNCHANGED <<cur, marked>>

Next == \/ \E a \in Addrs : Register(a) \/ Lookup(a)
        \/ StartRound \/ NextPeer \/ HangUp \/ EndRound \/ RemoveDead

Spec == Init /\ [][Next]_vars

-----------------------------------------------------------------------------

(***************************************************************************)
(* The table implements the registry: a round visits every registered peer  *)
(* exactly once although handlers insert and remove probes in the middle of *)
(* it, lookups change nothing, and a deferred removal drops one registered  *)
(* peer and no other entry (peer_next, peer_remove, peer_exists_simple).    *)
(***************************************************************************)
Registered == {tbl.mem[i].key : i \in Live(tbl)}
Seen == {tbl.mem[i].key : i \in 0..(tbl.iter - 1)}

Registry == INSTANCE PeerRegistry WITH Ids <- Keys, registered <- Registered,
                                       seen <- Seen
ImplementsRegistry == Registry!Spec

(***************************************************************************)
(* A deferred removal drops only a peer that hung up in the round that just *)
(* ended: the pointers kept in delptrs still designate the entries they     *)
(* were taken from when peer_remove compares against them.                  *)
(***************************************************************************)
OnlyDeadDropped ==
  [][\A k \in Registered : k \notin Registered' => k \in marked]_vars

(***************************************************************************)
(* peer_exists_simple finds a peer exactly when one with that address is    *)
(* registered, and the pointer it returns designates that peer after the    *)
(* probe has been removed again.                                            *)
(***************************************************************************)
LookupFinds ==
  found.addr # NoAddr =>
    IF found.ptr = NoPtr
    THEN \A i \in Live(tbl) : tbl.mem[i].addr # found.addr
    ELSE /\ Valid(tbl, found.ptr)
         /\ found.ptr.slot \in Live(tbl)
         /\ tbl.mem[found.ptr.slot].addr = found.addr

(***************************************************************************)
(* Identities are unique among the live entries, so the byte comparison of  *)
(* peer_remove cannot confuse two peers of one address.                     *)
(***************************************************************************)
UniqueIdentity ==
  \A i, j \in Live(tbl) : tbl.mem[i].key = tbl.mem[j].key => i = j

(***************************************************************************)
(* The table is a table, and its live entries can be told apart, through    *)
(* every order of insertions, lookups and removals.                         *)
(***************************************************************************)
TableInv == TypeOK /\ UniqueIdentity

(***************************************************************************)
(* The test removes peers in ascending order, that is, never the last entry *)
(* first, and expects the table to survive: removing an entry stays inside  *)
(* the array.                                                               *)
(***************************************************************************)
RemovalStaysInside == status # "overrun"

(***************************************************************************)
(* Every peer whose connection ended in a round has left the table when the *)
(* loop over delptrs is done, as a list that stores pointers allows.        *)
(***************************************************************************)
DeadPeersRemoved ==
  [][ (phase = "delete" /\ status' = "ok") => marked \cap Registered' = {} ]_vars
=============================================================================

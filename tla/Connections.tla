---------------------------- MODULE Connections ----------------------------
(***************************************************************************)
(* Two cores that have each other as peers, and the connections between     *)
(* them: the accepting thread (connection_thread), the connecting thread    *)
(* (connect_to_peers) and the end of a connection in read_thread.  A peer   *)
(* has two sockets: what is sent goes out on osock and what is received     *)
(* comes in on isock, unless one of them is SOCKET_ONEWAY and the other     *)
(* serves for both.  The table of peers is CoreThreads' matter; here it has *)
(* the entries for the other core, in the order they were made.             *)
(***************************************************************************)
EXTENDS Integers, Sequences, FiniteSets

CONSTANTS Nodes,      \* the two cores
          Setups,     \* who can be reached and who has the other one's key
          MaxConns,   \* bound: connections ever made
          MaxTroubles \* bound: cores that go away, and connections that are
                      \* made after the second that check_writability waits

ASSUME NodesAssumption == IsFiniteSet(Nodes) /\ Cardinality(Nodes) = 2
ASSUME SetupsAssumption ==
  Setups \subseteq [reach : SUBSET Nodes, keyed : SUBSET Nodes]
ASSUME BoundsAssumption == MaxConns \in Nat \ {0} /\ MaxTroubles \in Nat

Other(n) == CHOOSE m \in Nodes : m # n

NoSocket == -1
Oneway == -2                     \* SOCKET_ONEWAY
Conns == 1..MaxConns
Sockets == Conns \cup {NoSocket, Oneway}
PeerEntry == [osock : Sockets, isock : Sockets, keyok : BOOLEAN,
              connectable : BOOLEAN]
Ids == 1..(2 * MaxConns)

VARIABLES up,      \* the cores that run
          reach,   \* the cores whose port the other one can connect to
          keyed,   \* the cores that have a key file of the other one
          entries, \* [Nodes -> the entries by their place]
          rset,    \* [Nodes -> m_readset]
          wset,    \* [Nodes -> m_writeset]
          acc,     \* [Nodes -> the accepting thread]
          dial,    \* [Nodes -> the connecting thread]
          leaving, \* [Nodes -> the entry read_thread is going to remove]
          queue,   \* [Nodes -> Seq(Conns)]: connections to be accepted
          ends,    \* [Conns -> the cores that have it open]
          made,    \* connections made so far
          troubles, mishaps

nodeVars == <<entries, rset, wset, acc, dial, leaving>>
netVars == <<queue, ends, made>>
worldVars == <<up, reach, keyed, troubles>>
connVars == <<nodeVars, netVars, worldVars, mishaps>>

Idle == [pc |-> "idle", c |-> 0, p |-> 0]
Thread(pcs) == [pc : pcs, c : 0..MaxConns, p : Ids \cup {0}]

EntriesTypeOK ==
  /\ up \subseteq Nodes /\ reach \subseteq Nodes /\ keyed \subseteq Nodes
  /\ \A n \in Nodes : /\ DOMAIN entries[n] \subseteq Ids
                      /\ \A p \in DOMAIN entries[n] : entries[n][p] \in PeerEntry
  /\ rset \in [Nodes -> SUBSET Conns] /\ wset \in [Nodes -> SUBSET Conns]
  /\ acc \in [Nodes -> Thread({"idle", "upgrade", "key", "connect", "add"})]
  /\ dial \in [Nodes -> Thread({"idle", "found", "missed", "connect", "add", "key"})]
  /\ leaving \in [Nodes -> Ids \cup {0}]
  /\ made \in 0..MaxConns /\ ends \in [Conns -> SUBSET Nodes]
  /\ \A n \in Nodes : \A i \in 1..Len(queue[n]) : n \in ends[queue[n][i]]
  /\ troubles \in 0..MaxTroubles
  /\ mishaps \subseteq {"overlap", "stale", "keyless"}

EmptyTable == [p \in {} |-> 0]

ConnInit == /\ up = Nodes
            /\ \E setup \in Setups : reach = setup.reach /\ keyed = setup.keyed
            /\ entries = [n \in Nodes |-> EmptyTable]
            /\ rset = [n \in Nodes |-> {}] /\ wset = [n \in Nodes |-> {}]
            /\ acc = [n \in Nodes |-> Idle] /\ dial = [n \in Nodes |-> Idle]
            /\ leaving = [n \in Nodes |-> 0]
            /\ queue = [n \in Nodes |-> <<>>]
            /\ ends = [c \in Conns |-> {}] /\ made = 0
            /\ troubles = 0
            /\ mishaps = {}

Mishap(what, happened) ==
  mishaps' = IF happened THEN mishaps \cup {what} ELSE mishaps
-----------------------------------------------------------------------------
\* The table and the sets of one core

Greatest(S) == CHOOSE i \in S : \A j \in S : j <= i
Least(S) == CHOOSE i \in S : \A j \in S : i <= j

NewId(n) == Greatest(DOMAIN entries[n] \cup {0}) + 1       \* peer_new
With(n, p, e) ==
  [entries EXCEPT ![n] = [q \in DOMAIN entries[n] \cup {p} |->
                            IF q = p THEN e ELSE entries[n][q]]]
\* An entry that has gone meanwhile is no entry any more; what is written to
\* its place is not read again.
There(n, p) == p \in DOMAIN entries[n]
Set(n, p, e) == IF There(n, p) THEN With(n, p, e) ELSE entries
Without(n, p) ==
  [entries EXCEPT ![n] = [q \in DOMAIN entries[n] \ {p} |-> entries[n][q]]]

\* Mutant of Exists: nothing is found.
ExistsNever(n) == FALSE

\* peer_exists
Exists(n) == entries[n] # EmptyTable

\* peer_init
NewEntry == [osock |-> NoSocket, isock |-> NoSocket, keyok |-> FALSE,
             connectable |-> TRUE]

At(n, p) == IF There(n, p) THEN entries[n][p] ELSE NewEntry

\* The socket the sending functions and the one read_thread uses.
SendSock(e) == IF e.osock = Oneway THEN e.isock ELSE e.osock
RecvSock(e) == IF e.isock = Oneway THEN e.osock ELSE e.isock

\* peer_addtoset, for an entry with a socket.
AddToRead(set, e) == set \cup {IF e.isock >= 0 THEN e.isock ELSE e.osock}

AddToWrite(set, e) == set \cup {IF e.osock >= 0 THEN e.osock ELSE e.isock}

AddToSet(n, e, r, w) ==
  IF e.osock < 0 /\ e.isock < 0
  THEN rset' = [rset EXCEPT ![n] = r] /\ wset' = [wset EXCEPT ![n] = w]
  ELSE /\ rset' = [rset EXCEPT ![n] = AddToRead(r, e)]
       /\ wset' = [wset EXCEPT ![n] = AddToWrite(w, e)]

\* Mutant of UpdateSet: the sets do not get the new sockets.
UpdateSetClears(n, e) == /\ rset' = [rset EXCEPT ![n] = @ \ {e.osock}]
                         /\ wset' = [wset EXCEPT ![n] = @ \ {e.osock}]

\* peer_updateset
UpdateSet(n, e) == AddToSet(n, e, rset[n] \ {e.osock}, wset[n] \ {e.osock})

Dead(s) == s \in Conns /\ ends[s] # Nodes
-----------------------------------------------------------------------------
\* The network

\* connect waits for a connection; it is in the other core's queue as soon as
\* it is made.
CanConnect(n) == Other(n) \in up \cap reach /\ made < MaxConns
Connect(n, open) ==
  /\ made' = made + 1
  /\ ends' = [ends EXCEPT ![made + 1] = open]
  /\ queue' = [queue EXCEPT ![Other(n)] = Append(@, made + 1)]
Connected(n) == CanConnect(n) /\ Connect(n, Nodes) /\ UNCHANGED troubles
Refused(n) == Other(n) \notin up \cap reach /\ UNCHANGED <<netVars, troubles>>
\* check_writability gave up, the socket is closed, and yet it connected.
TooLate(n) == CanConnect(n) /\ troubles < MaxTroubles
              /\ Connect(n, {Other(n)}) /\ troubles' = troubles + 1
-----------------------------------------------------------------------------
\* connect_to_peers

DialAt(n, pc) == n \in up /\ dial[n].pc = pc

\* peer_exists_simple puts an entry into the table to look for its equal,
DialProbe(n) ==
  /\ DialAt(n, "idle")
  /\ entries' = With(n, NewId(n), NewEntry)
  /\ dial' = [dial EXCEPT ![n].pc = IF Exists(n) THEN "found" ELSE "missed",
                          ![n].p = NewId(n)]
  /\ UNCHANGED <<rset, wset, acc, leaving, netVars, worldVars, mishaps>>

\* and removes it again, whatever became of it.
DialUnprobe(n) ==
  /\ \/ DialAt(n, "found") /\ dial' = [dial EXCEPT ![n] = Idle]
     \/ DialAt(n, "missed")
        /\ dial' = [dial EXCEPT ![n] = [Idle EXCEPT !.pc = "connect"]]
  /\ entries' = Without(n, dial[n].p)
  /\ UNCHANGED <<rset, wset, acc, leaving, netVars, worldVars, mishaps>>

\* new_socket
DialConnect(n) ==
  /\ DialAt(n, "connect")
  /\ \/ Connected(n)
        /\ dial' = [dial EXCEPT ![n] = [pc |-> "add", c |-> made + 1, p |-> 0]]
     \/ Refused(n) /\ dial' = [dial EXCEPT ![n] = Idle]
     \/ TooLate(n) /\ dial' = [dial EXCEPT ![n] = Idle]
  /\ UNCHANGED <<entries, rset, wset, acc, leaving, up, reach, keyed, mishaps>>

\* The entry is made and put into the sets
DialAdd(n) ==
  /\ DialAt(n, "add")
  /\ LET e == [NewEntry EXCEPT !.osock = dial[n].c, !.isock = Oneway]
     IN  entries' = With(n, NewId(n), e) /\ AddToSet(n, e, rset[n], wset[n])
  /\ dial' = [dial EXCEPT ![n].pc = "key", ![n].p = NewId(n)]
  /\ UNCHANGED <<acc, leaving, netVars, worldVars, mishaps>>

\* before check_peer_key, which sets isock to SOCKET_ONEWAY once more.
DialKey(n) ==
  /\ DialAt(n, "key")
  /\ LET p == dial[n].p
     IN  entries' = IF n \in keyed
                THEN Set(n, p, [At(n, p) EXCEPT !.isock = Oneway, !.keyok = TRUE])
                ELSE entries
  /\ Mishap("keyless", n \notin keyed)
  /\ dial' = [dial EXCEPT ![n] = Idle]
  /\ UNCHANGED <<rset, wset, acc, leaving, netVars, worldVars>>
-----------------------------------------------------------------------------
\* connection_thread

AccAt(n, pc) == n \in up /\ acc[n].pc = pc

(***************************************************************************)
(* accept, and peer_exists: an entry there is gets the new connection, and  *)
(* otherwise there is a new entry.  The connecting thread may be at work on *)
(* the same peer.                                                           *)
(***************************************************************************)
AcceptTake(n) ==
  /\ AccAt(n, "idle") /\ queue[n] # <<>>
  /\ queue' = [queue EXCEPT ![n] = Tail(@)]
  /\ IF Exists(n)
     THEN /\ acc' = [acc EXCEPT ![n] = [pc |-> "upgrade", c |-> Head(queue[n]),
                                        p |-> Least(DOMAIN entries[n])]]
          /\ UNCHANGED entries
     ELSE /\ acc' = [acc EXCEPT ![n] = [pc |-> "key", c |-> Head(queue[n]),
                                        p |-> NewId(n)]]
          /\ entries' = With(n, NewId(n), NewEntry)
  /\ Mishap("overlap", dial[n].pc \in {"missed", "connect", "add", "key"})
  /\ UNCHANGED <<rset, wset, dial, leaving, ends, made, worldVars>>

\* Mutants of Upgraded: the sockets change places, or the new one is forgotten.
UpgradedSwapped(e, c) ==
  [e EXCEPT !.osock = c, !.isock = e.osock, !.keyok = TRUE]
UpgradedNot(e, c) == [e EXCEPT !.keyok = TRUE]

Upgraded(e, c) == [e EXCEPT !.isock = c, !.keyok = TRUE]

(***************************************************************************)
(* "check if we have oneway connection with the old one": whatever the      *)
(* entry has, its isock becomes the new connection.                         *)
(***************************************************************************)
AcceptUpgrade(n) ==
  /\ AccAt(n, "upgrade")
  /\ LET p == acc[n].p
         old == At(n, p)
         new == Upgraded(old, acc[n].c)
     IN  /\ IF n \in keyed
            THEN entries' = Set(n, p, new) /\ UpdateSet(n, new)
            ELSE /\ entries' = Set(n, p, [old EXCEPT !.keyok = FALSE])
                 /\ UNCHANGED <<rset, wset>>
         /\ mishaps' = mishaps
              \cup (IF n \in keyed THEN {} ELSE {"keyless"})
              \cup (IF dial[n].pc = "key" THEN {"overlap"} ELSE {})
              \cup (IF \/ ~There(n, p) \/ leaving[n] = p
                       \/ old.isock # Oneway \/ Dead(old.osock)
                    THEN {"stale"} ELSE {})
  /\ acc' = [acc EXCEPT ![n] = Idle]
  /\ UNCHANGED <<dial, leaving, netVars, worldVars>>

\* A new peer's key: without it the entry stays as it is.
AcceptKey(n) ==
  /\ AccAt(n, "key")
  /\ IF n \in keyed
     THEN /\ entries' = Set(n, acc[n].p, [At(n, acc[n].p) EXCEPT !.isock = acc[n].c,
                                                            !.keyok = TRUE])
          /\ acc' = [acc EXCEPT ![n].pc = "connect"]
     ELSE /\ acc' = [acc EXCEPT ![n] = Idle]
          /\ UNCHANGED entries
  /\ Mishap("keyless", n \notin keyed)
  /\ UNCHANGED <<rset, wset, dial, leaving, netVars, worldVars>>

\* The connection back.
AcceptConnect(n) ==
  /\ AccAt(n, "connect")
  /\ \/ /\ Connected(n)
        /\ entries' = Set(n, acc[n].p, [At(n, acc[n].p) EXCEPT !.osock = made + 1])
     \/ /\ \/ Refused(n)
           \/ TooLate(n)
        /\ entries' = Set(n, acc[n].p, [At(n, acc[n].p) EXCEPT !.osock = Oneway,
                                                          !.connectable = FALSE])
  /\ acc' = [acc EXCEPT ![n].pc = "add"]
  /\ UNCHANGED <<rset, wset, dial, leaving, up, reach, keyed, mishaps>>

AcceptAdd(n) ==
  /\ AccAt(n, "add")
  /\ AddToSet(n, At(n, acc[n].p), rset[n], wset[n])
  /\ acc' = [acc EXCEPT ![n] = Idle]
  /\ UNCHANGED <<entries, dial, leaving, netVars, worldVars, mishaps>>
-----------------------------------------------------------------------------
\* read_thread

\* peer_removefromset, which closes nothing.
RemoveFromSet(n, e) ==
  /\ wset' = [wset EXCEPT ![n] = @ \ {e.osock, e.isock}]
  /\ rset' = [rset EXCEPT ![n] = @ \ {e.isock}]

\* A connection has ended, as recv finds out,
ReadEnds(n) ==
  /\ n \in up /\ leaving[n] = 0
  /\ \E p \in DOMAIN entries[n] :
       LET e == entries[n][p]
       IN  /\ RecvSock(e) \in rset[n] /\ Dead(RecvSock(e))
           /\ RemoveFromSet(n, e)
           /\ leaving' = [leaving EXCEPT ![n] = p]
  /\ UNCHANGED <<entries, acc, dial, netVars, worldVars, mishaps>>

\* and after the round the peer is removed.
ReadRemoves(n) ==
  /\ n \in up /\ leaving[n] # 0
  /\ entries' = Without(n, leaving[n])
  /\ leaving' = [leaving EXCEPT ![n] = 0]
  /\ UNCHANGED <<rset, wset, acc, dial, netVars, worldVars, mishaps>>
-----------------------------------------------------------------------------
\* The world

Crash(n) ==
  /\ n \in up /\ troubles < MaxTroubles
  /\ up' = up \ {n} /\ troubles' = troubles + 1
  /\ ends' = [c \in Conns |-> ends[c] \ {n}]
  /\ queue' = [queue EXCEPT ![n] = <<>>]
  /\ entries' = [entries EXCEPT ![n] = EmptyTable]
  /\ rset' = [rset EXCEPT ![n] = {}] /\ wset' = [wset EXCEPT ![n] = {}]
  /\ acc' = [acc EXCEPT ![n] = Idle] /\ dial' = [dial EXCEPT ![n] = Idle]
  /\ leaving' = [leaving EXCEPT ![n] = 0]
  /\ UNCHANGED <<made, reach, keyed, mishaps>>

Restart(n) ==
  /\ n \notin up
  /\ up' = up \cup {n}
  /\ UNCHANGED <<nodeVars, netVars, reach, keyed, troubles, mishaps>>

\* The user puts the key file in its place.
ImportKey(n) ==
  /\ n \in up \ keyed
  /\ keyed' = keyed \cup {n}
  /\ UNCHANGED <<nodeVars, netVars, up, reach, troubles, mishaps>>

Dialling(n) == \/ DialProbe(n) \/ DialUnprobe(n) \/ DialConnect(n)
               \/ DialAdd(n) \/ DialKey(n)
Accepting(n) == \/ AcceptTake(n) \/ AcceptUpgrade(n) \/ AcceptKey(n)
                \/ AcceptConnect(n) \/ AcceptAdd(n)
Reading(n) == ReadEnds(n) \/ ReadRemoves(n)

\* Behind an overlap or a stale entry nothing is claimed.
Orderly == mishaps \subseteq {"keyless"}

ConnNext == /\ Orderly
            /\ \E n \in Nodes : \/ Dialling(n) \/ Accepting(n) \/ Reading(n)
                                \/ Crash(n) \/ Restart(n) \/ ImportKey(n)

ConnSpec == ConnInit /\ [][ConnNext]_connVars

\* Threads run, and a core that went away is started again.
FairConnSpec == /\ ConnSpec
                /\ \A n \in Nodes :
                     /\ WF_connVars(Dialling(n)) /\ WF_connVars(Accepting(n))
                     /\ WF_connVars(Reading(n)) /\ WF_connVars(Restart(n))
-----------------------------------------------------------------------------

Probing(n, p) == dial[n].pc \in {"found", "missed"} /\ dial[n].p = p
InHand(n, p) == \/ acc[n].pc \in {"key", "connect", "add"} /\ acc[n].p = p
                \/ Probing(n, p) \/ leaving[n] = p
Peers(n) == {p \in DOMAIN entries[n] : ~InHand(n, p)}

(***************************************************************************)
(* A core has one entry for the other one, although two threads make        *)
(* entries: two only if a connection is accepted while connect_to_peers is  *)
(* between its search and the end for the same peer.                        *)
(***************************************************************************)
OneEntry ==
  "overlap" \notin mishaps =>
    \A n \in Nodes :
      Cardinality({p \in DOMAIN entries[n] : ~Probing(n, p)}) <= 1

(***************************************************************************)
(* read_thread waits for data where the entry of a peer says that its data  *)
(* comes in, and what is sent to it goes where select is asked about.       *)
(***************************************************************************)
Watched ==
  mishaps = {} =>
    \A n \in Nodes : \A p \in Peers(n) :
      RecvSock(entries[n][p]) \in rset[n] /\ SendSock(entries[n][p]) \in wset[n]

\* Nothing is under way between the cores.
Settled(n) == /\ n \in up /\ queue[n] = <<>> /\ leaving[n] = 0
              /\ acc[n].pc = "idle" /\ dial[n].pc = "idle"
Quiet == \A n \in Nodes : Settled(n)
Alive(n) == \A p \in Peers(n) : ~Dead(RecvSock(entries[n][p]))

(***************************************************************************)
(* When both have a good entry, each core receives from the connection that *)
(* the other one sends on, however they dialled each other, whichever of    *)
(* the ports can be reached, and after a core was restarted.                *)
(***************************************************************************)
Agree ==
  (Orderly /\ Quiet /\ \A n \in Nodes : Alive(n)) =>
    \A n \in Nodes : \A p \in Peers(n), q \in Peers(Other(n)) :
      (entries[n][p].keyok /\ entries[Other(n)][q].keyok) =>
        SendSock(entries[n][p]) = RecvSock(entries[Other(n)][q])

\* handlelistpeers
Status(e) == IF ~e.keyok THEN "invalid"
             ELSE IF ~(e.connectable /\ e.isock > 0) THEN "oneway" ELSE "ok"

(***************************************************************************)
(* A peer that ListPeers shows as "ok" has a connection for each direction. *)
(***************************************************************************)
StatusHonest ==
  Orderly =>
    \A n \in up : \A p \in Peers(n) :
      Status(entries[n][p]) = "ok" =>
        /\ {entries[n][p].osock, entries[n][p].isock} \subseteq Conns
        /\ entries[n][p].osock # entries[n][p].isock

(***************************************************************************)
(* The tables of the cores hold entries of the program, at most one for     *)
(* the other core, and what ListPeers shows of it is true.                  *)
(***************************************************************************)
EntriesInv == EntriesTypeOK /\ OneEntry /\ StatusHonest

(***************************************************************************)
(* Two cores that run end up connected to each other in both directions,    *)
(* also after one of them was restarted, as long as no entry is caught by   *)
(* one of the mishaps.                                                      *)
(***************************************************************************)
InTouch == /\ up = Nodes
           /\ \A n \in Nodes : \E p \in Peers(n) : \E q \in Peers(Other(n)) :
                SendSock(entries[n][p]) = RecvSock(entries[Other(n)][q])
FindEachOther == <>[]InTouch \/ <>(mishaps # {})

(***************************************************************************)
(* "check if we have oneway connection with the old one": an entry that a   *)
(* new connection is given to has one socket for both directions and is not *)
(* about to be removed.  It need not be, when a peer comes back before the  *)
(* end of its last connection was read.                                     *)
(***************************************************************************)
ExistingIsOneway == "stale" \notin mishaps

(***************************************************************************)
(* The accepting and the connecting thread do not get in each other's way.  *)
(* They do: what check_peer_key writes undoes an upgrade, or there are two  *)
(* entries.                                                                 *)
(***************************************************************************)
ThreadsApart == "overlap" \notin mishaps

(***************************************************************************)
(* What read_thread gives to select belongs to an entry.  The socket of a   *)
(* oneway peer that hung up stays in the set for good, always readable.     *)
(***************************************************************************)
ReadSetOwned ==
  \A n \in Nodes : Settled(n) =>
    rset[n] \subseteq {RecvSock(entries[n][p]) : p \in DOMAIN entries[n]}
=============================================================================

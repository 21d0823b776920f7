------------------------- MODULE CoreThreads_proofs -------------------------
(***************************************************************************)
(* What holds of the core's threads for every set of threads, addresses and *)
(* descriptors and every size of the table.  The facts about the table come *)
(* first; the proofs follow the actions of CoreThreads.                     *)
(***************************************************************************)
EXTENDS CoreTeams, FiniteSetTheorems, WellFoundedInduction, TLAPS

\* The iterator and the count of a table are within the array.
InBounds(tb) == tb.iter <= tb.count /\ tb.count <= tb.size

-----------------------------------------------------------------------------
\* Facts about the operators of PeerTable

\* A nonempty set of natural numbers has a least element.
LEMMA LeastExists ==
  ASSUME NEW S \in SUBSET Nat, S # {}
  PROVE  \E m \in S : \A n \in S : m <= n
<1>1. PICK m \in S : \A n \in S : <<n, m>> \notin OpToRel(<, Nat)
  BY NatLessThanWellFounded, WFMin
<1>2. ASSUME NEW n \in S
      PROVE  m <= n
  <2>1. OpToRel(<, Nat) = {ss \in Nat \X Nat : ss[1] < ss[2]}
    BY DEF OpToRel
  <2>2. n < m => <<n, m>> \in {ss \in Nat \X Nat : ss[1] < ss[2]}
    OBVIOUS
  <2>3. ~(n < m) => m <= n
    OBVIOUS
  <2>4. QED
    BY <1>1, <2>1, <2>2, <2>3
<1>3. QED
  BY <1>2

\* The first slot of a nonempty set of slots is one of them.
LEMMA FirstInSet ==
  ASSUME NEW S \in SUBSET Nat, S # {}
  PROVE  First(S) \in S /\ \A n \in S : First(S) <= n
BY LeastExists DEF First

\* There is one more key than there are slots.
LEMMA FreshKeyExists ==
  ASSUME NEW tb \in Tables
  PROVE  FreshKey(tb) \in Keys \ {0} /\ FreshKey(tb) \notin UsedKeys(tb)
<1> DEFINE All == 1..(MaxSize + 1)
<1>1. MaxSize \in Nat \ {0}
  BY SizeAssumption
<1>2. \E k \in All : k \notin UsedKeys(tb)
  <2> SUFFICES ASSUME \A k \in All : k \in UsedKeys(tb)
               PROVE  FALSE
    OBVIOUS
  <2> DEFINE g == [k \in All |-> CHOOSE i \in Slots : tb.mem[i].key = k]
  <2>1. \A k \in All : g[k] \in Slots /\ tb.mem[g[k]].key = k
    BY DEF UsedKeys
  <2>2. g \in [All -> Slots]
    BY <2>1
  <2>3. IsFiniteSet(All) /\ Cardinality(All) = MaxSize + 1
    BY <1>1, FS_Interval
  <2>4. IsFiniteSet(Slots) /\ Cardinality(Slots) = MaxSize
    BY <1>1, FS_Interval DEF Slots
  <2>5. Cardinality(Slots) < Cardinality(All)
    BY <1>1, <2>3, <2>4
  <2> HIDE DEF g, All
  <2>6. PICK x, y \in All : x # y /\ g[x] = g[y]
    BY <2>2, <2>3, <2>4, <2>5, FS_PigeonHole
  <2>7. QED
    BY <2>1, <2>6
<1>3. All \subseteq Keys \ {0}
  BY <1>1 DEF Keys
<1>4. QED
  BY <1>2, <1>3 DEF FreshKey

\* peer_new
LEMMA PeerNewTable ==
  ASSUME NEW tb \in Tables, InBounds(tb), CanGrow(tb), NEW moved \in BOOLEAN
  PROVE  /\ PeerNew(tb, moved) \in Tables
         /\ InBounds(PeerNew(tb, moved))
         /\ tb.count \in Slots
<1>1. MaxSize \in Nat \ {0}
  BY SizeAssumption
<1>2. /\ tb.count \in 0..MaxSize /\ tb.size \in 1..MaxSize
      /\ tb.iter \in 0..MaxSize /\ tb.gen \in Nat
      /\ tb.mem \in [Slots -> Entry]
  BY DEF Tables
<1>3. tb.count < MaxSize
  BY <1>1, <1>2 DEF InBounds, CanGrow, Full
<1>4. tb.count \in Slots
  BY <1>1, <1>2, <1>3 DEF Slots
<1>5. PeerInit(tb.mem[tb.count], FreshKey(tb)) \in Entry
  BY ZenonT(40), <1>2, <1>4, FreshKeyExists DEF PeerInit, Entry, Socks
<1>6. [tb.mem EXCEPT ![tb.count] = PeerInit(@, FreshKey(tb))] \in [Slots -> Entry]
  BY <1>2, <1>5
<1>7. (IF Full(tb) THEN 2 * tb.size ELSE tb.size) \in 1..MaxSize
  BY <1>1, <1>2 DEF CanGrow, Full
<1>8. (IF Full(tb) /\ moved THEN tb.gen + 1 ELSE tb.gen) \in Nat
  BY <1>2
<1>9. tb.count + 1 \in 0..MaxSize
  BY <1>1, <1>2, <1>3
<1>10. PeerNew(tb, moved) \in Tables
  BY <1>2, <1>6, <1>7, <1>8, <1>9 DEF PeerNew, Tables
<1>11. InBounds(PeerNew(tb, moved))
  BY <1>1, <1>2 DEF PeerNew, InBounds, Full
<1>12. QED
  BY <1>4, <1>10, <1>11

\* peer_free
LEMMA PeerFreeTable ==
  ASSUME NEW tb \in Tables, NEW i \in Slots
  PROVE  /\ PeerFree(tb, i) \in Tables
         /\ InBounds(PeerFree(tb, i)) <=> InBounds(tb)
<1>1. 0 \in Keys
  BY SizeAssumption DEF Keys
<1>2. QED
  BY <1>1 DEF PeerFree, Tables, Entry, InBounds

\* The compaction of peer_remove, as long as memmove stays in the array.
LEMMA RemoveAtTable ==
  ASSUME NEW tb \in Tables, InBounds(tb), NEW i \in Live(tb),
         i + 1 < tb.count => tb.count + 1 < tb.size
  PROVE  RemoveAt(tb, i) \in Tables /\ InBounds(RemoveAt(tb, i))
<1>1. MaxSize \in Nat \ {0}
  BY SizeAssumption
<1>2. /\ tb.count \in 0..MaxSize /\ tb.size \in 1..MaxSize
      /\ tb.iter \in 0..MaxSize /\ tb.gen \in Nat
      /\ tb.mem \in [Slots -> Entry]
  BY DEF Tables
<1>3. tb.count > 0 /\ i \in Slots
  BY <1>1, <1>2 DEF Live, InBounds, Slots
<1> DEFINE mm == IF i + 1 < tb.count
                 THEN [j \in Slots |-> IF i <= j /\ j <= tb.count
                                       THEN tb.mem[j + 1] ELSE tb.mem[j]]
                 ELSE PeerFree(tb, i).mem
           it == IF tb.iter = tb.count THEN tb.iter - 1 ELSE tb.iter
<1>4. mm \in [Slots -> Entry]
  <2>1. CASE i + 1 < tb.count
    <3>1. ASSUME NEW j \in Slots, j <= tb.count
          PROVE  j + 1 \in Slots
      BY <1>1, <1>2, <2>1, <3>1 DEF Slots
    <3>2. QED
      BY <1>2, <2>1, <3>1
  <2>2. CASE ~(i + 1 < tb.count)
    BY <1>3, <2>2, PeerFreeTable DEF Tables
  <2>3. QED
    BY <2>1, <2>2
<1>5. it \in 0..MaxSize /\ it <= tb.count - 1 /\ tb.count - 1 <= tb.size
  BY <1>1, <1>2, <1>3 DEF InBounds
<1>6. tb.count - 1 \in 0..MaxSize
  BY <1>1, <1>2, <1>3
<1>7. RemoveAt(tb, i) = [tb EXCEPT !.mem = mm, !.iter = it, !.count = tb.count - 1]
  BY DEF RemoveAt
<1> HIDE DEF mm, it
<1>8. QED
  BY <1>2, <1>4, <1>5, <1>6, <1>7 DEF Tables, InBounds

\* peer_remove
LEMMA PeerRemoveTable ==
  ASSUME NEW tb \in Tables, InBounds(tb), NEW e, ~RemoveOverruns(tb, e)
  PROVE  PeerRemove(tb, e) \in Tables /\ InBounds(PeerRemove(tb, e))
<1>1. CASE Equal(tb, e) = {}
  BY <1>1 DEF PeerRemove
<1>2. CASE Equal(tb, e) # {}
  <2>1. tb.count \in Nat /\ tb.size \in Nat
    BY SizeAssumption DEF Tables
  <2>2. Equal(tb, e) \in SUBSET Nat /\ Equal(tb, e) \subseteq Live(tb)
    BY <2>1 DEF Equal, Live
  <2>3. First(Equal(tb, e)) \in Live(tb)
    BY <1>2, <2>2, FirstInSet
  <2>4. First(Equal(tb, e)) + 1 < tb.count => tb.count + 1 < tb.size
    BY <1>2, <2>1 DEF RemoveOverruns
  <2>5. QED
    BY <1>2, <2>3, <2>4, RemoveAtTable DEF PeerRemove
<1>3. QED
  BY <1>1, <1>2

\* peer_exists
LEMMA PeerExistsPtr ==
  ASSUME NEW tb \in Tables, NEW i \in Slots
  PROVE  PeerExists(tb, i) \in Ptrs
<1>1. CASE Others(tb, i) = {}
  BY <1>1 DEF PeerExists, Ptrs
<1>2. CASE Others(tb, i) # {}
  <2>1. MaxSize \in Nat /\ tb.count \in 0..MaxSize /\ tb.gen \in Nat
    BY SizeAssumption DEF Tables
  <2>2. Others(tb, i) \in SUBSET Nat /\ Others(tb, i) \subseteq Slots
    BY <2>1 DEF Others, Live, Slots
  <2>3. First(Others(tb, i)) \in Slots
    BY <1>2, <2>2, FirstInSet
  <2>4. QED
    BY <1>2, <2>1, <2>3 DEF PeerExists, Ptrs, Ptr
<1>3. QED
  BY <1>1, <1>2

-----------------------------------------------------------------------------

\* The invariant the other results rest on: peer_new stays in the array only
\* because the iterator and the count are in bounds.
TypeInv == TypeOK /\ IteratorInBounds

-----------------------------------------------------------------------------
\* Facts about the helpers of CoreThreads

\* The threads of an instance are threads of the core.
LEMMA ThreadsActive == \A t \in Active : t \in Threads
BY ActiveAssumption

\* Writing an entry through a valid pointer leaves a table in bounds.
LEMMA StoreTable ==
  ASSUME TypeInv, NEW t \in Threads, Points(t), NEW e \in Entry, Store(t, e)
  PROVE  tbl' \in Tables /\ IteratorInBounds'
<1>1. ptr[t].slot \in Slots
  BY DEF TypeInv, TypeOK, Points, Valid, Ptrs
<1>2. tbl \in Tables
  BY DEF TypeInv, TypeOK
<1>3. [tbl.mem EXCEPT ![ptr[t].slot] = e] \in [Slots -> Entry]
  BY <1>1, <1>2 DEF Tables
<1>4. tbl' = [tbl EXCEPT !.mem = [tbl.mem EXCEPT ![ptr[t].slot] = e]]
  BY <1>2 DEF Store
<1>5. QED
  BY <1>2, <1>3, <1>4 DEF Tables, TypeInv, IteratorInBounds

\* A valid pointer designates an entry.
LEMMA PeerEntry ==
  ASSUME TypeInv, NEW t \in Threads, Points(t)
  PROVE  Peer(t) \in Entry /\ ptr[t].slot \in Slots
BY DEF TypeInv, TypeOK, Points, Valid, Ptrs, Peer, Tables

\* The identities of the peers of a table are identities.
LEMMA LiveKeysType ==
  ASSUME NEW tb \in Tables
  PROVE  LiveKeys(tb) \subseteq Keys
<1>1. MaxSize \in Nat /\ tb.count \in 0..MaxSize
  BY SizeAssumption DEF Tables
<1>2. Live(tb) \subseteq Slots
  BY <1>1 DEF Live, Slots
<1>3. QED
  BY <1>2 DEF LiveKeys, Tables, Entry

\* open() and socket() return one of the free descriptors.
LEMMA LowestFdOpen ==
  ASSUME TypeInv, freefds # {}
  PROVE  LowestFd \in freefds /\ LowestFd \in Fds
<1>1. freefds \in SUBSET Nat /\ freefds \subseteq Fds
  BY FdsAssumption DEF TypeInv, TypeOK
<1>2. \E m \in freefds : \A n \in freefds : m <= n
  BY <1>1, LeastExists
<1>3. QED
  BY <1>1, <1>2 DEF LowestFd

\* An entry with new contents is an entry.
LEMMA KeyAcceptedTable ==
  ASSUME TypeInv, NEW t \in Threads, Points(t), NEW s \in Socks,
         KeyAccepted(t, s)
  PROVE  tbl' \in Tables /\ IteratorInBounds'
<1>1. FreshKey(tbl) \in Keys
  BY FreshKeyExists DEF TypeInv, TypeOK
<1> DEFINE e == [Peer(t) EXCEPT !.isock = s,
                                !.key = IF @ = 0 THEN FreshKey(tbl) ELSE @]
<1>2. e \in Entry
  BY <1>1, PeerEntry DEF Entry
<1>3. Store(t, e)
  BY DEF KeyAccepted
<1>4. QED
  BY <1>2, <1>3, StoreTable

\* peer_free of an entry whose key did not load leaves a table in bounds.
LEMMA KeyRefusedTable ==
  ASSUME TypeInv, NEW t \in Threads, Points(t), KeyRefused(t)
  PROVE  tbl' \in Tables /\ IteratorInBounds'
BY PeerEntry, PeerFreeTable
   DEF KeyRefused, TypeInv, TypeOK, IteratorInBounds, InBounds

\* peer_remove of what a valid pointer designates.
LEMMA RemovePeerTable ==
  ASSUME TypeInv, NEW e, ~RemoveOverruns(tbl, e), tbl' = PeerRemove(tbl, e)
  PROVE  tbl' \in Tables /\ IteratorInBounds'
BY PeerRemoveTable DEF TypeInv, TypeOK, IteratorInBounds, InBounds

\* Removed keeps only keys that were due already.
LEMMA RemovedType ==
  ASSUME TypeInv, NEW tb, Removed(tb)
  PROVE  due' \in [Threads -> SUBSET Keys]
BY DEF Removed, TypeInv, TypeOK

-----------------------------------------------------------------------------
\* Each action preserves the invariant.

\* The calls the threads share.
LEMMA SharedTypes ==
  ASSUME TypeInv, strayed' \in BOOLEAN, NEW t \in Active, Shared(t)
  PROVE  TypeInv'
<1> USE DEF At, Goto, GoOn, Done, table, locals, sets, reader, PCs
<1>0. t \in Threads /\ t \in Active
  BY ThreadsActive
<1>1. CASE NewPeer(t)
  <2>1. PICK moved \in BOOLEAN :
          /\ tbl' = PeerNew(tbl, moved)
          /\ ptr' = [ptr EXCEPT ![t] = Ptr(tbl', tbl.count)]
    BY <1>1 DEF NewPeer
  <2>2. tbl' \in Tables /\ IteratorInBounds' /\ tbl.count \in Slots
    BY <1>1, <2>1, PeerNewTable
       DEF NewPeer, TypeInv, TypeOK, IteratorInBounds, InBounds
  <2>3. ptr' \in [Threads -> Ptrs]
    BY <1>0, <2>1, <2>2 DEF TypeInv, TypeOK, Ptrs, Ptr, Tables
  <2>4. pc' \in [Threads -> PCs]
    BY <1>0, <1>1 DEF NewPeer, TypeInv, TypeOK
  <2>5. QED
    BY <1>1, <2>2, <2>3, <2>4 DEF NewPeer, TypeInv, TypeOK
<1>2. CASE FillProbe(t)
  <2> DEFINE e == [Peer(t) EXCEPT !.addr = peeraddr[t], !.port = 1]
  <2>1. e \in Entry
    BY <1>0, <1>2, PeerEntry DEF FillProbe, TypeInv, TypeOK, Entry
  <2>2. tbl' \in Tables /\ IteratorInBounds'
    BY <1>0, <1>2, <2>1, StoreTable DEF FillProbe
  <2>3. QED
    BY <1>0, <1>2, <2>2 DEF FillProbe, TypeInv, TypeOK
<1>3. CASE Compare(t)
  <2>1. PeerExists(tbl, ptr[t].slot) \in Ptrs
    BY <1>0, <1>3, PeerEntry, PeerExistsPtr DEF Compare, TypeInv, TypeOK
  <2>2. QED
    BY <1>0, <1>3, <2>1 DEF Compare, TypeInv, TypeOK, IteratorInBounds
<1>4. CASE RemoveProbe(t)
  <2>1. tbl' \in Tables /\ IteratorInBounds'
    BY <1>4, RemovePeerTable DEF RemoveProbe
  <2>2. due' \in [Threads -> SUBSET Keys]
    BY <1>4, RemovedType DEF RemoveProbe
  <2>3. NoPtr \in Ptrs /\ NOSOCK \in Socks
    BY DEF Ptrs, Socks
  <2>4. /\ pc' \in [Threads -> PCs]
        /\ ptr' \in [Threads -> Ptrs] /\ aux' \in [Threads -> Ptrs]
        /\ peeraddr' \in [Threads -> Addrs \cup {NoAddr}]
        /\ sock' \in [Threads -> Socks]
    BY <1>0, <1>4, <2>3 DEF RemoveProbe, TypeInv, TypeOK
  <2>5. QED
    BY <1>4, <2>1, <2>2, <2>4 DEF RemoveProbe, TypeInv, TypeOK
<1>5. CASE AddToSet(t)
  <2> DEFINE i == Peer(t).isock
             o == Peer(t).osock
             w == IF o >= 0 THEN o ELSE i
             r == IF i >= 0 THEN i ELSE o
  <2>1. i \in Socks /\ o \in Socks
    BY <1>0, <1>5, PeerEntry DEF AddToSet, Entry
  <2>2. (o >= 0 \/ i >= 0) => w \in Fds /\ r \in Fds
    BY <2>1, FdsAssumption DEF Socks, NOSOCK, SOCKET_ONEWAY
  <2>3. \/ /\ o >= 0 \/ i >= 0
           /\ wset' = wset \cup {w} /\ rset' = rset \cup {r}
           /\ wmax' = IF w > wmax THEN w ELSE wmax
           /\ rmax' = IF r > rmax THEN r ELSE rmax
        \/ UNCHANGED sets
    BY <1>5 DEF AddToSet
  <2> HIDE DEF w, r
  <2>4. /\ rset' \subseteq Fds /\ wset' \subseteq Fds
        /\ rmax' \in Nat \cup {-1} /\ wmax' \in Nat \cup {-1}
    BY <2>2, <2>3, FdsAssumption DEF TypeInv, TypeOK
  <2>5. NoPtr \in Ptrs /\ NOSOCK \in Socks
    BY DEF Ptrs, Socks
  <2>6. /\ pc' \in [Threads -> PCs]
        /\ ptr' \in [Threads -> Ptrs] /\ aux' \in [Threads -> Ptrs]
        /\ peeraddr' \in [Threads -> Addrs \cup {NoAddr}]
        /\ sock' \in [Threads -> Socks]
    BY <1>0, <1>5, <2>5 DEF AddToSet, TypeInv, TypeOK
  <2>7. QED
    BY <1>5, <2>4, <2>6 DEF AddToSet, TypeInv, TypeOK, IteratorInBounds
<1>6. CASE Reply(t)
  <2>1. NoPtr \in Ptrs /\ NOSOCK \in Socks
    BY DEF Ptrs, Socks
  <2>2. QED
    BY <1>0, <1>6, <2>1 DEF Reply, TypeInv, TypeOK, IteratorInBounds
<1>7. CASE NextRelease(t)
  <2>1. NoPtr \in Ptrs
    BY DEF Ptrs
  <2>2. QED
    BY <1>0, <1>7, <2>1 DEF NextRelease, TypeInv, TypeOK, IteratorInBounds
<1>8. CASE NextEntry(t)
  <2>1. /\ MaxSize \in Nat /\ tbl \in Tables
        /\ tbl.count \in 0..MaxSize /\ tbl.iter \in 0..MaxSize
        /\ tbl.iter < tbl.count /\ tbl.size \in 1..MaxSize
    BY <1>8, SizeAssumption DEF NextEntry, HasNext, TypeInv, TypeOK, Tables
  <2>2. tbl.iter \in Slots
    BY <2>1 DEF Slots
  <2>3. tbl.iter + 1 \in 0..MaxSize /\ tbl.iter + 1 <= tbl.count
    BY <2>1
  <2>4. tbl' \in Tables /\ IteratorInBounds'
    BY <1>8, <2>1, <2>3
       DEF NextEntry, Advance, TypeInv, TypeOK, Tables, IteratorInBounds
  <2>5. Ptr(tbl, tbl.iter) \in Ptrs
    BY <2>1, <2>2 DEF Ptr, Ptrs, Tables
  <2>6. QED
    BY <1>0, <1>8, <2>4, <2>5 DEF NextEntry, TypeInv, TypeOK
<1>9. CASE NextEnd(t)
  <2>1. tbl' \in Tables /\ IteratorInBounds'
    BY <1>9, SizeAssumption
       DEF NextEnd, Rewind, TypeInv, TypeOK, Tables, IteratorInBounds
  <2>2. NoPtr \in Ptrs /\ NOSOCK \in Socks
    BY DEF Ptrs, Socks
  <2>3. /\ pc' \in [Threads -> PCs]
        /\ ptr' \in [Threads -> Ptrs] /\ aux' \in [Threads -> Ptrs]
        /\ peeraddr' \in [Threads -> Addrs \cup {NoAddr}]
        /\ sock' \in [Threads -> Socks]
    BY <1>0, <1>9, <2>2 DEF NextEnd, TypeInv, TypeOK
  <2>4. due' \in [Threads -> SUBSET Keys]
    BY <1>9 DEF NextEnd, TypeInv, TypeOK
  <2>5. QED
    BY <1>9, <2>1, <2>3, <2>4 DEF NextEnd, TypeInv, TypeOK
<1>10. QED
  BY <1>1, <1>2, <1>3, <1>4, <1>5, <1>6, <1>7, <1>8, <1>9 DEF Shared

\* A failure changes the status only.
LEMMA FailureTypes ==
  ASSUME TypeInv, strayed' \in BOOLEAN, NEW t \in Active, Failure(t)
  PROVE  TypeInv'
BY DEF Failure, UseDangling, Overrun, SendAborts, AddAborts, Fail, table, locals,
       reader, sets, TypeInv, TypeOK, IteratorInBounds

\* connection_thread
LEMMA ConnTypes ==
  ASSUME TypeInv, strayed' \in BOOLEAN, Conn, "conn" \in Active
  PROVE  TypeInv'
<1> USE DEF At, Goto, GoOn, Done, table, locals, sets, reader, PCs
<1>0. /\ "conn" \in Threads
      /\ NoPtr \in Ptrs /\ NOSOCK \in Socks /\ SOCKET_ONEWAY \in Socks
  BY DEF Threads, Ptrs, Socks
<1>1. ASSUME NEW a \in Addrs, Accept(a)
      PROVE  TypeInv'
  <2>1. LowestFd \in Socks
    BY <1>1, LowestFdOpen DEF Accept, Socks
  <2>2. QED
    BY <1>0, <1>1, <2>1 DEF Accept, TypeInv, TypeOK, IteratorInBounds
<1>2. CASE ConnFill
  <2> DEFINE e == [Peer("conn") EXCEPT !.addr = peeraddr["conn"], !.port = 1]
  <2>1. e \in Entry
    BY <1>0, <1>2, PeerEntry DEF ConnFill, TypeInv, TypeOK, Entry
  <2>2. tbl' \in Tables /\ IteratorInBounds'
    BY <1>0, <1>2, <2>1, StoreTable DEF ConnFill
  <2>3. QED
    BY <1>0, <1>2, <2>2 DEF ConnFill, TypeInv, TypeOK
<1>3. CASE ConnExists
  <2>1. PeerExists(tbl, ptr["conn"].slot) \in Ptrs
    BY <1>0, <1>3, PeerEntry, PeerExistsPtr DEF ConnExists, TypeInv, TypeOK
  <2>2. QED
    BY <1>0, <1>3, <2>1 DEF ConnExists, TypeInv, TypeOK, IteratorInBounds
<1>4. CASE ConnUnprobe
  <2>1. tbl' \in Tables /\ IteratorInBounds'
    BY <1>4, RemovePeerTable DEF ConnUnprobe
  <2>2. due' \in [Threads -> SUBSET Keys]
    BY <1>4, RemovedType DEF ConnUnprobe
  <2>3. QED
    BY <1>0, <1>4, <2>1, <2>2 DEF ConnUnprobe, TypeInv, TypeOK
<1>5. CASE ConnUpgradeKey \/ ConnKey
  <2>1. sock["conn"] \in Socks
    BY <1>0 DEF TypeInv, TypeOK
  <2>2. /\ Points("conn")
        /\ KeyAccepted("conn", sock["conn"]) \/ KeyRefused("conn")
    BY <1>5 DEF ConnUpgradeKey, ConnKey
  <2>3. tbl' \in Tables /\ IteratorInBounds'
    BY <1>0, <2>1, <2>2, KeyAcceptedTable, KeyRefusedTable
  <2>4. due' \in [Threads -> SUBSET Keys]
    BY <1>5, RemovedType DEF ConnUpgradeKey, ConnKey
  <2>5. /\ pc' \in [Threads -> PCs]
        /\ ptr' \in [Threads -> Ptrs] /\ aux' \in [Threads -> Ptrs]
        /\ peeraddr' \in [Threads -> Addrs \cup {NoAddr}]
        /\ sock' \in [Threads -> Socks]
    BY <1>0, <1>5 DEF ConnUpgradeKey, ConnKey, TypeInv, TypeOK
  <2>6. QED
    BY <1>5, <2>3, <2>4, <2>5 DEF ConnUpgradeKey, ConnKey, TypeInv, TypeOK
<1>6. CASE ConnClearWrite
  BY <1>0, <1>6 DEF ConnClearWrite, TypeInv, TypeOK, IteratorInBounds
<1>7. CASE ConnClearRead
  BY <1>0, <1>7 DEF ConnClearRead, TypeInv, TypeOK, IteratorInBounds
<1>8. CASE ConnSocket
  <2>1. PICK o \in Socks :
          /\ Store("conn", [Peer("conn") EXCEPT !.osock = o])
          /\ freefds' \subseteq Fds
    BY <1>0, <1>8, LowestFdOpen DEF ConnSocket, TypeInv, TypeOK, Socks
  <2> DEFINE e == [Peer("conn") EXCEPT !.osock = o]
  <2>2. e \in Entry
    BY <1>0, <1>8, PeerEntry DEF ConnSocket, Entry
  <2>3. tbl' \in Tables /\ IteratorInBounds'
    BY <1>0, <1>8, <2>1, <2>2, StoreTable DEF ConnSocket
  <2>4. QED
    BY <1>0, <1>8, <2>1, <2>3 DEF ConnSocket, TypeInv, TypeOK
<1>9. CASE ConnConnect
  <2> DEFINE e == [Peer("conn") EXCEPT !.osock = SOCKET_ONEWAY]
  <2>1. e \in Entry
    BY <1>0, <1>9, PeerEntry DEF ConnConnect, Entry
  <2>2. tbl' = tbl \/ Store("conn", e)
    BY <1>9 DEF ConnConnect
  <2>3. tbl' \in Tables /\ IteratorInBounds'
    BY <1>0, <1>9, <2>1, <2>2, StoreTable
       DEF ConnConnect, TypeInv, TypeOK, IteratorInBounds
  <2>4. QED
    BY <1>0, <1>9, <2>3 DEF ConnConnect, TypeInv, TypeOK
<1>10. QED
  BY <1>1, <1>2, <1>3, <1>4, <1>5, <1>6, <1>7, <1>8, <1>9 DEF Conn

\* try_connect_loop
LEMMA TryTypes ==
  ASSUME TypeInv, strayed' \in BOOLEAN, Try, "try" \in Active
  PROVE  TypeInv'
<1> USE DEF At, Goto, GoOn, Done, table, locals, sets, reader, PCs
<1>0. /\ "try" \in Threads
      /\ NoPtr \in Ptrs /\ NOSOCK \in Socks /\ SOCKET_ONEWAY \in Socks
  BY DEF Threads, Ptrs, Socks
<1>1. ASSUME NEW a \in Addrs, TryPeer(a)
      PROVE  TypeInv'
  BY <1>0, <1>1 DEF TryPeer, TypeInv, TypeOK, IteratorInBounds
<1>2. CASE TrySocket
  <2>1. freefds # {} => LowestFd \in Socks
    BY LowestFdOpen DEF Socks
  <2>2. QED
    BY <1>0, <1>2, <2>1 DEF TrySocket, TypeInv, TypeOK, IteratorInBounds
<1>3. CASE TryFill
  <2> DEFINE e == [Peer("try") EXCEPT !.addr = peeraddr["try"],
                                      !.osock = sock["try"],
                                      !.isock = SOCKET_ONEWAY, !.port = 1]
  <2>1. e \in Entry
    BY <1>0, <1>3, PeerEntry DEF TryFill, TypeInv, TypeOK, Entry
  <2>2. tbl' \in Tables /\ IteratorInBounds'
    BY <1>0, <1>3, <2>1, StoreTable DEF TryFill
  <2>3. QED
    BY <1>0, <1>3, <2>2 DEF TryFill, TypeInv, TypeOK
<1>4. CASE TryKey
  <2>1. tbl' \in Tables /\ IteratorInBounds'
    BY <1>0, <1>4, KeyAcceptedTable, KeyRefusedTable DEF TryKey
  <2>2. due' \in [Threads -> SUBSET Keys]
    BY <1>4, RemovedType DEF TryKey
  <2>3. QED
    BY <1>0, <1>4, <2>1, <2>2 DEF TryKey, TypeInv, TypeOK
<1>5. QED
  BY <1>1, <1>2, <1>3, <1>4 DEF Try

\* read_thread
LEMMA ReadTypes ==
  ASSUME TypeInv, strayed' \in BOOLEAN, Read, "read" \in Active
  PROVE  TypeInv'
<1> USE DEF At, Goto, GoOn, Done, table, locals, sets, reader, PCs
<1>0. /\ "read" \in Threads
      /\ NoPtr \in Ptrs /\ NOSOCK \in Socks
  BY DEF Threads, Ptrs, Socks
<1>1. CASE Select
  <2>1. LiveKeys(tbl) \subseteq Keys
    BY LiveKeysType DEF TypeInv, TypeOK
  <2>2. QED
    BY <1>0, <1>1, <2>1
       DEF Select, StartRound, TypeInv, TypeOK, IteratorInBounds
<1>2. CASE ReadNothing \/ ReadHeader
  BY <1>0, <1>2 DEF ReadNothing, ReadHeader, TypeInv, TypeOK, IteratorInBounds
<1>3. CASE ReadHangUp
  BY <1>0, <1>3 DEF ReadHangUp, TypeInv, TypeOK, IteratorInBounds
<1>4. CASE ReadForget
  BY <1>0, <1>4 DEF ReadForget, TypeInv, TypeOK, IteratorInBounds
<1>5. CASE ReadEvent
  <2>1. Peer("read").addr \in Addrs \cup {NoAddr}
    BY <1>0, <1>5, PeerEntry DEF ReadEvent, Entry
  <2>2. QED
    BY <1>0, <1>5, <2>1 DEF ReadEvent, TypeInv, TypeOK, IteratorInBounds
<1>6. CASE ReadRemove
  <2>1. /\ tbl' \in Tables /\ IteratorInBounds'
        /\ due' \in [Threads -> SUBSET Keys]
    BY <1>6, RemovePeerTable, RemovedType
       DEF ReadRemove, TypeInv, TypeOK, IteratorInBounds
  <2>2. QED
    BY <1>0, <1>6, <2>1 DEF ReadRemove, TypeInv, TypeOK
<1>7. QED
  BY <1>1, <1>2, <1>3, <1>4, <1>5, <1>6 DEF Read

\* The main loop
LEMMA MainTypes ==
  ASSUME TypeInv, strayed' \in BOOLEAN, Main, "main" \in Active
  PROVE  TypeInv'
<1> USE DEF At, Goto, table, locals, sets, reader, PCs
<1>0. "main" \in Threads
  BY DEF Threads
<1>1. ASSUME NEW k \in {"list", "send"}, MainRound(k)
      PROVE  TypeInv'
  <2>1. LiveKeys(tbl) \subseteq Keys
    BY LiveKeysType DEF TypeInv, TypeOK
  <2>2. QED
    BY <1>0, <1>1, <2>1
       DEF MainRound, StartRound, TypeInv, TypeOK, IteratorInBounds
<1>2. ASSUME NEW a \in Addrs, MainLookup(a)
      PROVE  TypeInv'
  BY <1>0, <1>2 DEF MainLookup, TypeInv, TypeOK, IteratorInBounds
<1>3. CASE MainVisit
  BY <1>0, <1>3 DEF MainVisit, TypeInv, TypeOK, IteratorInBounds
<1>4. QED
  BY <1>1, <1>2, <1>3 DEF Main

\* The core starts with an empty table of the initial size.
LEMMA InitTypes == Init => TypeInv
<1> SUFFICES ASSUME Init
             PROVE  TypeInv
  OBVIOUS
<1>1. NewTable \in Tables /\ NewTable.iter <= NewTable.count
      /\ NewTable.count <= NewTable.size
  BY SizeAssumption DEF NewTable, Tables, Blank, Entry, Keys, Socks
<1>2. NoPtr \in Ptrs /\ NOSOCK \in Socks /\ "idle" \in PCs
  BY DEF Ptrs, Socks, PCs
<1>3. QED
  BY <1>1, <1>2 DEF Init, TypeInv, TypeOK, IteratorInBounds

\* Every step of every thread preserves the types and the bounds.
LEMMA StepTypes ==
  ASSUME TypeInv, [Next]_vars
  PROVE  TypeInv'
<1>1. CASE Next
  <2>1. PICK t \in Active : Step(t)
    BY <1>1 DEF Next
  <2>2. strayed' \in BOOLEAN
    BY <2>1 DEF Step
  <2>3. QED
    BY <2>1, <2>2, SharedTypes, FailureTypes, ConnTypes, TryTypes, ReadTypes,
       MainTypes DEF Step
<1>2. CASE UNCHANGED vars
  BY <1>2 DEF vars, TypeInv, TypeOK, IteratorInBounds
<1>3. QED
  BY <1>1, <1>2

-----------------------------------------------------------------------------

(***************************************************************************)
(* The state of the core stays well-typed, and the iterator and the count   *)
(* of the table stay in bounds (TypeOK and IteratorInBounds together are    *)
(* inductive).                                                              *)
(***************************************************************************)
THEOREM Typing == Spec => []TypeInv
<1>1. Init => TypeInv
  BY InitTypes
<1>2. TypeInv /\ [Next]_vars => TypeInv'
  BY StepTypes
<1>3. QED
  BY <1>1, <1>2, PTL DEF Spec

(***************************************************************************)
(* Every variable keeps its type: in particular peer_new finds an identity  *)
(* for every new entry, and no step makes a socket set hold a special value *)
(* in place of a descriptor.                                                *)
(***************************************************************************)
THEOREM CoreTypes == Spec => []TypeOK
<1>1. TypeInv => TypeOK
  BY DEF TypeInv
<1>2. QED
  BY <1>1, Typing, PTL

(***************************************************************************)
(* The iterator shared by all rounds stays inside the table, and the table  *)
(* inside its array, whatever is added and removed during a round.          *)
(***************************************************************************)
THEOREM IteratorStaysInBounds == Spec => []IteratorInBounds
<1>1. TypeInv => IteratorInBounds
  BY DEF TypeInv
<1>2. QED
  BY <1>1, Typing, PTL

-----------------------------------------------------------------------------
\* The invariant of m_lock

\* An owner is where owners may be.
LEMMA OwnerHolds ==
  ASSUME LockDiscipline, NEW t \in Threads, mlock = t
  PROVE  Holds(t, pc[t])
BY NoThreadAssumption DEF LockDiscipline

\* A step of t that leaves m_lock alone keeps the discipline if it takes an
\* owner to where owners may be, and nobody else into the middle of a round.
LEMMA LockKept ==
  ASSUME TypeInv, LockDiscipline, NEW t \in Threads, NEW l \in PCs,
         mlock' = mlock, Goto(t, l),
         mlock = t => Holds(t, l),
         l \in {"visit", "r_body", "r_clr", "b_clr"} => mlock = t
  PROVE  LockDiscipline'
<1>1. pc \in [Threads -> PCs] /\ pc' = [pc EXCEPT ![t] = l]
  BY DEF TypeInv, TypeOK, Goto
<1>2. pc'[t] = l /\ \A u \in Threads \ {t} : pc'[u] = pc[u]
  BY <1>1
<1>3. mlock \in Threads \cup {NoThread}
  BY DEF TypeInv, TypeOK
<1>4. mlock' # NoThread => Holds(mlock', pc'[mlock'])
  BY <1>2, <1>3 DEF LockDiscipline
<1>5. \A u \in Threads :
        pc'[u] \in {"visit", "r_body", "r_clr", "b_clr"} => mlock' = u
  BY <1>2 DEF LockDiscipline
<1>6. QED
  BY <1>4, <1>5 DEF LockDiscipline

\* The calls the threads share: peer_next is the only one that changes m_lock.
LEMMA SharedLock ==
  ASSUME TypeInv, LockDiscipline, NEW t \in Active, Shared(t)
  PROVE  LockDiscipline'
<1>0. t \in Threads
  BY ThreadsActive
<1>1. CASE NewPeer(t)
  <2>1. PICK l \in {"p_fill", "c_fill", "t_fill"} :
          /\ Goto(t, l) /\ mlock' = mlock
          /\ \/ l = "p_fill" /\ pc[t] = "p_new"
             \/ pc[t] \in {"c_new", "t_new"}
    BY <1>1 DEF NewPeer, At
  <2>2. QED
    BY <1>0, <2>1, OwnerHolds, LockKept DEF Holds, PCs
<1>2. CASE FillProbe(t)
  BY <1>0, <1>2, OwnerHolds, LockKept DEF FillProbe, At, Holds, PCs
<1>3. CASE Compare(t)
  BY <1>0, <1>3, OwnerHolds, LockKept DEF Compare, At, table, Holds, PCs
<1>4. CASE RemoveProbe(t)
  <2>1. /\ pc[t] = "p_remove" /\ mlock' = mlock
        /\ \/ t \in {"read", "main"} /\ Goto(t, "reply")
           \/ t = "try" /\ Goto(t, "t_socket")
           \/ t = "read" /\ Goto(t, "rel")
           \/ t \in {"try", "main"} /\ Goto(t, "idle")
    BY <1>4 DEF RemoveProbe, At, GoOn, Done
  <2>2. QED
    BY <1>0, <2>1, OwnerHolds, LockKept DEF Holds, PCs
<1>5. CASE AddToSet(t)
  <2>1. /\ pc[t] = "add" /\ mlock' = mlock
        /\ Goto(t, "t_key") \/ Goto(t, "idle")
    BY <1>5 DEF AddToSet, At, GoOn, Done, table
  <2>2. QED
    BY <1>0, <2>1, OwnerHolds, LockKept DEF Holds, PCs
<1>6. CASE Reply(t)
  <2>1. pc[t] = "reply" /\ mlock' = mlock
    BY <1>6 DEF Reply, At, table
  <2>2. \/ t = "read" /\ Goto(t, "rel")
        \/ t = "main" /\ Goto(t, "idle")
    BY <1>6 DEF Reply, GoOn, Done
  <2>3. QED
    BY <1>0, <2>1, <2>2, OwnerHolds, LockKept DEF Holds, PCs
<1>7. CASE NextRelease(t)
  <2>1. /\ mlock' = IF mlock = t THEN NoThread ELSE mlock
        /\ pc' = [pc EXCEPT ![t] = "acq"] /\ pc[t] = "rel"
    BY <1>7 DEF NextRelease, At, Goto
  <2>2. pc \in [Threads -> PCs] /\ mlock \in Threads \cup {NoThread}
    BY DEF TypeInv, TypeOK
  <2>3. QED
    BY <1>0, <2>1, <2>2, NoThreadAssumption DEF LockDiscipline
<1>8. CASE NextEntry(t)
  <2>1. /\ mlock = NoThread /\ mlock' = t
        /\ pc' = [pc EXCEPT ![t] = "visit"]
    BY <1>8 DEF NextEntry, Goto
  <2>2. pc \in [Threads -> PCs]
    BY DEF TypeInv, TypeOK
  <2>3. QED
    BY <1>0, <2>1, <2>2, NoThreadAssumption DEF LockDiscipline, Holds
<1>9. CASE NextEnd(t)
  <2>1. /\ mlock = NoThread /\ mlock' = mlock
        /\ Goto(t, "r_del") \/ Goto(t, "idle")
    BY <1>9 DEF NextEnd, GoOn, Done
  <2>2. QED
    BY <1>0, <2>1, NoThreadAssumption, LockKept DEF PCs
<1>10. QED
  BY <1>1, <1>2, <1>3, <1>4, <1>5, <1>6, <1>7, <1>8, <1>9 DEF Shared

\* connection_thread and try_connect_loop never own m_lock between two steps.
LEMMA DialLock ==
  ASSUME TypeInv, LockDiscipline, NEW t \in {"conn", "try"},
         (t = "conn" /\ Conn) \/ (t = "try" /\ Try)
  PROVE  LockDiscipline'
<1>0. t \in Threads
  BY DEF Threads
<1>1. PICK l \in PCs :
        /\ Goto(t, l) /\ mlock' = mlock
        /\ pc[t] \notin {"visit", "r_body", "r_clr", "b_clr", "rel"}
        /\ l \notin {"visit", "r_body", "r_clr", "b_clr", "rel"}
  <2>1. CASE t = "conn"
    BY <2>1 DEF Conn, Accept, ConnFill, ConnExists, ConnUnprobe,
       ConnUpgradeKey, ConnClearWrite, ConnClearRead, ConnKey, ConnSocket,
       ConnConnect, At, GoOn, Done, table, PCs
  <2>2. CASE t = "try"
    BY <2>2 DEF Try, TryPeer, TrySocket, TryFill, TryKey, At, GoOn, Done,
       table, PCs
  <2>3. QED
    BY <2>1, <2>2
<1>2. QED
  BY <1>0, <1>1, OwnerHolds, LockKept DEF Holds

\* read_thread and the main loop
LEMMA RoundLock ==
  ASSUME TypeInv, LockDiscipline, NEW t \in {"read", "main"},
         (t = "read" /\ Read) \/ (t = "main" /\ Main)
  PROVE  LockDiscipline'
<1>0. t \in Threads
  BY DEF Threads
<1>1. PICK l \in PCs :
        /\ Goto(t, l) /\ mlock' = mlock
        /\ \/ /\ pc[t] \in {"idle", "r_del"}
              /\ l \notin {"visit", "r_body", "r_clr", "b_clr"}
           \/ /\ pc[t] \in {"visit", "r_body", "r_clr", "b_clr"}
              /\ l \in {"rel", "r_body", "r_clr", "b_clr"}
           \/ t = "read" /\ l = "p_new"
  <2>1. CASE t = "read"
    BY <2>1 DEF Read, Select, StartRound, ReadNothing, ReadHeader, ReadHangUp, ReadForget,
       ReadEvent, ReadRemove, At, Done, table, PCs
  <2>2. CASE t = "main"
    BY <2>2 DEF Main, MainRound, StartRound, MainVisit, MainLookup, At, table,
       PCs
  <2>3. QED
    BY <2>1, <2>2
<1>2. pc[t] \in {"visit", "r_body", "r_clr", "b_clr"} => mlock = t
  BY <1>0 DEF LockDiscipline
<1>3. QED
  BY <1>0, <1>1, <1>2, OwnerHolds, LockKept DEF Holds

(***************************************************************************)
(* m_lock is owned only by a thread in the middle of a round, and a thread  *)
(* that visits an entry owns it.                                            *)
(***************************************************************************)
THEOREM LockIsDisciplined == Spec => []LockDiscipline
<1>1. Init => LockDiscipline
  BY DEF Init, LockDiscipline
<1>2. TypeInv /\ LockDiscipline /\ [Next]_vars => LockDiscipline'
  <2> SUFFICES ASSUME TypeInv, LockDiscipline, [Next]_vars
               PROVE  LockDiscipline'
    OBVIOUS
  <2>1. CASE Next
    <3>1. PICK t \in Active : Step(t)
      BY <2>1 DEF Next
    <3>2. ASSUME Failure(t)
          PROVE  LockDiscipline'
      BY <3>2 DEF Failure, UseDangling, Overrun, SendAborts, AddAborts, Fail,
         table, LockDiscipline
    <3>3. ASSUME (t = "conn" /\ Conn) \/ (t = "try" /\ Try)
          PROVE  LockDiscipline'
      BY <3>3, DialLock
    <3>4. ASSUME (t = "read" /\ Read) \/ (t = "main" /\ Main)
          PROVE  LockDiscipline'
      BY <3>4, RoundLock
    <3>5. QED
      BY <3>1, <3>2, <3>3, <3>4, SharedLock DEF Step
  <2>2. CASE UNCHANGED vars
    BY <2>2 DEF vars, LockDiscipline
  <2>3. QED
    BY <2>1, <2>2
<1>3. QED
  BY <1>1, <1>2, Typing, PTL DEF Spec

-----------------------------------------------------------------------------
\* The maxima of the sets

\* Sets that lose descriptors, or keep them, stay covered.
LEMMA CoverKept ==
  ASSUME SelectCovers, rset' \subseteq rset, wset' \subseteq wset,
         rmax' = rmax, wmax' = wmax
  PROVE  SelectCovers'
BY DEF SelectCovers

\* Sockets and the special values in their place are integers.
LEMMA SocksInt == \A s \in Socks : s \in Int
BY FdsAssumption DEF Socks, NOSOCK, SOCKET_ONEWAY

\* A maximum raised to a new element covers the element too.
LEMMA RaisedMax ==
  ASSUME NEW S \in SUBSET Int, NEW m \in Int, NEW x \in Int,
         \A s \in S : s <= m
  PROVE  \A s \in S \cup {x} : s <= IF x > m THEN x ELSE m
OBVIOUS

\* peer_addtoset raises a maximum with the descriptor it adds.
LEMMA AddCovers ==
  ASSUME TypeInv, SelectCovers, NEW t \in Active, AddToSet(t)
  PROVE  SelectCovers'
<1> DEFINE i == Peer(t).isock
           o == Peer(t).osock
           w == IF o >= 0 THEN o ELSE i
           r == IF i >= 0 THEN i ELSE o
<1>1. i \in Socks /\ o \in Socks
  BY ThreadsActive, PeerEntry DEF AddToSet, Entry
<1>2. i \in Int /\ o \in Int
  BY <1>1, SocksInt
<1> HIDE DEF i, o
<1>3. w \in Int /\ r \in Int
  BY <1>2
<1> USE DEF i, o
<1>4. \/ /\ wset' = wset \cup {w} /\ rset' = rset \cup {r}
         /\ wmax' = IF w > wmax THEN w ELSE wmax
         /\ rmax' = IF r > rmax THEN r ELSE rmax
      \/ UNCHANGED sets
  BY DEF AddToSet
<1>5. /\ rset \subseteq Int /\ wset \subseteq Int
      /\ rmax \in Int /\ wmax \in Int
  BY FdsAssumption DEF TypeInv, TypeOK
<1> HIDE DEF w, r
<1>6. CASE UNCHANGED sets
  BY <1>6, CoverKept DEF sets
<1>7. CASE /\ wset' = wset \cup {w} /\ rset' = rset \cup {r}
           /\ wmax' = IF w > wmax THEN w ELSE wmax
           /\ rmax' = IF r > rmax THEN r ELSE rmax
  BY <1>3, <1>5, <1>7, RaisedMax DEF SelectCovers
<1>8. QED
  BY <1>4, <1>6, <1>7

(***************************************************************************)
(* select looks at every descriptor of the read and the write set.          *)
(***************************************************************************)
THEOREM SelectSeesAll == Spec => []SelectCovers
<1>1. Init => SelectCovers
  BY DEF Init, SelectCovers
<1>2. TypeInv /\ SelectCovers /\ [Next]_vars => SelectCovers'
  <2> SUFFICES ASSUME TypeInv, SelectCovers, [Next]_vars
               PROVE  SelectCovers'
    OBVIOUS
  <2>1. CASE Next
    <3>1. PICK t \in Active : Step(t)
      BY <2>1 DEF Next
    <3>2. ASSUME Shared(t), ~AddToSet(t)
          PROVE  SelectCovers'
      BY <3>2, CoverKept DEF Shared, NewPeer, FillProbe, Compare, RemoveProbe,
         Reply, NextRelease, NextEntry, NextEnd, sets
    <3>3. ASSUME Failure(t)
          PROVE  SelectCovers'
      BY <3>3, CoverKept DEF Failure, UseDangling, Overrun, SendAborts,
         AddAborts, Fail, sets
    <3>4. ASSUME Conn
          PROVE  SelectCovers'
      BY <3>4, CoverKept DEF Conn, Accept, ConnFill, ConnExists, ConnUnprobe,
         ConnUpgradeKey, ConnClearWrite, ConnClearRead, ConnKey, ConnSocket,
         ConnConnect, sets
    <3>5. ASSUME Try
          PROVE  SelectCovers'
      BY <3>5, CoverKept DEF Try, TryPeer, TrySocket, TryFill, TryKey, sets
    <3>6. ASSUME Read
          PROVE  SelectCovers'
      BY <3>6, CoverKept DEF Read, Select, ReadNothing, ReadHeader, ReadHangUp, ReadForget,
         ReadEvent, ReadRemove, sets
    <3>7. ASSUME Main
          PROVE  SelectCovers'
      BY <3>7, CoverKept DEF Main, MainRound, MainVisit, MainLookup, sets
    <3>8. QED
      BY <3>1, <3>2, <3>3, <3>4, <3>5, <3>6, <3>7, AddCovers DEF Step
  <2>2. CASE UNCHANGED vars
    BY <2>2, CoverKept DEF vars
  <2>3. QED
    BY <2>1, <2>2
<1>3. QED
  BY <1>1, <1>2, Typing, PTL DEF Spec

-----------------------------------------------------------------------------
\* The rounds

\* What a round needs of the table while it visits an entry.
SameRound == /\ tbl'.count = tbl.count /\ tbl'.gen = tbl.gen
             /\ tbl'.iter = tbl.iter

\* Writing an entry in place disturbs no round.
LEMMA StoreKeepsRound ==
  ASSUME TypeInv, NEW t \in Threads, NEW e, Store(t, e)
  PROVE  SameRound
BY DEF Store, SameRound, TypeInv, TypeOK, Tables

\* Neither does peer_free.
LEMMA FreeKeepsRound ==
  ASSUME TypeInv, NEW t \in Threads, KeyRefused(t)
  PROVE  SameRound
BY DEF KeyRefused, PeerFree, SameRound, TypeInv, TypeOK, Tables

\* A thread that moves on is not where it was.
LEMMA Moves ==
  ASSUME TypeInv, NEW t \in Threads, NEW l, Goto(t, l), l # pc[t]
  PROVE  pc'[t] # pc[t]
BY DEF Goto, TypeInv, TypeOK

\* Only peer_new, peer_remove and peer_next change what a round needs.  They
\* have m_lock when they do, and their thread moves on.
LEMMA RoundStep ==
  ASSUME TypeInv, NEW t \in Active, Step(t)
  PROVE  \/ SameRound
         \/ /\ mlock \in {NoThread, t}
            /\ pc'[t] # pc[t]
<1> USE DEF At, table, CanLock, GoOn, Done
<1>0. t \in Threads
  BY ThreadsActive
<1>1. CASE NewPeer(t)
  <2>1. PICK l \in {"p_fill", "c_fill", "t_fill"} : Goto(t, l) /\ l # pc[t]
    BY <1>1 DEF NewPeer
  <2>2. QED
    BY <1>0, <1>1, <2>1, Moves DEF NewPeer
<1>2. CASE FillProbe(t)
  BY <1>0, <1>2, StoreKeepsRound DEF FillProbe
<1>3. CASE RemoveProbe(t)
  <2>1. PICK l \in {"reply", "t_socket", "rel", "idle"} :
          Goto(t, l) /\ l # pc[t]
    BY <1>3 DEF RemoveProbe
  <2>2. QED
    BY <1>0, <1>3, <2>1, Moves DEF RemoveProbe
<1>4. CASE NextEntry(t)
  BY <1>0, <1>4, Moves DEF NextEntry
<1>5. CASE NextEnd(t)
  <2>1. PICK l \in {"r_del", "idle"} : Goto(t, l) /\ l # pc[t]
    BY <1>5 DEF NextEnd
  <2>2. QED
    BY <1>0, <1>5, <2>1, Moves DEF NextEnd
<1>6. CASE Compare(t) \/ AddToSet(t) \/ Reply(t) \/ NextRelease(t)
  BY <1>6 DEF Compare, AddToSet, Reply, NextRelease, SameRound
<1>7. CASE Failure(t)
  BY <1>7 DEF Failure, UseDangling, Overrun, SendAborts, AddAborts, Fail,
     SameRound
<1>8. CASE t = "conn" /\ Conn
  <2>1. CASE ConnFill
    BY <1>0, <1>8, <2>1, StoreKeepsRound DEF ConnFill
  <2>2. CASE ConnUnprobe
    BY <1>0, <1>8, <2>2, Moves DEF ConnUnprobe
  <2>3. CASE ConnUpgradeKey \/ ConnKey
    BY <1>0, <1>8, <2>3, StoreKeepsRound, FreeKeepsRound
       DEF ConnUpgradeKey, ConnKey, KeyAccepted
  <2>4. CASE ConnSocket
    BY <1>0, <1>8, <2>4, StoreKeepsRound DEF ConnSocket
  <2>5. CASE ConnConnect
    BY <1>0, <1>8, <2>5, StoreKeepsRound DEF ConnConnect, SameRound
  <2>6. CASE \/ \E a \in Addrs : Accept(a)
             \/ ConnExists \/ ConnClearWrite \/ ConnClearRead
    BY <2>6 DEF Accept, ConnExists, ConnClearWrite, ConnClearRead, SameRound
  <2>7. QED
    BY <1>8, <2>1, <2>2, <2>3, <2>4, <2>5, <2>6 DEF Conn
<1>9. CASE t = "try" /\ Try
  <2>1. CASE TryFill
    BY <1>0, <1>9, <2>1, StoreKeepsRound DEF TryFill
  <2>2. CASE TryKey
    BY <1>0, <1>9, <2>2, StoreKeepsRound, FreeKeepsRound
       DEF TryKey, KeyAccepted
  <2>3. CASE TrySocket \/ \E a \in Addrs : TryPeer(a)
    BY <2>3 DEF TrySocket, TryPeer, SameRound
  <2>4. QED
    BY <1>9, <2>1, <2>2, <2>3 DEF Try
<1>10. CASE t = "read" /\ Read
  <2>1. CASE ReadRemove
    BY <1>0, <1>10, <2>1, Moves DEF ReadRemove, SameRound
  <2>2. CASE \/ Select \/ ReadNothing \/ ReadHeader \/ ReadHangUp \/ ReadForget
             \/ ReadEvent
    BY <2>2 DEF Select, ReadNothing, ReadHeader, ReadHangUp, ReadForget, ReadEvent,
       SameRound
  <2>3. QED
    BY <1>10, <2>1, <2>2 DEF Read
<1>11. CASE t = "main" /\ Main
  BY <1>11 DEF Main, MainRound, MainLookup, MainVisit, SameRound
<1>12. QED
  BY <1>1, <1>2, <1>3, <1>4, <1>5, <1>6, <1>7, <1>8, <1>9, <1>10, <1>11
     DEF Step, Shared

(***************************************************************************)
(* No other thread adds or removes an entry, moves the array or advances    *)
(* the round while a thread is in the middle of a round.                    *)
(***************************************************************************)
THEOREM RoundsAreExclusive == Spec => RoundExclusive
<1> DEFINE A == \A t \in Threads :
                  (mlock = t /\ pc'[t] = pc[t])
                  => /\ tbl'.count = tbl.count /\ tbl'.gen = tbl.gen
                     /\ tbl'.iter = tbl.iter
<1>1. TypeInv /\ [Next]_vars => [A]_vars
  <2> SUFFICES ASSUME TypeInv, Next, NEW t \in Threads,
                      mlock = t, pc'[t] = pc[t]
               PROVE  SameRound
    BY DEF SameRound
  <2>1. PICK u \in Active : Step(u)
    BY DEF Next
  <2>2. QED
    BY <2>1, RoundStep, NoThreadAssumption
<1>2. QED
  BY <1>1, Typing, PTL DEF Spec, RoundExclusive
-----------------------------------------------------------------------------
\* The descriptors

\* Where connection_thread has a socket that is in no entry, and where the entry
\* with this socket is its own.
Carries == {"c_new", "c_fill", "c_exists", "c_unprobe", "c_upkey", "c_key"}
Dials == {"c_socket", "c_connect"}

\* An open descriptor, in a thread's hands or in an entry, is not closed.
Open ==
  /\ NoneClosed
  /\ \A t \in {"conn", "try"} : sock[t] \notin freefds
  /\ \A i \in Live(tbl) : /\ tbl.mem[i].isock \notin freefds
                          /\ tbl.mem[i].osock \notin freefds

\* The socket accepted is in one entry at most.
Single ==
  /\ pc["conn"] \in Carries => /\ sock["conn"] \in Fds
                               /\ \A i \in Live(tbl) : tbl.mem[i].isock # sock["conn"]
  /\ pc["conn"] \in Dials =>
       /\ "conn" \in Active /\ sock["conn"] \in Fds
       /\ \A i, j \in Live(tbl) : /\ tbl.mem[i].isock = sock["conn"]
                                  /\ tbl.mem[j].isock = sock["conn"]
                                  => i = j

\* The descriptor that may be closed is nowhere but in its entry.
Apart(o) ==
  /\ o \notin rset \cup wset
  /\ o # sock["try"] /\ o # sock["conn"]
  /\ \A i \in Live(tbl) \ {ptr["conn"].slot} :
       tbl.mem[i].isock # o /\ tbl.mem[i].osock # o
Closable == pc["conn"] = "c_connect" /\ Peer("conn").osock \in Fds
            => Apart(Peer("conn").osock)

Separate == Open /\ Single /\ Closable
SetsInv == ~strayed => OnCourse /\ Separate

-----------------------------------------------------------------------------
\* The entries of a table come from those of another one: the entries from the
\* k-th on have moved down by one, and new ones have no socket.

From(j, k) == IF j < k THEN j ELSE j + 1
SameSockets(e, d) == e.isock = d.isock /\ e.osock = d.osock
Moved(new, old, k) ==
  \A j \in Live(new) :
    \/ new.mem[j].isock = NOSOCK /\ new.mem[j].osock = NOSOCK
    \/ /\ From(j, k) \in Live(old)
       /\ SameSockets(new.mem[j], old.mem[From(j, k)])
Derived(new, old) == \E k \in Nat : Moved(new, old, k)

\* The counts of tables are natural numbers, and their entries have sockets.
LEMMA LiveEntries ==
  ASSUME NEW tb \in Tables
  PROVE  /\ tb.count \in Nat /\ Live(tb) \subseteq Slots
         /\ \A i \in Live(tb) : tb.mem[i].isock \in Socks /\ tb.mem[i].osock \in Socks
<1>1. MaxSize \in Nat /\ tb.count \in 0..MaxSize
  BY SizeAssumption DEF Tables
<1>2. Live(tb) \subseteq Slots
  BY <1>1 DEF Live, Slots
<1>3. QED
  BY <1>1, <1>2 DEF Tables, Entry

\* A table whose live entries keep their sockets.
LEMMA SameDerived ==
  ASSUME NEW tb \in Tables, NEW tc, tc.count = tb.count,
         \A i \in Live(tb) : SameSockets(tc.mem[i], tb.mem[i])
  PROVE  Derived(tc, tb)
<1>1. tb.count \in Nat /\ Live(tc) = Live(tb)
  BY LiveEntries DEF Live
<1>2. \A i \in Live(tc) : From(i, tb.count) = i
  BY <1>1 DEF Live, From
<1>3. QED
  BY <1>1, <1>2 DEF Derived, Moved

\* peer_new
LEMMA NewDerived ==
  ASSUME NEW tb \in Tables, InBounds(tb), CanGrow(tb), NEW moved \in BOOLEAN
  PROVE  Derived(PeerNew(tb, moved), tb)
<1> DEFINE tc == PeerNew(tb, moved)
           e == PeerInit(tb.mem[tb.count], FreshKey(tb))
<1>1. tb.count \in Slots /\ tb.count \in Nat /\ tb.mem \in [Slots -> Entry]
  BY PeerNewTable, LiveEntries DEF Tables
<1>2. e.isock = NOSOCK /\ e.osock = NOSOCK
  BY <1>1 DEF PeerInit, Entry
<1>3. tc.count = tb.count + 1 /\ tc.mem = [tb.mem EXCEPT ![tb.count] = e]
  BY DEF PeerNew
<1> HIDE DEF tc, e
<1>4. ASSUME NEW j \in Live(tc)
      PROVE  j = tb.count \/ (From(j, tb.count + 1) \in Live(tb)
                              /\ From(j, tb.count + 1) = j)
  BY <1>1, <1>3 DEF Live, From
<1>5. Live(tb) \subseteq Slots
  BY LiveEntries
<1>6. Moved(tc, tb, tb.count + 1)
  <2> SUFFICES ASSUME NEW j \in Live(tc)
               PROVE  \/ tc.mem[j].isock = NOSOCK /\ tc.mem[j].osock = NOSOCK
                      \/ /\ From(j, tb.count + 1) \in Live(tb)
                         /\ SameSockets(tc.mem[j], tb.mem[From(j, tb.count + 1)])
    BY DEF Moved
  <2>1. CASE j = tb.count
    BY <1>1, <1>2, <1>3, <2>1
  <2>2. CASE j # tb.count
    BY <1>1, <1>3, <1>4, <1>5, <2>2 DEF SameSockets
  <2>3. QED
    BY <2>1, <2>2
<1>7. QED
  BY <1>1, <1>6 DEF Derived, tc

\* peer_remove
LEMMA RemoveDerived ==
  ASSUME NEW tb \in Tables, InBounds(tb), NEW e, ~RemoveOverruns(tb, e)
  PROVE  Derived(PeerRemove(tb, e), tb)
<1> DEFINE tc == PeerRemove(tb, e)
           k == First(Equal(tb, e))
<1>1. tb.count \in Nat /\ Live(tb) \subseteq Slots /\ tb.mem \in [Slots -> Entry]
  BY LiveEntries DEF Tables
<1>2. CASE Equal(tb, e) = {}
  BY <1>2, SameDerived DEF PeerRemove, SameSockets
<1>3. CASE Equal(tb, e) # {}
  <2>1. Equal(tb, e) \in SUBSET Nat /\ Equal(tb, e) \subseteq Live(tb)
    BY <1>1 DEF Equal, Live
  <2>2. k \in Live(tb) /\ k \in Nat
    BY <1>3, <2>1, FirstInSet
  <2>3. tc.count = tb.count - 1 /\ tc = RemoveAt(tb, k)
    BY <1>3 DEF PeerRemove, RemoveAt, Tables
  <2>4. \A j \in Live(tc) : j \in Live(tb) /\ j + 1 \in Live(tb) /\ j \in Slots
    BY <1>1, <2>3 DEF Live
  <2> HIDE DEF k, tc
  <2>5. \A j \in Live(tc) : tc.mem[j] = tb.mem[From(j, k)]
    <3>1. CASE k + 1 < tb.count
      <4>1. tc.mem = [j \in Slots |-> IF k <= j /\ j <= tb.count
                                      THEN tb.mem[j + 1] ELSE tb.mem[j]]
        BY <2>3, <3>1 DEF RemoveAt, Tables
      <4>2. \A j \in Live(tc) : tc.mem[j] = IF k <= j THEN tb.mem[j + 1] ELSE tb.mem[j]
        BY <1>1, <2>3, <2>4, <4>1 DEF Live
      <4>3. QED
        BY <1>1, <2>2, <2>4, <4>2 DEF From, Live
    <3>2. CASE ~(k + 1 < tb.count)
      <4>1. tc.mem = PeerFree(tb, k).mem
        BY <2>3, <3>2 DEF RemoveAt, Tables
      <4>2. \A j \in Live(tc) : j # k /\ j < k
        BY <1>1, <2>2, <2>3, <3>2 DEF Live
      <4>3. \A j \in Live(tc) : tc.mem[j] = tb.mem[j]
        BY <2>4, <4>1, <4>2, <1>1 DEF PeerFree, Tables
      <4>4. QED
        BY <4>2, <4>3 DEF From
    <3>3. QED
      BY <3>1, <3>2
  <2>6. \A j \in Live(tc) : From(j, k) \in Live(tb)
    BY <2>4 DEF From
  <2>7. QED
    BY <2>2, <2>5, <2>6 DEF Derived, Moved, SameSockets, tc
<1>4. QED
  BY <1>2, <1>3


\* Two entries do not come from one.
LEMMA FromInjective ==
  ASSUME NEW k \in Nat, NEW i \in Nat, NEW j \in Nat, From(i, k) = From(j, k)
  PROVE  i = j
BY DEF From

\* Descriptors are none of the special values, so these are not free.
LEMMA FreeFds ==
  ASSUME TypeInv
  PROVE  /\ freefds \subseteq Fds /\ NOSOCK \notin Fds /\ SOCKET_ONEWAY \notin Fds
         /\ NOSOCK \notin freefds /\ SOCKET_ONEWAY \notin freefds
         /\ tbl \in Tables
BY FdsAssumption DEF TypeInv, TypeOK, NOSOCK, SOCKET_ONEWAY

\* A step that opens and closes no descriptor and stores none, and in which
\* connection_thread does not begin or end to dial.
ConnQuiet ==
  \/ pc'["conn"] \notin Carries \cup Dials
  \/ pc'["conn"] = pc["conn"] /\ ptr'["conn"] = ptr["conn"] /\ sock'["conn"] = sock["conn"]
  \/ pc["conn"] \in Carries /\ pc'["conn"] \in Carries /\ sock'["conn"] = sock["conn"]
Quiet ==
  /\ Derived(tbl', tbl)
  /\ freefds' = freefds /\ rset' \subseteq rset /\ wset' \subseteq wset
  /\ \A t \in {"conn", "try"} : sock'[t] \in {sock[t], NOSOCK}
  /\ ConnQuiet

\* The entry that is dialled for is still the one with the accepted socket, so no
\* other one has come into its place.
LEMMA DialledStays ==
  ASSUME TypeInv, OnCourse, OnCourse', Single, pc["conn"] = "c_connect",
         pc'["conn"] = "c_connect", ptr'["conn"] = ptr["conn"],
         sock'["conn"] = sock["conn"], NEW k \in Nat, Moved(tbl', tbl, k)
  PROVE  LET s == ptr["conn"].slot
         IN  /\ s \in Nat /\ s \in Live(tbl) /\ s \in Live(tbl') /\ From(s, k) = s
             /\ Peer("conn") = tbl.mem[s] /\ Peer("conn")' = tbl'.mem[s]
             /\ tbl'.mem[s].osock = tbl.mem[s].osock
             /\ tbl.mem[s].isock = sock["conn"]
<1> DEFINE s == ptr["conn"].slot
<1>1. "conn" \in Active /\ sock["conn"] \in Fds
  BY DEF Single, Dials
<1>2. s \in Live(tbl) /\ s \in Live(tbl')
  BY <1>1 DEF OnCourse, PointersLive, Derefs
<1>3. Peer("conn") = tbl.mem[s] /\ Peer("conn")' = tbl'.mem[s]
  BY DEF Peer
<1>4. tbl.mem[s].isock = sock["conn"] /\ tbl'.mem[s].isock = sock["conn"]
  BY <1>3 DEF OnCourse
<1>5. tbl'.mem[s].isock # NOSOCK
  BY <1>1, <1>4, FreeFds
<1>6. From(s, k) \in Live(tbl) /\ SameSockets(tbl'.mem[s], tbl.mem[From(s, k)])
  BY <1>2, <1>5 DEF Moved
<1>7. From(s, k) = s
  BY <1>2, <1>4, <1>6 DEF Single, Dials, SameSockets
<1>8. s \in Nat
  BY <1>2, FreeFds, LiveEntries DEF Live
<1>9. QED
  BY <1>2, <1>3, <1>4, <1>6, <1>7, <1>8 DEF SameSockets

\* A quiet step keeps descriptors open and in one place.
LEMMA QuietKeeps ==
  ASSUME TypeInv, OnCourse, OnCourse', Separate, Quiet
  PROVE  Separate'
<1>1. PICK k \in Nat : Moved(tbl', tbl, k)
  BY DEF Quiet, Derived
<1>2. tbl \in Tables /\ tbl.count \in Nat
  BY FreeFds, LiveEntries
<1>3. Open'
  BY <1>1, FreeFds DEF Separate, Open, NoneClosed, Quiet, Moved, SameSockets
<1>4. CASE pc'["conn"] \notin Carries \cup Dials
  BY <1>3, <1>4 DEF Separate, Single, Closable, Dials
<1>5. ASSUME pc'["conn"] \in Carries, pc["conn"] \in Carries,
             sock'["conn"] = sock["conn"]
      PROVE  Separate'
  <2>1. Single'
    BY <1>1, <1>5, FreeFds DEF Separate, Single, Moved, SameSockets, Carries, Dials
  <2>2. Closable'
    BY <1>5 DEF Closable, Carries
  <2>3. QED
    BY <1>3, <2>1, <2>2 DEF Separate
<1>6. ASSUME pc'["conn"] = pc["conn"], pc["conn"] \in Dials,
             ptr'["conn"] = ptr["conn"], sock'["conn"] = sock["conn"]
      PROVE  Separate'
  <2>1. "conn" \in Active /\ sock["conn"] \in Fds /\ sock["conn"] # NOSOCK
    BY <1>6, FreeFds DEF Separate, Single
  <2>2. ASSUME NEW i \in Live(tbl'), NEW j \in Live(tbl'),
               tbl'.mem[i].isock = sock["conn"], tbl'.mem[j].isock = sock["conn"]
        PROVE  i = j
    <3>1. /\ From(i, k) \in Live(tbl) /\ From(j, k) \in Live(tbl)
          /\ tbl.mem[From(i, k)].isock = sock["conn"]
          /\ tbl.mem[From(j, k)].isock = sock["conn"]
      BY <1>1, <2>1, <2>2 DEF Moved, SameSockets
    <3>2. From(i, k) = From(j, k)
      BY <1>6, <3>1 DEF Separate, Single
    <3>3. i \in Nat /\ j \in Nat
      BY DEF Live
    <3>4. QED
      BY <3>2, <3>3, FromInjective
  <2>3. Single'
    BY <1>6, <2>1, <2>2 DEF Single, Carries, Dials
  <2>4. Closable'
    <3> SUFFICES ASSUME pc["conn"] = "c_connect", Peer("conn")'.osock \in Fds
                 PROVE  Apart(Peer("conn").osock)'
      BY <1>6 DEF Closable
    <3> DEFINE s == ptr["conn"].slot
               o == tbl.mem[s].osock
    <3>1. /\ s \in Nat /\ s \in Live(tbl) /\ s \in Live(tbl') /\ From(s, k) = s
          /\ Peer("conn") = tbl.mem[s] /\ Peer("conn")' = tbl'.mem[s]
          /\ tbl'.mem[s].osock = o
      BY <1>1, <1>6, DialledStays DEF Separate
    <3>2. Apart(o) /\ o \in Fds /\ o # NOSOCK
      BY <3>1, FreeFds DEF Separate, Closable
    <3>3. ASSUME NEW i \in Live(tbl') \ {s}
          PROVE  tbl'.mem[i].isock # o /\ tbl'.mem[i].osock # o
      <4>1. i \in Nat /\ From(i, k) # s
        BY <3>1, FromInjective DEF Live
      <4>2. QED
        BY <1>1, <3>2, <4>1 DEF Moved, SameSockets, Apart
    <3>4. o \notin rset' \cup wset' /\ o # sock'["try"] /\ o # sock'["conn"]
      BY <1>6, <3>2 DEF Apart, Quiet
    <3>5. QED
      BY <1>6, <3>1, <3>3, <3>4 DEF Apart
  <2>5. QED
    BY <1>3, <2>3, <2>4 DEF Separate
<1>7. QED
  BY <1>4, <1>5, <1>6 DEF Quiet, ConnQuiet


\* Writing an entry through a valid pointer.
LEMMA StoreMem ==
  ASSUME TypeInv, NEW t \in Threads, Points(t), NEW e, Store(t, e)
  PROVE  /\ Live(tbl') = Live(tbl)
         /\ \A i \in Live(tbl) :
              tbl'.mem[i] = IF i = ptr[t].slot THEN e ELSE tbl.mem[i]
<1>1. tbl \in Tables /\ ptr[t].slot \in Slots /\ Live(tbl) \subseteq Slots
  BY PeerEntry, FreeFds, LiveEntries
<1>2. tbl'.count = tbl.count /\ tbl'.mem = [tbl.mem EXCEPT ![ptr[t].slot] = e]
  BY <1>1 DEF Store, Tables
<1>3. QED
  BY <1>1, <1>2 DEF Live, Tables

\* An entry that keeps its sockets.
LEMMA StoreDerived ==
  ASSUME TypeInv, NEW t \in Threads, Points(t), NEW e, Store(t, e),
         SameSockets(e, Peer(t))
  PROVE  Derived(tbl', tbl)
<1>1. tbl'.count = tbl.count /\ tbl \in Tables
  BY FreeFds DEF Store, Tables
<1>2. \A i \in Live(tbl) : SameSockets(tbl'.mem[i], tbl.mem[i])
  BY StoreMem DEF SameSockets, Peer
<1>3. QED
  BY <1>1, <1>2, SameDerived

\* A table that stays as it is, or of which only the iterator changes.
LEMMA IterDerived ==
  ASSUME TypeInv, tbl' = tbl \/ tbl' = Advance(tbl) \/ tbl' = Rewind(tbl)
  PROVE  Derived(tbl', tbl)
<1>1. tbl \in Tables /\ tbl'.count = tbl.count /\ tbl'.mem = tbl.mem
  BY FreeFds DEF Advance, Rewind, Tables
<1>2. QED
  BY <1>1, SameDerived DEF SameSockets

\* peer_free does not close the sockets.
LEMMA RefusedDerived ==
  ASSUME TypeInv, NEW t \in Threads, Points(t), KeyRefused(t)
  PROVE  Derived(tbl', tbl)
<1>1. tbl \in Tables /\ ptr[t].slot \in Slots /\ Live(tbl) \subseteq Slots
  BY PeerEntry, FreeFds, LiveEntries
<1>2. tbl'.count = tbl.count /\ \A i \in Slots : SameSockets(tbl'.mem[i], tbl.mem[i])
  BY <1>1 DEF KeyRefused, PeerFree, Tables, Entry, SameSockets
<1>3. QED
  BY <1>1, <1>2, SameDerived

\* The calls the threads share, but for peer_addtoset.
LEMMA SharedQuiet ==
  ASSUME TypeInv, NEW t \in Active, Shared(t), ~AddToSet(t)
  PROVE  Quiet
<1> USE DEF At, Goto, GoOn, Done, table, locals, sets, reader
<1>0. t \in Threads /\ t \in Active /\ "conn" \in Threads /\ "try" \in Threads
      /\ tbl \in Tables
  BY ThreadsActive, FreeFds DEF Threads
<1>1. freefds' = freefds /\ rset' = rset /\ wset' = wset
  BY DEF Shared, NewPeer, FillProbe, Compare, RemoveProbe, Reply, NextRelease,
         NextEntry, NextEnd
<1>2. \A u \in {"conn", "try"} : sock'[u] \in {sock[u], NOSOCK}
  BY <1>0 DEF Shared, NewPeer, FillProbe, Compare, RemoveProbe, Reply, NextRelease,
              NextEntry, NextEnd, TypeInv, TypeOK
<1>3. ConnQuiet
  <2>1. CASE t # "conn"
    <3>1. \A u \in Threads \ {t} : pc'[u] = pc[u] /\ ptr'[u] = ptr[u] /\ sock'[u] = sock[u]
      BY <1>0 DEF Shared, NewPeer, FillProbe, Compare, RemoveProbe, Reply, NextRelease,
                  NextEntry, NextEnd, TypeInv, TypeOK
    <3>2. QED
      BY <1>0, <2>1, <3>1 DEF ConnQuiet
  <2>2. CASE NewPeer(t) /\ t = "conn"
    BY <1>0, <2>2 DEF NewPeer, ConnQuiet, Carries, Dials, TypeInv, TypeOK
  <2>3. CASE t = "conn" /\ ~NewPeer(t)
    <3>1. pc'["conn"] \in {"p_exists", "p_remove", "reply", "t_socket", "rel", "idle",
                           "acq", "visit", "r_del"}
      BY <1>0, <2>3 DEF Shared, FillProbe, Compare, RemoveProbe, Reply, NextRelease,
                  NextEntry, NextEnd, TypeInv, TypeOK
    <3>2. QED
      BY <3>1 DEF ConnQuiet, Carries, Dials
  <2>4. QED
    BY <2>1, <2>2, <2>3
<1>4. Derived(tbl', tbl)
  <2>1. CASE NewPeer(t)
    BY <1>0, <2>1, NewDerived
       DEF NewPeer, TypeInv, IteratorInBounds, InBounds
  <2>2. CASE FillProbe(t)
    <3>1. SameSockets([Peer(t) EXCEPT !.addr = peeraddr[t], !.port = 1], Peer(t))
      BY <1>0, <2>2, PeerEntry DEF FillProbe, SameSockets, Entry
    <3>2. QED
      BY <1>0, <2>2, <3>1, StoreDerived DEF FillProbe
  <2>3. CASE RemoveProbe(t)
    BY <1>0, <2>3, RemoveDerived
       DEF RemoveProbe, TypeInv, IteratorInBounds, InBounds
  <2>4. CASE Compare(t) \/ Reply(t) \/ NextRelease(t) \/ NextEntry(t) \/ NextEnd(t)
    BY <2>4, IterDerived DEF Compare, Reply, NextRelease, NextEntry, NextEnd
  <2>5. QED
    BY <2>1, <2>2, <2>3, <2>4 DEF Shared
<1>5. QED
  BY <1>1, <1>2, <1>3, <1>4 DEF Quiet

\* The reading thread, the main thread and the failures.
LEMMA RoundQuiet ==
  ASSUME TypeInv, NEW t \in Active,
         (t = "read" /\ Read) \/ (t = "main" /\ Main) \/ Failure(t)
  PROVE  Quiet
<1> USE DEF At, Goto, GoOn, Done, StartRound, table, locals, sets, reader
<1>0. "conn" \in Threads /\ "try" \in Threads /\ "read" \in Threads /\ tbl \in Tables
  BY FreeFds DEF Threads
<1>1. CASE Failure(t)
  <2>1. UNCHANGED <<tbl, pc, ptr, sock, rset, wset, freefds>>
    BY <1>1 DEF Failure, UseDangling, Overrun, SendAborts, AddAborts, Fail
  <2>2. QED
    BY <2>1, IterDerived DEF Quiet, ConnQuiet
<1>2. CASE t = "main" /\ Main
  <2>1. /\ UNCHANGED <<tbl, ptr, sock, rset, wset, freefds>>
        /\ pc'["conn"] = pc["conn"]
    BY <1>0, <1>2 DEF Main, MainRound, MainLookup, MainVisit, TypeInv, TypeOK
  <2>2. QED
    BY <2>1, IterDerived DEF Quiet, ConnQuiet
<1>3. CASE t = "read" /\ Read
  <2>1. /\ freefds' = freefds /\ rset' \subseteq rset /\ wset' \subseteq wset
        /\ \A u \in {"conn", "try"} : sock'[u] = sock[u]
        /\ pc'["conn"] = pc["conn"] /\ ptr'["conn"] = ptr["conn"]
    BY <1>0, <1>3 DEF Read, Select, ReadNothing, ReadHeader, ReadHangUp, ReadForget, ReadEvent,
                      ReadRemove, TypeInv, TypeOK
  <2>2. Derived(tbl', tbl)
    <3>1. tbl' = tbl \/ \E e : ~RemoveOverruns(tbl, e) /\ tbl' = PeerRemove(tbl, e)
      BY <1>3 DEF Read, Select, ReadNothing, ReadHeader, ReadHangUp, ReadForget, ReadEvent,
                  ReadRemove
    <3>2. QED
      BY <1>0, <3>1, IterDerived, RemoveDerived DEF TypeInv, IteratorInBounds, InBounds
  <2>3. QED
    BY <2>1, <2>2 DEF Quiet, ConnQuiet
<1>4. QED
  BY <1>1, <1>2, <1>3


-----------------------------------------------------------------------------
\* The steps that open, store or close a descriptor

\* connection_thread accepts: the new descriptor is in no entry.
LEMMA AcceptSeparate ==
  ASSUME TypeInv, Separate, NEW a \in Addrs, Accept(a)
  PROVE  Separate'
<1> USE DEF At, Goto, table, sets, reader
<1>1. LowestFd \in freefds /\ LowestFd \in Fds
  BY LowestFdOpen DEF Accept
<1>2. /\ tbl' = tbl /\ rset' = rset /\ wset' = wset
      /\ freefds' = freefds \ {LowestFd}
      /\ sock'["conn"] = LowestFd /\ sock'["try"] = sock["try"]
      /\ pc'["conn"] = "c_new"
  BY DEF Accept, TypeInv, TypeOK, Threads
<1>3. Open'
  BY <1>2 DEF Separate, Open, NoneClosed, Live
<1>4. Single' /\ Closable'
  BY <1>1, <1>2 DEF Separate, Open, Single, Closable, Live, Carries, Dials
<1>5. QED
  BY <1>3, <1>4 DEF Separate

\* check_peer_key stores a socket in the entry its caller works on.
LEMMA KeyMem ==
  ASSUME TypeInv, NEW t \in Threads, Points(t), NEW s, KeyAccepted(t, s)
  PROVE  /\ Live(tbl') = Live(tbl)
         /\ \A i \in Live(tbl) :
              /\ tbl'.mem[i].osock = tbl.mem[i].osock
              /\ tbl'.mem[i].isock = IF i = ptr[t].slot THEN s ELSE tbl.mem[i].isock
<1> DEFINE e == [Peer(t) EXCEPT !.isock = s,
                                !.key = IF @ = 0 THEN FreshKey(tbl) ELSE @]
<1>1. e.isock = s /\ e.osock = Peer(t).osock
  BY PeerEntry DEF Entry
<1>2. Store(t, e)
  BY DEF KeyAccepted
<1> HIDE DEF e
<1>3. QED
  BY <1>1, <1>2, StoreMem DEF Peer

\* The accepted socket goes into one entry.
LEMMA ConnKeySeparate ==
  ASSUME TypeInv, OnCourse, OnCourse', Separate, "conn" \in Active,
         ConnKey \/ ConnUpgradeKey
  PROVE  Separate'
<1> USE DEF At, Goto, GoOn, Done, locals, sets, reader
<1>0. "conn" \in Threads /\ "try" \in Threads
  BY DEF Threads
<1>1. /\ Points("conn") /\ pc["conn"] \in {"c_key", "c_upkey"}
      /\ freefds' = freefds /\ rset' = rset /\ wset' = wset
      /\ sock'["try"] = sock["try"]
  BY <1>0 DEF ConnKey, ConnUpgradeKey, TypeInv, TypeOK
<1>2. CASE KeyRefused("conn") /\ Done("conn")
  <2>1. sock'["conn"] = NOSOCK /\ pc'["conn"] = "idle"
    BY <1>0, <1>2 DEF TypeInv, TypeOK
  <2>2. Quiet
    BY <1>0, <1>1, <1>2, <2>1, RefusedDerived DEF Quiet, ConnQuiet, Carries, Dials
  <2>3. QED
    BY <2>2, QuietKeeps
<1>3. ASSUME KeyAccepted("conn", sock["conn"]), NEW l \in {"c_clrw", "c_socket"},
             GoOn("conn", l)
      PROVE  Separate'
  <2>1. sock' = sock /\ ptr' = ptr /\ pc'["conn"] = l
    BY <1>0, <1>3 DEF TypeInv, TypeOK
  <2>2. /\ Live(tbl') = Live(tbl)
        /\ \A i \in Live(tbl) :
             /\ tbl'.mem[i].osock = tbl.mem[i].osock
             /\ tbl'.mem[i].isock = IF i = ptr["conn"].slot THEN sock["conn"]
                                    ELSE tbl.mem[i].isock
    BY <1>0, <1>1, <1>3, KeyMem
  <2>3. Open'
    BY <1>1, <2>1, <2>2 DEF Separate, Open, NoneClosed
  <2>4. Single'
    BY <1>1, <2>1, <2>2 DEF Separate, Single, Carries, Dials
  <2>5. Closable'
    BY <2>1 DEF Closable
  <2>6. QED
    BY <2>3, <2>4, <2>5 DEF Separate
<1>4. QED
  BY <1>2, <1>3 DEF ConnKey, ConnUpgradeKey

\* A socket is opened to connect back: what was free is in no other place.
LEMMA ConnSocketSeparate ==
  ASSUME TypeInv, OnCourse, Separate, "conn" \in Active, ConnSocket
  PROVE  Separate'
<1> USE DEF At, Goto, locals, sets, reader
<1>0. "conn" \in Threads /\ "try" \in Threads
  BY DEF Threads
<1>1. PICK o : /\ Store("conn", [Peer("conn") EXCEPT !.osock = o])
               /\ \/ freefds # {} /\ o = LowestFd /\ freefds' = freefds \ {o}
                  \/ o = NOSOCK /\ freefds' = freefds
  BY DEF ConnSocket
<1>2. /\ sock' = sock /\ ptr' = ptr /\ rset' = rset /\ wset' = wset
      /\ pc["conn"] = "c_socket" /\ pc'["conn"] = "c_connect" /\ Points("conn")
  BY <1>0 DEF ConnSocket, TypeInv, TypeOK
<1> DEFINE s == ptr["conn"].slot
           e == [Peer("conn") EXCEPT !.osock = o]
<1>3. e.osock = o /\ e.isock = tbl.mem[s].isock
  BY <1>0, <1>2, PeerEntry DEF Entry, Peer
<1>4. Store("conn", e)
  BY <1>1
<1> HIDE DEF e
<1>5. /\ Live(tbl') = Live(tbl)
      /\ \A i \in Live(tbl) :
           /\ tbl'.mem[i].isock = tbl.mem[i].isock
           /\ tbl'.mem[i].osock = IF i = s THEN o ELSE tbl.mem[i].osock
  BY <1>0, <1>2, <1>3, <1>4, StoreMem
<1>6. s \in Live(tbl)
  BY <1>2 DEF OnCourse, PointersLive, Derefs
<1>7. o \notin freefds' /\ freefds' \subseteq freefds
  BY <1>1, FreeFds
<1>8. Open'
  BY <1>2, <1>5, <1>7 DEF Separate, Open, NoneClosed
<1>9. Single'
  BY <1>2, <1>5 DEF Separate, Single, Carries, Dials
<1>10. Closable'
  <2> SUFFICES ASSUME Peer("conn")'.osock \in Fds
               PROVE  Apart(Peer("conn").osock)'
    BY DEF Closable
  <2>1. Peer("conn")'.osock = o
    BY <1>2, <1>5, <1>6 DEF Peer
  <2>2. o \in freefds
    BY <1>1, <2>1, FreeFds, LowestFdOpen
  <2>3. QED
    BY <1>2, <1>5, <2>1, <2>2 DEF Apart, Separate, Open, NoneClosed
<1>11. QED
  BY <1>8, <1>9, <1>10 DEF Separate

\* The socket is closed, and no other place has had it.
LEMMA ConnConnectSeparate ==
  ASSUME TypeInv, OnCourse, Separate, "conn" \in Active, ConnConnect
  PROVE  Separate'
<1> USE DEF At, Goto, locals, sets, reader
<1>0. "conn" \in Threads /\ "try" \in Threads
  BY DEF Threads
<1>1. /\ sock' = sock /\ ptr' = ptr /\ rset' = rset /\ wset' = wset
      /\ pc["conn"] = "c_connect" /\ pc'["conn"] = "add" /\ Points("conn")
  BY <1>0 DEF ConnConnect, TypeInv, TypeOK
<1>2. Single' /\ Closable'
  BY <1>1 DEF Single, Closable, Carries, Dials
<1>3. CASE tbl' = tbl /\ freefds' = freefds
  BY <1>1, <1>2, <1>3 DEF Separate, Open, NoneClosed, Live
<1> DEFINE s == ptr["conn"].slot
           o == Peer("conn").osock
           e == [Peer("conn") EXCEPT !.osock = SOCKET_ONEWAY]
<1>4. CASE freefds' = freefds \cup (Fds \cap {o}) /\ Store("conn", e)
  <2>1. e.osock = SOCKET_ONEWAY /\ e.isock = sock["conn"] /\ o = tbl.mem[s].osock
    BY <1>0, <1>1, PeerEntry DEF Entry, Peer, OnCourse
  <2> HIDE DEF e
  <2>2. /\ Live(tbl') = Live(tbl)
        /\ \A i \in Live(tbl) : tbl'.mem[i] = IF i = s THEN e ELSE tbl.mem[i]
    BY <1>0, <1>1, <1>4, StoreMem
  <2>3. o \in Fds => Apart(o)
    BY <1>1 DEF Separate, Closable
  <2>4. Open'
    BY <1>1, <1>4, <2>1, <2>2, <2>3, FreeFds
       DEF Separate, Open, NoneClosed, Apart
  <2>5. QED
    BY <1>2, <2>4 DEF Separate
<1>5. QED
  BY <1>3, <1>4 DEF ConnConnect


\* peer_addtoset takes descriptors of an entry, and not of the one that is dialled
\* for: try_connect_loop adds an entry that has its own socket.
LEMMA AddSeparate ==
  ASSUME TypeInv, OnCourse, Separate, NEW t \in Active, AddToSet(t)
  PROVE  Separate'
<1> USE DEF At, Goto, GoOn, Done, table, locals, reader
<1>0. t \in Threads /\ "conn" \in Threads /\ "try" \in Threads
  BY ThreadsActive DEF Threads
<1> DEFINE i == Peer(t).isock
           o == Peer(t).osock
<1>1. rset' \subseteq rset \cup {i, o} /\ wset' \subseteq wset \cup {i, o}
  BY DEF AddToSet, sets
<1>2. /\ tbl' = tbl /\ freefds' = freefds /\ sock'["try"] \in {sock["try"], NOSOCK}
      /\ sock'["conn"] \in {sock["conn"], NOSOCK}
      /\ t = "conn" => pc'["conn"] = "idle"
      /\ t # "conn" => /\ t = "try" /\ sock' = sock /\ ptr' = ptr
                       /\ pc'["conn"] = pc["conn"]
  BY <1>0 DEF AddToSet, TypeInv, TypeOK
<1>3. ptr[t].slot \in Live(tbl) /\ pc[t] = "add"
      /\ i = tbl.mem[ptr[t].slot].isock /\ o = tbl.mem[ptr[t].slot].osock
  BY DEF AddToSet, OnCourse, PointersLive, Derefs, Peer
<1>4. i \notin freefds /\ o \notin freefds
  BY <1>3 DEF Separate, Open
<1> HIDE DEF i, o
<1>5. Open'
  BY <1>1, <1>2, <1>4, FreeFds DEF Separate, Open, NoneClosed, Live
<1>6. CASE t = "conn"
  BY <1>2, <1>5, <1>6 DEF Separate, Single, Closable, Carries, Dials
<1>7. CASE t # "conn"
  <2>1. Single'
    BY <1>2, <1>7 DEF Separate, Single, Live
  <2>2. Closable'
    <3> SUFFICES ASSUME pc["conn"] = "c_connect", Peer("conn").osock \in Fds
                 PROVE  Apart(Peer("conn").osock)'
      BY <1>2, <1>7 DEF Closable, Peer
    <3>1. Apart(Peer("conn").osock)
      BY DEF Separate, Closable
    <3>2. t = "try" /\ o = sock["try"]
      BY <1>2, <1>3, <1>7 DEF OnCourse, Peer
    <3>3. ptr[t].slot # ptr["conn"].slot
      BY <1>3, <3>1, <3>2 DEF Apart, Peer
    <3>4. i # Peer("conn").osock /\ o # Peer("conn").osock
      BY <1>3, <3>1, <3>3 DEF Apart
    <3>5. Peer("conn")' = Peer("conn")
      BY <1>2, <1>7 DEF Peer
    <3>6. QED
      BY <1>1, <1>2, <1>7, <3>1, <3>4, <3>5 DEF Apart, Live
  <2>3. QED
    BY <1>5, <2>1, <2>2 DEF Separate
<1>8. QED
  BY <1>6, <1>7

\* new_socket opens a descriptor that is in no entry.
LEMMA TrySocketSeparate ==
  ASSUME TypeInv, OnCourse, OnCourse', Separate, TrySocket
  PROVE  Separate'
<1> USE DEF At, Goto, Done, table, sets, reader
<1>0. "conn" \in Threads /\ "try" \in Threads
  BY DEF Threads
<1>1. /\ tbl' = tbl /\ rset' = rset /\ wset' = wset
      /\ pc'["conn"] = pc["conn"] /\ ptr'["conn"] = ptr["conn"]
      /\ sock'["conn"] = sock["conn"]
  BY <1>0 DEF TrySocket, TypeInv, TypeOK
<1>2. CASE freefds' = freefds /\ sock'["try"] = NOSOCK
  BY <1>1, <1>2, IterDerived, QuietKeeps DEF Quiet, ConnQuiet
<1>3. CASE /\ freefds # {} /\ freefds' = freefds \ {LowestFd}
           /\ sock'["try"] = LowestFd
  <2>1. LowestFd \in freefds
    BY <1>3, LowestFdOpen
  <2>2. Open' /\ Single'
    BY <1>1, <1>3 DEF Separate, Open, NoneClosed, Single, Live
  <2>3. Closable'
    <3> SUFFICES ASSUME pc["conn"] = "c_connect", Peer("conn").osock \in Fds
                 PROVE  Apart(Peer("conn").osock)'
      BY <1>1 DEF Closable, Peer
    <3>1. Apart(Peer("conn").osock)
      BY DEF Separate, Closable
    <3>2. ptr["conn"].slot \in Live(tbl)
      BY DEF Separate, Single, Dials, OnCourse, PointersLive, Derefs
    <3>3. Peer("conn").osock # LowestFd
      BY <2>1, <3>2 DEF Separate, Open, Peer
    <3>4. Peer("conn")' = Peer("conn")
      BY <1>1 DEF Peer
    <3>5. QED
      BY <1>1, <1>3, <3>1, <3>3, <3>4 DEF Apart, Live
  <2>4. QED
    BY <2>2, <2>3 DEF Separate
<1>4. QED
  <2>1. \/ freefds' = freefds /\ sock'["try"] = NOSOCK
        \/ /\ freefds # {} /\ freefds' = freefds \ {LowestFd}
           /\ sock'["try"] = LowestFd
    BY <1>0 DEF TrySocket, TypeInv, TypeOK
  <2>2. QED
    BY <1>2, <1>3, <2>1

\* The socket goes into an entry that connection_thread is not dialling for.
LEMMA TryFillSeparate ==
  ASSUME TypeInv, OnCourse, OnCourse', Separate, TryFill
  PROVE  Separate'
<1> USE DEF At, Goto, locals, sets, reader
<1>0. "conn" \in Threads /\ "try" \in Threads
  BY DEF Threads
<1>1. /\ freefds' = freefds /\ rset' = rset /\ wset' = wset /\ sock' = sock
      /\ ptr' = ptr /\ pc'["conn"] = pc["conn"] /\ Points("try")
  BY <1>0 DEF TryFill, TypeInv, TypeOK
<1> DEFINE e == [Peer("try") EXCEPT !.addr = peeraddr["try"], !.osock = sock["try"],
                                    !.isock = SOCKET_ONEWAY, !.port = 1]
<1>2. e.osock = sock["try"] /\ e.isock = SOCKET_ONEWAY
  BY <1>0, <1>1, PeerEntry DEF Entry
<1>3. Store("try", e)
  BY DEF TryFill
<1> HIDE DEF e
<1>4. /\ Live(tbl') = Live(tbl)
      /\ \A i \in Live(tbl) :
           tbl'.mem[i] = IF i = ptr["try"].slot THEN e ELSE tbl.mem[i]
  BY <1>0, <1>1, <1>3, StoreMem
<1>5. Open' /\ Single'
  BY <1>1, <1>2, <1>4, FreeFds DEF Separate, Open, NoneClosed, Single
<1>6. Closable'
  <2> SUFFICES ASSUME pc["conn"] = "c_connect", Peer("conn")'.osock \in Fds
               PROVE  Apart(Peer("conn").osock)'
    BY <1>1 DEF Closable
  <2>1. ptr["conn"].slot \in Live(tbl) /\ sock["conn"] \in Fds
    BY DEF Separate, Single, Dials, OnCourse, PointersLive, Derefs
  <2>2. Peer("conn")' = tbl'.mem[ptr["conn"].slot]
    BY <1>1 DEF Peer
  <2>3. Peer("conn")'.isock = sock["conn"]
    BY <1>1 DEF OnCourse
  <2>4. ptr["conn"].slot # ptr["try"].slot
    BY <1>2, <1>4, <2>1, <2>2, <2>3, FreeFds
  <2>5. Peer("conn")' = Peer("conn") /\ Apart(Peer("conn").osock)
    BY <1>4, <2>1, <2>2, <2>4 DEF Peer, Separate, Closable
  <2>6. QED
    BY <1>1, <1>2, <1>4, <2>5, FreeFds DEF Apart
<1>7. QED
  BY <1>5, <1>6 DEF Separate

\* check_peer_key of try_connect_loop takes a socket out of an entry.
LEMMA TryKeySeparate ==
  ASSUME TypeInv, OnCourse, OnCourse', Separate, TryKey
  PROVE  Separate'
<1> USE DEF At, Goto, Done, sets, reader
<1>0. "conn" \in Threads /\ "try" \in Threads
  BY DEF Threads
<1>1. /\ freefds' = freefds /\ rset' = rset /\ wset' = wset
      /\ sock'["conn"] = sock["conn"] /\ sock'["try"] = NOSOCK
      /\ ptr'["conn"] = ptr["conn"] /\ pc'["conn"] = pc["conn"] /\ Points("try")
  BY <1>0 DEF TryKey, TypeInv, TypeOK
<1>2. CASE KeyRefused("try")
  BY <1>0, <1>1, <1>2, RefusedDerived, QuietKeeps DEF Quiet, ConnQuiet
<1>3. CASE KeyAccepted("try", SOCKET_ONEWAY)
  <2>1. /\ Live(tbl') = Live(tbl)
        /\ \A i \in Live(tbl) :
             /\ tbl'.mem[i].osock = tbl.mem[i].osock
             /\ tbl'.mem[i].isock = IF i = ptr["try"].slot THEN SOCKET_ONEWAY
                                    ELSE tbl.mem[i].isock
    BY <1>0, <1>1, <1>3, KeyMem
  <2>2. Open' /\ Single'
    BY <1>1, <2>1, FreeFds DEF Separate, Open, NoneClosed, Single
  <2>3. Closable'
    <3> SUFFICES ASSUME pc["conn"] = "c_connect", Peer("conn")'.osock \in Fds
                 PROVE  Apart(Peer("conn").osock)'
      BY <1>1 DEF Closable
    <3>1. ptr["conn"].slot \in Live(tbl)
      BY DEF Separate, Single, Dials, OnCourse, PointersLive, Derefs
    <3>2. Peer("conn")'.osock = Peer("conn").osock
      BY <1>1, <2>1, <3>1 DEF Peer
    <3>3. Apart(Peer("conn").osock)
      BY <3>2 DEF Separate, Closable
    <3>4. QED
      BY <1>1, <2>1, <3>2, <3>3, FreeFds DEF Apart
  <2>4. QED
    BY <2>2, <2>3 DEF Separate
<1>4. QED
  BY <1>2, <1>3 DEF TryKey

-----------------------------------------------------------------------------

\* The steps of connection_thread.
LEMMA ConnSeparate ==
  ASSUME TypeInv, OnCourse, OnCourse', Separate, "conn" \in Active, Conn
  PROVE  Separate'
<1> USE DEF At, Goto, GoOn, Done, table, locals, sets, reader
<1>0. "conn" \in Threads /\ "try" \in Threads /\ tbl \in Tables
  BY FreeFds DEF Threads
<1>1. CASE ConnFill
  <2>1. SameSockets([Peer("conn") EXCEPT !.addr = peeraddr["conn"], !.port = 1],
                    Peer("conn"))
    BY <1>0, <1>1, PeerEntry DEF ConnFill, SameSockets, Entry
  <2>2. Derived(tbl', tbl)
    BY <1>0, <1>1, <2>1, StoreDerived DEF ConnFill
  <2>3. Quiet
    BY <1>0, <1>1, <2>2 DEF ConnFill, Quiet, ConnQuiet, Carries, TypeInv, TypeOK
  <2>4. QED
    BY <2>3, QuietKeeps
<1>2. CASE ConnExists
  <2>1. /\ UNCHANGED <<tbl, sock, rset, wset, freefds>>
        /\ pc["conn"] = "c_exists" /\ pc'["conn"] \in {"c_key", "c_unprobe"}
    BY <1>0, <1>2 DEF ConnExists, TypeInv, TypeOK
  <2>2. QED
    BY <2>1, IterDerived, QuietKeeps DEF Quiet, ConnQuiet, Carries
<1>3. CASE ConnUnprobe
  <2>1. /\ UNCHANGED <<sock, rset, wset, freefds>>
        /\ pc["conn"] = "c_unprobe" /\ pc'["conn"] = "c_upkey"
    BY <1>0, <1>3 DEF ConnUnprobe, TypeInv, TypeOK
  <2>2. Derived(tbl', tbl)
    BY <1>0, <1>3, RemoveDerived
       DEF ConnUnprobe, TypeInv, IteratorInBounds, InBounds
  <2>3. QED
    BY <2>1, <2>2, QuietKeeps DEF Quiet, ConnQuiet, Carries
<1>4. CASE ConnClearWrite \/ ConnClearRead
  <2>1. /\ UNCHANGED <<tbl, sock, freefds>> /\ rset' \subseteq rset /\ wset' \subseteq wset
        /\ pc'["conn"] \in {"c_clrr", "add"}
    BY <1>0, <1>4 DEF ConnClearWrite, ConnClearRead, TypeInv, TypeOK
  <2>2. QED
    BY <2>1, IterDerived, QuietKeeps DEF Quiet, ConnQuiet, Carries, Dials
<1>5. QED
  BY <1>1, <1>2, <1>3, <1>4, AcceptSeparate, ConnKeySeparate, ConnSocketSeparate,
     ConnConnectSeparate DEF Conn

\* The steps of try_connect_loop.
LEMMA TrySeparate ==
  ASSUME TypeInv, OnCourse, OnCourse', Separate, Try
  PROVE  Separate'
<1>1. ASSUME NEW a \in Addrs, TryPeer(a)
      PROVE  Separate'
  <2>1. UNCHANGED <<tbl, ptr, sock, rset, wset, freefds>> /\ pc'["conn"] = pc["conn"]
    BY <1>1 DEF TryPeer, Goto, table, sets, TypeInv, TypeOK, Threads
  <2>2. QED
    BY <2>1, IterDerived, QuietKeeps DEF Quiet, ConnQuiet
<1>2. QED
  BY <1>1, TrySocketSeparate, TryFillSeparate, TryKeySeparate DEF Try

(***************************************************************************)
(* No closed descriptor is given to select before a pointer has strayed.    *)
(* SetsInv adds why: an open descriptor is in one entry or one thread's     *)
(* hands, and the one connection_thread may close is in neither set.        *)
(***************************************************************************)
THEOREM SetsStayOpen == Spec => []SetsOpen
<1>1. Init => SetsInv
  <2> SUFFICES ASSUME Init
               PROVE  OnCourse /\ Separate
    BY DEF SetsInv
  <2>1. OnCourse
    BY ThreadsActive DEF Init, OnCourse, PointersLive, Derefs, Threads
  <2>2. Live(tbl) = {} /\ NOSOCK \notin freefds
    BY FdsAssumption DEF Init, NewTable, Live, NOSOCK
  <2>3. QED
    BY <2>1, <2>2 DEF Init, Separate, Open, NoneClosed, Single, Closable, Carries,
                      Dials, Threads
<1>2. TypeInv /\ SetsInv /\ [Next]_vars => SetsInv'
  <2> SUFFICES ASSUME TypeInv, SetsInv, [Next]_vars, ~strayed'
               PROVE  OnCourse' /\ Separate'
    BY DEF SetsInv
  <2>1. CASE Next
    <3>1. PICK t \in Active : Step(t)
      BY <2>1 DEF Next
    <3>2. OnCourse /\ OnCourse' /\ Separate
      BY <3>1 DEF Step, SetsInv
    <3>3. ASSUME Quiet
          PROVE  Separate'
      BY <3>2, <3>3, QuietKeeps
    <3>4. ASSUME Shared(t)
          PROVE  Separate'
      BY <3>2, <3>3, <3>4, SharedQuiet, AddSeparate
    <3>5. ASSUME t = "conn" /\ Conn
          PROVE  Separate'
      BY <3>2, <3>5, ConnSeparate
    <3>6. ASSUME t = "try" /\ Try
          PROVE  Separate'
      BY <3>2, <3>6, TrySeparate
    <3>7. QED
      BY <3>1, <3>2, <3>3, <3>4, <3>5, <3>6, RoundQuiet DEF Step
  <2>2. CASE UNCHANGED vars
    <3>1. UNCHANGED <<tbl, pc, ptr, sock, rset, wset, freefds, strayed>>
      BY <2>2 DEF vars
    <3>2. QED
      BY <3>1 DEF SetsInv, OnCourse, PointersLive, Points, Peer, Separate, Open,
         NoneClosed, Single, Closable, Apart
  <2>3. QED
    BY <2>1, <2>2
<1>3. SetsInv => SetsOpen
  BY DEF SetsInv, Separate, Open, SetsOpen
<1>4. QED
  BY <1>1, <1>2, <1>3, Typing, PTL DEF Spec

-----------------------------------------------------------------------------
\* Rounds of the reading thread beside the connecting thread

\* Where read_thread has a probe in the table, which is its last entry then, and
\* where try_connect_loop works on an entry.
Probes == {"p_fill", "p_exists", "p_remove"}
Works == Probes \cup {"t_fill", "add", "t_key"}

\* How many entries there are besides a probe of read_thread.
Settled == IF pc["read"] \in Probes THEN tbl.count - 1 ELSE tbl.count

\* The first n entries differ from all others: a key is in one slot only, and so
\* is an outgoing socket; an entry that peer_free has been at has one.
Distinct(tb, n) ==
  \A i \in Slots : i < n =>
    /\ \A j \in Slots : j # i =>
         /\ tb.mem[i].key = tb.mem[j].key => tb.mem[i].key = 0
         /\ tb.mem[i].osock = tb.mem[j].osock => tb.mem[i].osock = NOSOCK
    /\ tb.mem[i].key = 0 => tb.mem[i].osock # NOSOCK

\* The two threads and m_lock.
Pair ==
  /\ pc["read"] \in Probes \cup {"idle", "rel", "acq", "visit", "r_body",
                                 "r_clr", "b_clr", "r_del", "p_new", "reply"}
  /\ pc["try"] \in Works \cup {"idle", "p_new", "t_socket", "t_new"}
  /\ mlock \in {NoThread, "read"}
  /\ pc["read"] \in Probes \cup {"visit", "r_body", "r_clr", "b_clr", "p_new",
                                 "reply"} => mlock = "read"
  /\ pc["read"] \in Probes => Points("read") /\ ptr["read"].slot = tbl.count - 1
  /\ ptr["try"].gen <= tbl.gen

\* A descriptor is stored once.
Unused(tb, s) == \A i \in Slots : tb.mem[i].osock # s
StoredOnce ==
  /\ \A s \in freefds : Unused(tbl, s)
  /\ pc["try"] \in {"t_new", "t_fill"} =>
       /\ sock["try"] \in Fds /\ sock["try"] \notin freefds
       /\ Unused(tbl, sock["try"])

\* The entry of try_connect_loop is the last settled one.  If another one was removed,
\* its pointer is behind the settled entries and stays there.
OwnEntry ==
  pc["try"] \in Works /\ Points("try") =>
    /\ ptr["try"].slot >= Settled - 1
    /\ ptr["try"].slot = Settled - 1 =>
         /\ tbl.mem[ptr["try"].slot].key # 0
         /\ pc["try"] \in {"add", "t_key"} => tbl.mem[ptr["try"].slot].osock # NOSOCK

\* What a round has still to visit lies before it.
Ahead ==
  /\ pc["read"] \in {"idle", "r_del"} => due["read"] = {} /\ tbl.iter = 0
  /\ \A k \in due["read"] : \E j \in Slots :
       tbl.iter <= j /\ j < Settled /\ tbl.mem[j].key = k

\* The inductive invariant, for the team of these two.
LoneInv == Pair /\ Distinct(tbl, Settled) /\ StoredOnce /\ OwnEntry /\ Ahead
TeamInv == TypeInv /\ team \in Teams /\ ("main" \notin team => LoneInv)

-----------------------------------------------------------------------------

\* What the type invariant says about the table.
LEMMA TableFacts ==
  ASSUME NEW tb \in Tables, InBounds(tb)
  PROVE  /\ tb.mem \in [Slots -> Entry] /\ tb.count \in Nat /\ tb.iter \in Nat
         /\ tb.gen \in Nat /\ tb.iter <= tb.count /\ MaxSize \in Nat
         /\ Live(tb) \subseteq Slots /\ Live(tb) = {i \in Slots : i < tb.count}
         /\ tb.count <= MaxSize /\ tb.size <= MaxSize /\ tb.size \in Nat
<1>1. /\ MaxSize \in Nat /\ tb.count \in 0..MaxSize /\ tb.iter \in 0..MaxSize
      /\ tb.size \in 1..MaxSize /\ tb.gen \in Nat /\ tb.mem \in [Slots -> Entry]
  BY SizeAssumption DEF Tables
<1>2. QED
  BY <1>1 DEF InBounds, Live, Slots

\* The fields of an entry.
LEMMA EntryFields ==
  ASSUME NEW e \in Entry
  PROVE  e.key \in Keys /\ e.osock \in Socks /\ e.key \in Nat
BY SizeAssumption DEF Entry, Keys

\* peer_new
LEMMA NewDistinct ==
  ASSUME NEW tb \in Tables, InBounds(tb), CanGrow(tb), NEW moved \in BOOLEAN,
         NEW n \in 0..tb.count, Distinct(tb, n)
  PROVE  LET tc == PeerNew(tb, moved)
         IN  /\ tc.count = tb.count + 1 /\ tc.iter = tb.iter
             /\ tc.gen \in {tb.gen, tb.gen + 1}
             /\ tb.count \in Slots
             /\ \A i \in Slots : i # tb.count => tc.mem[i] = tb.mem[i]
             /\ tc.mem[tb.count].key # 0 /\ tc.mem[tb.count].osock = NOSOCK
             /\ Distinct(tc, n)
             /\ n = tb.count => Distinct(tc, n + 1)
<1> DEFINE tc == PeerNew(tb, moved)
           e == PeerInit(tb.mem[tb.count], FreshKey(tb))
<1>1. /\ tb.count \in Slots /\ tb.count \in Nat /\ tb.mem \in [Slots -> Entry]
      /\ tb.gen \in Nat
  BY PeerNewTable, TableFacts
<1>2. FreshKey(tb) \in Keys \ {0} /\ \A i \in Slots : tb.mem[i].key # FreshKey(tb)
  BY FreshKeyExists DEF UsedKeys
<1>3. e.key = FreshKey(tb) /\ e.osock = NOSOCK
  BY <1>1 DEF PeerInit, Entry
<1>4. tc.mem = [tb.mem EXCEPT ![tb.count] = e]
  BY DEF PeerNew
<1>5. tc.count = tb.count + 1 /\ tc.iter = tb.iter /\ tc.gen \in {tb.gen, tb.gen + 1}
  BY DEF PeerNew
<1> HIDE DEF tc, e
<1>6. tc.mem[tb.count] = e /\ \A i \in Slots : i # tb.count => tc.mem[i] = tb.mem[i]
  BY <1>1, <1>4
<1>7. Distinct(tc, n)
  BY <1>1, <1>2, <1>3, <1>6 DEF Distinct
<1>8. ASSUME n = tb.count
      PROVE  Distinct(tc, n + 1)
  <2>1. \A i \in Slots : i < n + 1 <=> i < n \/ i = tb.count
    BY <1>1, <1>8 DEF Slots
  <2>2. QED
    BY <1>1, <1>2, <1>3, <1>6, <1>7, <2>1 DEF Distinct
<1>9. QED
  BY <1>1, <1>2, <1>3, <1>5, <1>6, <1>7, <1>8 DEF tc

\* The compaction of peer_remove, of any entry,
LEMMA RemoveDistinct ==
  ASSUME NEW tb \in Tables, InBounds(tb), NEW k \in Live(tb),
         k + 1 < tb.count => tb.count + 1 < tb.size, Distinct(tb, tb.count)
  PROVE  LET tc == RemoveAt(tb, k)
         IN  /\ tc.count = tb.count - 1 /\ tc.gen = tb.gen
             /\ \A i \in Slots : \E j \in Slots : tc.mem[i].osock = tb.mem[j].osock
             /\ Distinct(tc, tc.count)
<1> DEFINE tc == RemoveAt(tb, k)
<1>1. /\ tb.mem \in [Slots -> Entry] /\ tb.count \in Nat /\ tb.iter \in Nat
      /\ tb.gen \in Nat /\ tb.iter <= tb.count /\ MaxSize \in Nat
      /\ k \in Slots /\ k < tb.count /\ tb.count <= MaxSize /\ tb.size <= MaxSize
      /\ tb.size \in Nat /\ k \in Nat
  BY TableFacts DEF Live
<1>2. tc.count = tb.count - 1 /\ tc.gen = tb.gen
  BY DEF RemoveAt, Tables
<1>3. CASE k + 1 < tb.count
  <2>1. tc.mem = [j \in Slots |-> IF k <= j /\ j <= tb.count
                                  THEN tb.mem[j + 1] ELSE tb.mem[j]]
    BY <1>3 DEF RemoveAt, Tables
  <2>2. \A j \in Slots : j <= tb.count => j + 1 \in Slots
    BY <1>1, <1>3 DEF Slots
  <2>3. \A i \in Slots : \E j \in Slots : tc.mem[i] = tb.mem[j]
    BY <2>1, <2>2
  <2>4. ASSUME NEW i \in Slots, i < tb.count - 1
        PROVE  \E m \in Slots :
                 /\ m < tb.count /\ tc.mem[i] = tb.mem[m]
                 /\ \A j \in Slots : j # i =>
                      \E l \in Slots : l # m /\ tc.mem[j] = tb.mem[l]
    <3> DEFINE m == IF k <= i THEN i + 1 ELSE i
               l(j) == IF k <= j /\ j <= tb.count THEN j + 1 ELSE j
    <3>1. i \in Nat /\ m \in Slots /\ m < tb.count /\ tc.mem[i] = tb.mem[m]
      BY <1>1, <2>1, <2>2, <2>4 DEF Slots
    <3>2. ASSUME NEW j \in Slots, j # i
          PROVE  l(j) \in Slots /\ l(j) # m /\ tc.mem[j] = tb.mem[l(j)]
      <4>1. j \in Nat
        BY DEF Slots
      <4>2. l(j) \in Slots /\ tc.mem[j] = tb.mem[l(j)]
        BY <1>1, <2>1, <2>2, <4>1
      <4>3. l(j) # m
        BY <1>1, <2>4, <3>1, <3>2, <4>1
      <4>4. QED
        BY <4>2, <4>3
    <3>3. QED
      BY <3>1, <3>2
  <2>5. Distinct(tc, tb.count - 1)
    <3> SUFFICES ASSUME NEW i \in Slots, i < tb.count - 1
                 PROVE  /\ \A j \in Slots : j # i =>
                             /\ tc.mem[i].key = tc.mem[j].key => tc.mem[i].key = 0
                             /\ tc.mem[i].osock = tc.mem[j].osock =>
                                  tc.mem[i].osock = NOSOCK
                        /\ tc.mem[i].key = 0 => tc.mem[i].osock # NOSOCK
      BY DEF Distinct
    <3> HIDE DEF tc
    <3>1. QED
      BY <2>4 DEF Distinct
  <2>6. QED
    BY <1>2, <2>3, <2>5
<1>4. CASE ~(k + 1 < tb.count)
  <2>1. tc.mem = PeerFree(tb, k).mem /\ k = tb.count - 1
    BY <1>1, <1>4 DEF RemoveAt, Tables
  <2>2. /\ tc.mem[k].key = 0 /\ tc.mem[k].osock = tb.mem[k].osock
        /\ \A i \in Slots : i # k => tc.mem[i] = tb.mem[i]
    BY <1>1, <2>1 DEF PeerFree, Tables, Entry
  <2>3. \A i \in Slots : tc.mem[i].osock = tb.mem[i].osock
    BY <2>2
  <2>4. \A i \in Slots : i < tb.count - 1 => i # k /\ i < tb.count
    BY <1>1, <2>1 DEF Slots
  <2> HIDE DEF tc
  <2>5. Distinct(tc, tb.count - 1)
    BY <2>2, <2>3, <2>4 DEF Distinct
  <2>6. QED
    BY <1>2, <2>3, <2>5 DEF tc
<1>5. QED
  BY <1>3, <1>4

\* and of the last one.
LEMMA RemoveLast ==
  ASSUME NEW tb \in Tables, InBounds(tb), tb.count > 0,
         Equal(tb, tb.mem[tb.count - 1]) = {tb.count - 1}, Distinct(tb, tb.count - 1)
  PROVE  LET s  == tb.count - 1
             tc == PeerRemove(tb, tb.mem[s])
         IN  /\ tc.count = s /\ tc.gen = tb.gen /\ tc.iter <= tb.iter
             /\ \A i \in Slots : i # s => tc.mem[i] = tb.mem[i]
             /\ \A i \in Slots : tc.mem[i].osock = tb.mem[i].osock
             /\ Distinct(tc, s)
<1> DEFINE s == tb.count - 1
           tc == PeerRemove(tb, tb.mem[s])
<1>1. /\ tb.mem \in [Slots -> Entry] /\ tb.count \in Nat /\ tb.iter \in Nat
      /\ tb.gen \in Nat /\ tb.iter <= tb.count /\ MaxSize \in Nat /\ tb.count <= MaxSize
  BY TableFacts
<1>2. s \in Slots /\ s \in Nat
  BY <1>1 DEF Slots
<1>3. First({s}) = s
  BY <1>2 DEF First
<1>4. tc = RemoveAt(tb, s)
  BY <1>3 DEF PeerRemove
<1>5. ~(s + 1 < tb.count)
  BY <1>1
<1>6. tc.mem = PeerFree(tb, s).mem /\ tc.count = s /\ tc.gen = tb.gen
  BY <1>4, <1>5 DEF RemoveAt, Tables
<1>7. tc.iter = IF tb.iter = tb.count THEN tb.iter - 1 ELSE tb.iter
  BY <1>4 DEF RemoveAt, Tables
<1>8. /\ tc.mem[s].key = 0 /\ tc.mem[s].osock = tb.mem[s].osock
      /\ \A i \in Slots : i # s => tc.mem[i] = tb.mem[i]
  BY <1>1, <1>2, <1>6 DEF PeerFree, Tables, Entry
<1> HIDE DEF tc
<1>9. \A i \in Slots : tc.mem[i].osock = tb.mem[i].osock
  BY <1>8
<1>10. Distinct(tc, s)
  <2>1. \A i \in Slots : i < s => i # s
    BY <1>1 DEF Slots
  <2>2. QED
    BY <1>8, <1>9, <2>1 DEF Distinct
<1>11. QED
  BY <1>1, <1>6, <1>7, <1>8, <1>9, <1>10 DEF tc

-----------------------------------------------------------------------------
\* The steps of the two threads

\* The table, the pointers and the places.
LEMMA PairFacts ==
  ASSUME TypeInv, LoneInv
  PROVE  /\ tbl \in Tables /\ InBounds(tbl)
         /\ tbl.mem \in [Slots -> Entry] /\ tbl.count \in Nat /\ tbl.iter \in Nat
         /\ tbl.gen \in Nat /\ tbl.iter <= tbl.count
         /\ Settled \in 0..tbl.count
         /\ pc["read"] \notin Probes => Settled = tbl.count
         /\ pc["read"] \in Probes => Settled = tbl.count - 1
         /\ "try" \in Threads /\ "read" \in Threads
         /\ \A t \in Threads : ptr[t].gen \in Int /\ ptr[t].slot \in Int
         /\ \A t \in Threads : Points(t) => ptr[t].slot \in Slots /\ ptr[t].gen = tbl.gen
<1>1. tbl \in Tables /\ InBounds(tbl)
  BY DEF TypeInv, TypeOK, IteratorInBounds, InBounds
<1>2. "try" \in Threads /\ "read" \in Threads
  BY DEF Threads
<1>3. \A t \in Threads : ptr[t] \in Ptrs
  BY DEF TypeInv, TypeOK
<1>4. \A t \in Threads : ptr[t].gen \in Int /\ ptr[t].slot \in Int
  BY <1>3 DEF Ptrs, NoPtr, Slots
<1>5. \A t \in Threads : Points(t) => ptr[t].slot \in Slots /\ ptr[t].gen = tbl.gen
  BY <1>3 DEF Ptrs, Points, Valid
<1>6. pc["read"] \in Probes => tbl.count - 1 \in Slots
  BY <1>2, <1>5 DEF LoneInv, Pair
<1>7. tbl.count \in Nat
  BY <1>1, TableFacts
<1>8. Settled \in 0..tbl.count
  BY <1>6, <1>7 DEF Settled, Slots
<1>9. /\ tbl.mem \in [Slots -> Entry] /\ tbl.iter \in Nat
      /\ tbl.gen \in Nat /\ tbl.iter <= tbl.count
  BY <1>1, TableFacts
<1>10. QED
  BY <1>1, <1>2, <1>4, <1>5, <1>7, <1>8, <1>9 DEF Settled

\* A step of try_connect_loop that leaves the table alone.
LEMMA TryLeaves ==
  ASSUME TypeInv, LoneInv, NEW l, Goto("try", l),
         l \in Works \cup {"idle", "p_new", "t_socket", "t_new"},
         tbl' = tbl, due' = due, mlock' = mlock,
         ptr'["read"] = ptr["read"], ptr'["try"] \in {ptr["try"], NoPtr},
         l \in Works => pc["try"] \in Works,
         l \in {"add", "t_key"} => pc["try"] \in {"add", "t_key"},
         freefds' \subseteq freefds,
         l = "t_new" => sock'["try"] \in freefds \ freefds',
         l # "t_fill"
  PROVE  LoneInv'
<1>1. pc'["read"] = pc["read"] /\ pc'["try"] = l /\ Settled' = Settled
  BY DEF Goto, TypeInv, TypeOK, Threads, Settled
<1>2. Pair'
  BY <1>1, PairFacts DEF LoneInv, Pair, Points, NoPtr
<1>3. Distinct(tbl, Settled)' /\ Ahead'
  BY <1>1 DEF LoneInv, Distinct, Ahead
<1>4. StoredOnce'
  BY <1>1 DEF LoneInv, StoredOnce, Unused, TypeInv, TypeOK
<1>5. OwnEntry'
  BY <1>1 DEF LoneInv, OwnEntry, Points, Valid
<1>6. QED
  BY <1>2, <1>3, <1>4, <1>5 DEF LoneInv

\* A step of read_thread that leaves the entries alone and is not about a probe.
LEMMA ReadLeaves ==
  ASSUME TypeInv, LoneInv, NEW l, Goto("read", l),
         l \in Probes \cup {"idle", "rel", "acq", "visit", "r_body",
                            "r_clr", "b_clr", "r_del", "p_new", "reply"},
         tbl'.mem = tbl.mem, tbl'.count = tbl.count, tbl'.gen = tbl.gen,
         ptr'["try"] = ptr["try"], sock'["try"] = sock["try"], freefds' = freefds,
         pc["read"] \in Probes <=> l \in Probes,
         l \in Probes => ptr'["read"] = ptr["read"],
         mlock' \in {NoThread, "read"},
         l \in Probes \cup {"visit", "r_body", "r_clr", "b_clr", "p_new",
                            "reply"} => mlock' = "read",
         Ahead'
  PROVE  LoneInv'
<1>1. pc'["read"] = l /\ pc'["try"] = pc["try"] /\ Settled' = Settled
  BY DEF Goto, TypeInv, TypeOK, Threads, Settled
<1>2. Pair'
  BY <1>1, PairFacts DEF LoneInv, Pair, Points, Valid
<1>3. Distinct(tbl, Settled)'
  BY <1>1 DEF LoneInv, Distinct
<1>4. StoredOnce'
  BY <1>1 DEF LoneInv, StoredOnce, Unused
<1>5. OwnEntry'
  BY <1>1 DEF LoneInv, OwnEntry, Points, Valid
<1>6. QED
  BY <1>2, <1>3, <1>4, <1>5 DEF LoneInv

\* A round that goes on over entries that keep their keys.
LEMMA AheadStays ==
  ASSUME TypeInv, LoneInv, due' = due, tbl'.iter = tbl.iter,
         Settled' = Settled,
         \A j \in Slots : j < Settled => tbl'.mem[j].key = tbl.mem[j].key,
         pc'["read"] \in {"idle", "r_del"} <=> pc["read"] \in {"idle", "r_del"}
  PROVE  Ahead'
BY DEF LoneInv, Ahead

\* peer_new for try_connect_loop: read_thread has no probe then, and the new entry
\* is the last one.
LEMMA TryNew ==
  ASSUME TypeInv, LoneInv, NewPeer("try")
  PROVE  LoneInv'
<1>1. /\ tbl \in Tables /\ InBounds(tbl) /\ tbl.count \in Nat /\ tbl.iter \in Nat
      /\ "try" \in Threads /\ "read" \in Threads /\ tbl.gen \in Nat
  BY PairFacts
<1>2. PICK moved \in BOOLEAN :
        tbl' = PeerNew(tbl, moved) /\ ptr' = [ptr EXCEPT !["try"] = Ptr(tbl', tbl.count)]
  BY DEF NewPeer
<1>3. PICK l \in {"p_fill", "t_fill"} : Goto("try", l) /\ (l = "t_fill" => pc["try"] = "t_new")
  BY DEF NewPeer, At, LoneInv, Pair, Works, Probes
<1>4. pc'["read"] = pc["read"] /\ pc'["try"] = l /\ pc["read"] \notin Probes
      /\ mlock = NoThread
  BY <1>1, <1>3, NoThreadAssumption
     DEF NewPeer, CanLock, Goto, TypeInv, TypeOK, LoneInv, Pair, Threads
<1>5. Settled = tbl.count /\ Distinct(tbl, tbl.count)
  BY <1>4, PairFacts DEF LoneInv
<1>6. /\ tbl'.count = tbl.count + 1 /\ tbl'.iter = tbl.iter
      /\ tbl'.gen \in {tbl.gen, tbl.gen + 1}
      /\ tbl.count \in Slots
      /\ \A i \in Slots : i # tbl.count => tbl'.mem[i] = tbl.mem[i]
      /\ tbl'.mem[tbl.count].key # 0 /\ tbl'.mem[tbl.count].osock = NOSOCK
      /\ Distinct(tbl', tbl.count + 1)
  BY <1>1, <1>2, <1>5, NewDistinct DEF NewPeer
<1>7. Settled' = tbl.count + 1
  BY <1>4, <1>6 DEF Settled
<1>8. /\ mlock' = mlock /\ due' = due /\ freefds' = freefds /\ sock' = sock
      /\ ptr'["try"] = [gen |-> tbl'.gen, slot |-> tbl.count]
      /\ ptr'["read"] = ptr["read"]
  BY <1>1, <1>2 DEF NewPeer, TypeInv, TypeOK, Ptr
<1>9. Pair'
  BY <1>1, <1>3, <1>4, <1>6, <1>8, NoThreadAssumption DEF LoneInv, Pair, Works, Probes, Threads
<1>10. StoredOnce'
  <2>1. \A s : s # NOSOCK /\ Unused(tbl, s) => Unused(tbl', s)
    BY <1>6 DEF Unused
  <2>2. \A s \in Fds : s # NOSOCK
    BY FdsAssumption DEF NOSOCK
  <2>3. QED
    BY <1>3, <1>4, <1>8, <2>1, <2>2 DEF LoneInv, StoredOnce, TypeInv, TypeOK
<1>11. OwnEntry'
  BY <1>1, <1>3, <1>4, <1>6, <1>7, <1>8 DEF OwnEntry
<1>12. Ahead'
  <2>1. \A j \in Slots : j < tbl.count => j < tbl.count + 1 /\ j # tbl.count
    BY <1>1 DEF Slots
  <2>2. QED
    BY <1>4, <1>5, <1>6, <1>7, <1>8, <2>1 DEF LoneInv, Ahead
<1>13. QED
  BY <1>6, <1>7, <1>9, <1>10, <1>11, <1>12 DEF LoneInv

\* peer_new for read_thread: its probe is no settled entry.
LEMMA ReadNew ==
  ASSUME TypeInv, LoneInv, NewPeer("read")
  PROVE  LoneInv'
<1>1. /\ tbl \in Tables /\ InBounds(tbl) /\ tbl.count \in Nat /\ tbl.iter \in Nat
      /\ "try" \in Threads /\ "read" \in Threads /\ tbl.gen \in Nat
  BY PairFacts
<1>2. PICK moved \in BOOLEAN :
        tbl' = PeerNew(tbl, moved) /\ ptr' = [ptr EXCEPT !["read"] = Ptr(tbl', tbl.count)]
  BY DEF NewPeer
<1>3. pc["read"] = "p_new" /\ Goto("read", "p_fill")
  BY DEF NewPeer, At, LoneInv, Pair, Probes
<1>4. pc'["read"] = "p_fill" /\ pc'["try"] = pc["try"] /\ mlock = "read"
  BY <1>1, <1>3 DEF Goto, TypeInv, TypeOK, LoneInv, Pair
<1>5. Settled = tbl.count /\ Distinct(tbl, tbl.count)
  BY <1>3, PairFacts DEF LoneInv, Probes
<1>6. /\ tbl'.count = tbl.count + 1 /\ tbl'.iter = tbl.iter
      /\ tbl'.gen \in {tbl.gen, tbl.gen + 1}
      /\ tbl.count \in Slots
      /\ \A i \in Slots : i # tbl.count => tbl'.mem[i] = tbl.mem[i]
      /\ tbl'.mem[tbl.count].osock = NOSOCK
      /\ Distinct(tbl', tbl.count)
  BY <1>1, <1>2, <1>5, NewDistinct DEF NewPeer
<1>7. Settled' = tbl.count
  BY <1>1, <1>4, <1>6 DEF Settled, Probes
<1>8. /\ mlock' = mlock /\ due' = due /\ freefds' = freefds /\ sock' = sock
      /\ ptr'["read"] = [gen |-> tbl'.gen, slot |-> tbl.count]
      /\ ptr'["try"] = ptr["try"]
  BY <1>1, <1>2 DEF NewPeer, TypeInv, TypeOK, Ptr
<1>9. Pair'
  <2>1. Points("read")'
    BY <1>1, <1>6, <1>8 DEF Points, Valid, NoPtr
  <2>2. ptr["try"].gen <= tbl'.gen
    BY <1>1, <1>6, PairFacts DEF LoneInv, Pair
  <2>3. QED
    BY <1>1, <1>3, <1>4, <1>6, <1>8, <2>1, <2>2 DEF LoneInv, Pair, Probes
<1>10. StoredOnce'
  <2>1. \A s : s # NOSOCK /\ Unused(tbl, s) => Unused(tbl', s)
    BY <1>6 DEF Unused
  <2>2. \A s \in Fds : s # NOSOCK
    BY FdsAssumption DEF NOSOCK
  <2>3. QED
    BY <1>4, <1>8, <2>1, <2>2 DEF LoneInv, StoredOnce, TypeInv, TypeOK
<1>11. OwnEntry'
  <2> SUFFICES ASSUME pc["try"] \in Works, Points("try")'
               PROVE  /\ ptr["try"].slot >= tbl.count - 1
                      /\ ptr["try"].slot = tbl.count - 1 =>
                           /\ tbl'.mem[ptr["try"].slot].key # 0
                           /\ pc["try"] \in {"add", "t_key"} =>
                                tbl'.mem[ptr["try"].slot].osock # NOSOCK
    BY <1>4, <1>7, <1>8 DEF OwnEntry
  <2>1. Points("try")
    BY <1>1, <1>6, <1>8, PairFacts DEF Points, Valid, LoneInv, Pair
  <2>2. ptr["try"].slot \in Slots
    BY <1>1, <2>1, PairFacts
  <2>3. ptr["try"].slot = tbl.count - 1 => ptr["try"].slot # tbl.count
    BY <1>1
  <2>4. QED
    BY <1>5, <1>6, <2>1, <2>2, <2>3 DEF LoneInv, OwnEntry
<1>12. Ahead'
  <2>1. \A j \in Slots : j < tbl.count => j # tbl.count
    BY <1>1 DEF Slots
  <2>2. QED
    BY <1>3, <1>4, <1>5, <1>6, <1>7, <1>8, <2>1 DEF LoneInv, Ahead
<1>13. QED
  BY <1>6, <1>7, <1>9, <1>10, <1>11, <1>12 DEF LoneInv

\* try_connect_loop writes its entry.
LEMMA TryWrite ==
  ASSUME TypeInv, LoneInv, pc["try"] \in Works, Points("try"), NEW e, NEW l,
         Goto("try", l), l \in Works \cup {"idle"},
         tbl' = [tbl EXCEPT !.mem[ptr["try"].slot] = e],
         mlock' = mlock, freefds' = freefds, ptr'["read"] = ptr["read"],
         ptr'["try"] \in {ptr["try"], NoPtr},
         \/ e.key \in {Peer("try").key, 0}
         \/ e.key = FreshKey(tbl),
         \/ e.osock = Peer("try").osock
         \/ pc["try"] = "t_fill" /\ e.osock = sock["try"],
         l # "t_fill",
         ptr["try"].slot = Settled - 1 =>
           /\ e.key \in {Peer("try").key, 0}
           /\ e.key = 0 => l = "idle" /\ e.osock # NOSOCK
           /\ l \in {"add", "t_key"} => e.osock # NOSOCK,
         \/ due' = due /\ e.key = Peer("try").key
         \/ Removed(tbl')
  PROVE  LoneInv'
<1> DEFINE s == ptr["try"].slot
<1>1. /\ tbl \in Tables /\ InBounds(tbl) /\ tbl.count \in Nat /\ tbl.iter \in Nat
      /\ "try" \in Threads /\ "read" \in Threads /\ s \in Slots
      /\ Settled \in 0..tbl.count /\ ptr["try"].gen = tbl.gen /\ tbl.gen \in Nat
  BY PairFacts
<1>2. s >= Settled - 1 /\ (s = Settled - 1 => tbl.mem[s].key # 0)
  BY DEF LoneInv, OwnEntry
<1>3. s \in Nat /\ (s < Settled <=> s = Settled - 1)
  BY <1>1, <1>2 DEF Slots
<1>4. sock["try"] # NOSOCK \/ pc["try"] # "t_fill"
  BY FdsAssumption DEF LoneInv, StoredOnce, NOSOCK
<1>5. /\ tbl'.count = tbl.count /\ tbl'.iter = tbl.iter /\ tbl'.gen = tbl.gen
      /\ tbl'.mem[s] = e /\ \A i \in Slots : i # s => tbl'.mem[i] = tbl.mem[i]
      /\ Distinct(tbl', Settled)
  <2>1. \/ e.key \in {tbl.mem[s].key, 0}
        \/ e.key = FreshKey(tbl)
    BY DEF Peer
  <2>2. \/ e.osock = tbl.mem[s].osock
        \/ e.osock # NOSOCK /\ Unused(tbl, e.osock)
    BY <1>4 DEF Peer, LoneInv, StoredOnce
  <2>3. s < Settled /\ e.key = 0 => e.osock # NOSOCK
    BY <1>3
  <2>4. /\ tbl'.count = tbl.count /\ tbl'.iter = tbl.iter /\ tbl'.gen = tbl.gen
        /\ tbl'.mem = [tbl.mem EXCEPT ![s] = e] /\ tbl.mem \in [Slots -> Entry]
    BY <1>1 DEF Tables
  <2>5. tbl'.mem[s] = e /\ \A i \in Slots : i # s => tbl'.mem[i] = tbl.mem[i]
    BY <1>1, <2>4
  <2>6. Distinct(tbl, Settled)
    BY DEF LoneInv
  <2>7. Distinct(tbl', Settled)
    <3> HIDE DEF s
    <3>1. /\ \A i \in Slots : i # s => tbl'.mem[i] = tbl.mem[i]
          /\ tbl'.mem[s].key \in {tbl.mem[s].key, 0} \/ tbl'.mem[s].key = FreshKey(tbl)
          /\ \/ tbl'.mem[s].osock = tbl.mem[s].osock
             \/ tbl'.mem[s].osock # NOSOCK /\ Unused(tbl, tbl'.mem[s].osock)
          /\ s < Settled /\ tbl'.mem[s].key = 0 => tbl'.mem[s].osock # NOSOCK
      BY <2>1, <2>2, <2>3, <2>5
    <3>2. FreshKey(tbl) # 0 /\ \A i \in Slots : tbl.mem[i].key # FreshKey(tbl)
      BY <1>1, FreshKeyExists DEF UsedKeys
    <3>3. QED
      BY <1>1, <2>6, <3>1, <3>2 DEF Distinct, Unused
  <2>8. QED
    BY <2>4, <2>5, <2>7
<1>6. pc'["read"] = pc["read"] /\ pc'["try"] = l
  BY <1>1 DEF Goto, TypeInv, TypeOK
<1>7. Settled' = Settled
  BY <1>5, <1>6 DEF Settled
<1>8. Pair'
  BY <1>1, <1>5, <1>6 DEF LoneInv, Pair, Points, Valid, NoPtr
<1>9. StoredOnce'
  <2>1. \A f \in freefds : tbl'.mem[s].osock # f
    BY <1>1, <1>5 DEF LoneInv, StoredOnce, Unused, Peer
  <2>2. \A f \in freefds : Unused(tbl', f)
    BY <1>5, <2>1 DEF LoneInv, StoredOnce, Unused
  <2>3. QED
    BY <1>6, <2>2 DEF StoredOnce, Works, Probes
<1>10. OwnEntry'
  <2>1. CASE l = "idle"
    BY <1>6, <2>1 DEF OwnEntry, Works, Probes
  <2>2. CASE l \in Works /\ ptr'["try"] = ptr["try"]
    BY <1>2, <1>5, <1>6, <1>7, <2>2 DEF OwnEntry, Peer, Works, Probes
  <2>3. CASE ptr'["try"] = NoPtr
    BY <2>3 DEF OwnEntry, Points, Valid
  <2>4. QED
    BY <2>1, <2>2, <2>3
<1>11. Ahead'
  <2>1. CASE due' = due /\ e.key = Peer("try").key
    BY <1>5, <1>6, <1>7, <2>1 DEF LoneInv, Ahead, Peer
  <2>2. CASE Removed(tbl')
    <3>1. due'["read"] = due["read"] \cap LiveKeys(tbl')
      BY <1>1, <2>2 DEF Removed
    <3>2. Live(tbl') = {i \in Slots : i < tbl.count}
      BY <1>1, <1>5, TableFacts DEF Live
    <3>3. ASSUME NEW k \in due'["read"]
          PROVE  \E j \in Slots : tbl.iter <= j /\ j < Settled /\ tbl'.mem[j].key = k
      <4>1. PICK j \in Slots : tbl.iter <= j /\ j < Settled /\ tbl.mem[j].key = k
        BY <3>1, <3>3 DEF LoneInv, Ahead
      <4>2. CASE j # s \/ e.key = tbl.mem[s].key
        BY <1>5, <4>1, <4>2
      <4>3. CASE j = s /\ e.key # tbl.mem[s].key
        <5>1. s = Settled - 1 /\ e.key = 0 /\ k # 0
          BY <1>2, <1>3, <4>1, <4>3 DEF Peer
        <5>2. PICK i \in Slots : tbl'.mem[i].key = k
          BY <3>1, <3>2, <3>3 DEF LiveKeys
        <5>3. i # s /\ tbl.mem[i].key = k
          BY <1>5, <5>1, <5>2
        <5>4. QED
          BY <4>1, <4>3, <5>1, <5>3 DEF LoneInv, Distinct
      <4>4. QED
        BY <4>2, <4>3
    <3>4. QED
      BY <1>5, <1>6, <1>7, <3>1, <3>3 DEF LoneInv, Ahead
  <2>3. QED
    BY <2>1, <2>2
<1>12. QED
  BY <1>5, <1>7, <1>8, <1>9, <1>10, <1>11 DEF LoneInv

\* The three writes of try_connect_loop.
LEMMA TryFills ==
  ASSUME TypeInv, LoneInv, FillProbe("try") \/ TryFill
  PROVE  LoneInv'
<1> USE DEF At, Goto, table, locals
<1>1. Points("try") /\ "try" \in Threads /\ pc["try"] \in Works
  BY DEF FillProbe, TryFill, Threads, Works, Probes
<1>2. Peer("try") \in Entry
  BY <1>1, PeerEntry
<1>3. mlock' = mlock /\ freefds' = freefds /\ ptr' = ptr /\ due' = due
  BY DEF FillProbe, TryFill
<1>4. ptr["try"].slot = Settled - 1 => Peer("try").key # 0
  BY <1>1 DEF LoneInv, OwnEntry, Peer
<1>5. CASE FillProbe("try")
  <2> DEFINE e == [Peer("try") EXCEPT !.addr = peeraddr["try"], !.port = 1]
  <2>1. e.key = Peer("try").key /\ e.osock = Peer("try").osock
    BY <1>2 DEF Entry
  <2>2. tbl' = [tbl EXCEPT !.mem[ptr["try"].slot] = e] /\ Goto("try", "p_exists")
    BY <1>5 DEF FillProbe, Store
  <2> HIDE DEF e
  <2>3. QED
    BY <1>1, <1>3, <1>4, <2>1, <2>2, TryWrite DEF Works, Probes
<1>6. CASE TryFill
  <2> DEFINE e == [Peer("try") EXCEPT !.addr = peeraddr["try"],
                                      !.osock = sock["try"],
                                      !.isock = SOCKET_ONEWAY, !.port = 1]
  <2>1. e.key = Peer("try").key /\ e.osock = sock["try"]
    BY <1>2 DEF Entry
  <2>2. tbl' = [tbl EXCEPT !.mem[ptr["try"].slot] = e] /\ Goto("try", "add")
        /\ pc["try"] = "t_fill"
    BY <1>6 DEF TryFill, Store
  <2>3. sock["try"] # NOSOCK
    BY <2>2, FdsAssumption DEF LoneInv, StoredOnce, NOSOCK
  <2> HIDE DEF e
  <2>4. QED
    BY <1>1, <1>3, <1>4, <2>1, <2>2, <2>3, TryWrite DEF Works, Probes
<1>7. QED
  BY <1>5, <1>6

\* check_peer_key: a refused key is given up with an entry that has its socket.
LEMMA TryKeys ==
  ASSUME TypeInv, LoneInv, TryKey
  PROVE  LoneInv'
<1> USE DEF At, Goto, table, locals
<1>1. Points("try") /\ "try" \in Threads /\ "read" \in Threads /\ pc["try"] = "t_key"
  BY DEF TryKey, Threads
<1>2. /\ Peer("try") \in Entry /\ ptr["try"].slot \in Slots
      /\ tbl.mem \in [Slots -> Entry] /\ tbl \in Tables
  BY <1>1, PeerEntry, PairFacts
<1>3. mlock' = mlock /\ freefds' = freefds /\ Removed(tbl') /\ Goto("try", "idle")
      /\ ptr'["try"] = NoPtr /\ ptr'["read"] = ptr["read"]
  BY <1>1 DEF TryKey, Done, TypeInv, TypeOK
<1>4. ptr["try"].slot = Settled - 1 => Peer("try").key # 0 /\ Peer("try").osock # NOSOCK
  BY <1>1 DEF LoneInv, OwnEntry, Peer, Works
<1>5. CASE KeyAccepted("try", SOCKET_ONEWAY)
  <2> DEFINE e == [Peer("try") EXCEPT !.isock = SOCKET_ONEWAY,
                                      !.key = IF @ = 0 THEN FreshKey(tbl) ELSE @]
  <2>1. e.osock = Peer("try").osock
        /\ e.key = IF Peer("try").key = 0 THEN FreshKey(tbl) ELSE Peer("try").key
    BY <1>2 DEF Entry
  <2>2. tbl' = [tbl EXCEPT !.mem[ptr["try"].slot] = e]
    BY <1>5 DEF KeyAccepted, Store
  <2> HIDE DEF e
  <2>3. e.key \in {Peer("try").key, 0} \/ e.key = FreshKey(tbl)
    BY <2>1
  <2>4. QED
    BY <1>1, <1>3, <1>4, <2>1, <2>2, <2>3, TryWrite DEF Works, Probes
<1>6. CASE KeyRefused("try")
  <2> DEFINE e == [Peer("try") EXCEPT !.key = 0]
  <2>1. e.key = 0 /\ e.osock = Peer("try").osock
    BY <1>2 DEF Entry
  <2>2. tbl' = [tbl EXCEPT !.mem[ptr["try"].slot] = e]
    BY <1>2, <1>6 DEF KeyRefused, PeerFree, Peer, Tables
  <2> HIDE DEF e
  <2>3. QED
    BY <1>1, <1>3, <1>4, <2>1, <2>2, TryWrite DEF Works, Probes
<1>7. QED
  BY <1>5, <1>6 DEF TryKey

\* An entry that is not settled equals no settled one.
LEMMA UnlikeSettled ==
  ASSUME NEW tb, NEW n, Distinct(tb, n), NEW i \in Slots, i < n, NEW s \in Slots, s # i
  PROVE  tb.mem[i] # tb.mem[s]
BY DEF Distinct

\* A last entry with a key equals no other one.
LEMMA LastAlone ==
  ASSUME NEW tb \in Tables, InBounds(tb), NEW s \in Slots,
         s = tb.count - 1, Distinct(tb, s)
  PROVE  Equal(tb, tb.mem[s]) = {s}
<1>1. Live(tb) = {i \in Slots : i < tb.count} /\ tb.count \in Nat
  BY TableFacts
<1>2. s \in Live(tb) /\ \A i \in Live(tb) : i # s => i \in Slots /\ i < s
  BY <1>1 DEF Slots
<1>3. \A i \in Live(tb) : i # s => tb.mem[i] # tb.mem[s]
  BY <1>2, UnlikeSettled
<1>4. QED
  BY <1>2, <1>3 DEF Equal

\* The first entries are as distinct as all are.
LEMMA FewerDistinct ==
  ASSUME NEW tb, NEW n \in Nat, NEW m \in Nat, m <= n, Distinct(tb, n)
  PROVE  Distinct(tb, m)
<1>1. \A i \in Slots : i < m => i < n
  BY DEF Slots
<1>2. QED
  BY <1>1 DEF Distinct

\* connect_to_peers removes its probe: the last entry, or nothing.
LEMMA TryUnprobes ==
  ASSUME TypeInv, LoneInv, RemoveProbe("try")
  PROVE  LoneInv'
<1> DEFINE s == ptr["try"].slot
<1>1. /\ pc["try"] = "p_remove" /\ Points("try") /\ mlock \in {NoThread, "try"}
      /\ tbl' = PeerRemove(tbl, tbl.mem[s]) /\ Removed(tbl')
      /\ mlock' = mlock /\ freefds' = freefds
  BY DEF RemoveProbe, At, CanLock, Peer
<1>2. /\ tbl \in Tables /\ InBounds(tbl) /\ tbl.count \in Nat /\ tbl.iter \in Nat
      /\ "try" \in Threads /\ "read" \in Threads /\ s \in Slots /\ s \in Nat
      /\ ptr["try"].gen = tbl.gen /\ tbl.iter <= tbl.count /\ tbl.gen \in Nat
  BY <1>1, PairFacts DEF Slots
<1>3. pc["read"] \notin Probes
  BY <1>1, <1>2, NoThreadAssumption DEF LoneInv, Pair, Threads
<1>4. Settled = tbl.count /\ Distinct(tbl, tbl.count)
  BY <1>3, PairFacts DEF LoneInv
<1>5. s >= tbl.count - 1 /\ (s = tbl.count - 1 => tbl.mem[s].key # 0)
  BY <1>1, <1>4 DEF LoneInv, OwnEntry, Works, Probes
<1>6. PICK l \in {"t_socket", "idle"} : Goto("try", l)
  BY DEF RemoveProbe, GoOn, Done
<1>7. pc'["try"] = l /\ pc'["read"] = pc["read"]
      /\ ptr'["read"] = ptr["read"] /\ ptr'["try"] \in {ptr["try"], NoPtr}
  BY <1>2, <1>6 DEF RemoveProbe, GoOn, Done, Goto, locals, TypeInv, TypeOK
<1>8. due'["read"] = due["read"] \cap LiveKeys(tbl')
  BY <1>1, <1>2 DEF Removed
<1>9. OwnEntry'
  BY <1>7 DEF OwnEntry, Works, Probes
<1>10. ASSUME tbl'.gen = tbl.gen
       PROVE  Pair'
  <2>1. pc'["read"] \notin Probes /\ pc'["try"] \in {"t_socket", "idle"}
    BY <1>3, <1>6, <1>7
  <2>2. /\ pc'["read"] \in {"idle", "rel", "acq", "visit", "r_body",
                            "r_clr", "b_clr", "r_del", "p_new", "reply"}
        /\ mlock' \in {NoThread, "read"}
        /\ pc'["read"] \in {"visit", "r_body", "r_clr", "b_clr", "p_new", "reply"}
           => mlock' = "read"
    BY <1>1, <1>3, <1>7 DEF LoneInv, Pair
  <2>3. ptr'["try"].gen <= tbl'.gen
    BY <1>2, <1>7, <1>10 DEF NoPtr
  <2>4. QED
    BY <2>1, <2>2, <2>3 DEF Pair
<1>11. CASE s = tbl.count - 1
  <2>1. Distinct(tbl, s) /\ tbl.count > 0
    BY <1>2, <1>4, <1>11, FewerDistinct
  <2>2. Equal(tbl, tbl.mem[s]) = {s}
    BY <1>2, <1>11, <2>1, LastAlone
  <2>3. /\ tbl'.count = s /\ tbl'.gen = tbl.gen /\ tbl'.iter <= tbl.iter
        /\ \A i \in Slots : i # s => tbl'.mem[i] = tbl.mem[i]
        /\ \A i \in Slots : tbl'.mem[i].osock = tbl.mem[i].osock
        /\ Distinct(tbl', s)
    BY <1>1, <1>2, <1>11, <2>1, <2>2, RemoveLast
  <2>4. Settled' = s /\ tbl'.iter \in Nat
    BY <1>3, <1>7, <2>3, RemovePeerTable, TableFacts, <1>1
       DEF Settled, RemoveProbe, Peer, IteratorInBounds, InBounds
  <2>5. Pair'
    BY <1>10, <2>3
  <2>6. StoredOnce'
    <3>1. \A x \in freefds' : Unused(tbl', x)
      BY <1>1, <2>3 DEF LoneInv, StoredOnce, Unused
    <3>2. pc'["try"] \notin {"t_new", "t_fill"}
      BY <1>6, <1>7
    <3>3. QED
      BY <3>1, <3>2 DEF StoredOnce
  <2>7. ASSUME NEW k \in due'["read"]
        PROVE  \E j \in Slots : tbl'.iter <= j /\ j < s /\ tbl'.mem[j].key = k
    <3>1. PICK j \in Slots : tbl.iter <= j /\ j < tbl.count /\ tbl.mem[j].key = k
      BY <1>4, <1>8, <2>7 DEF LoneInv, Ahead
    <3>2. j \in Nat
      BY DEF Slots
    <3>3. CASE j # s
      <4>1. j < s /\ tbl'.iter <= j
        BY <1>2, <1>11, <2>3, <2>4, <3>1, <3>2, <3>3
      <4>2. QED
        BY <2>3, <3>1, <3>3, <4>1
    <3>4. CASE j = s
      <4>1. PICK i \in Slots : i < s /\ tbl'.mem[i].key = k
        BY <1>8, <2>3, <2>7, RemovePeerTable, TableFacts, <1>1
           DEF LiveKeys, RemoveProbe, Peer, IteratorInBounds, InBounds
      <4>2. i # s /\ tbl.mem[i].key = tbl.mem[s].key
        BY <1>2, <2>3, <3>1, <3>4, <4>1
      <4>3. QED
        BY <1>2, <1>4, <1>5, <1>11, <3>1, <3>4, <4>1, <4>2 DEF Distinct
    <3>5. QED
      BY <3>3, <3>4
  <2>8. Ahead'
    <3>1. pc["read"] \in {"idle", "r_del"} => tbl'.iter = 0 /\ due'["read"] = {}
      BY <1>2, <1>8, <2>3, <2>4 DEF LoneInv, Ahead
    <3>2. QED
      BY <1>7, <2>4, <2>7, <3>1 DEF Ahead
  <2>9. QED
    BY <1>9, <2>3, <2>4, <2>5, <2>6, <2>8 DEF LoneInv
<1>12. CASE s # tbl.count - 1
  <2>1. Live(tbl) = {i \in Slots : i < tbl.count}
    BY <1>2, TableFacts
  <2>2. \A i \in Live(tbl) : i # s
    BY <1>2, <1>5, <1>12, <2>1
  <2>3. \A i \in Live(tbl) : tbl.mem[i] # tbl.mem[s]
    BY <1>2, <1>4, <2>1, <2>2, UnlikeSettled
  <2>4. tbl' = tbl
    BY <1>1, <2>3 DEF PeerRemove, Equal
  <2>5. Settled' = Settled
    BY <1>7, <2>4 DEF Settled
  <2>6. Pair'
    BY <1>10, <2>4
  <2>7. StoredOnce'
    BY <1>1, <1>6, <1>7, <2>4 DEF LoneInv, StoredOnce
  <2>8. Ahead'
    BY <1>7, <1>8, <2>4, <2>5 DEF LoneInv, Ahead
  <2>9. QED
    BY <1>9, <2>4, <2>5, <2>6, <2>7, <2>8 DEF LoneInv
<1>13. QED
  BY <1>11, <1>12

\* A handler of read_thread fills its probe in and removes it.
LEMMA ReadFills ==
  ASSUME TypeInv, LoneInv, FillProbe("read")
  PROVE  LoneInv'
<1> DEFINE s == ptr["read"].slot
           e == [Peer("read") EXCEPT !.addr = peeraddr["read"], !.port = 1]
<1>1. /\ tbl \in Tables /\ InBounds(tbl) /\ tbl.count \in Nat /\ tbl.iter \in Nat
      /\ "try" \in Threads /\ "read" \in Threads /\ Settled = tbl.count - 1
      /\ s = tbl.count - 1 /\ Points("read") /\ s \in Slots
      /\ tbl.mem \in [Slots -> Entry]
  BY PairFacts DEF FillProbe, At, LoneInv, Pair, Probes
<1>2. Peer("read") \in Entry
  BY <1>1, PeerEntry
<1>3. /\ tbl'.count = tbl.count /\ tbl'.iter = tbl.iter /\ tbl'.gen = tbl.gen
      /\ tbl'.mem = [tbl.mem EXCEPT ![s] = e]
  BY <1>1 DEF FillProbe, Store, Tables
<1>4. e.key = tbl.mem[s].key /\ e.osock = tbl.mem[s].osock
  BY <1>2 DEF Entry, Peer
<1> HIDE DEF e
<1>5. /\ \A i \in Slots : i # s => tbl'.mem[i] = tbl.mem[i]
      /\ tbl'.mem[s].key = tbl.mem[s].key /\ tbl'.mem[s].osock = tbl.mem[s].osock
  BY <1>1, <1>3, <1>4
<1>6. /\ \A i \in Slots : /\ tbl'.mem[i].key = tbl.mem[i].key
                          /\ tbl'.mem[i].osock = tbl.mem[i].osock
  BY <1>5
<1>7. /\ pc["read"] = "p_fill" /\ pc'["read"] = "p_exists" /\ pc'["try"] = pc["try"]
      /\ mlock' = mlock /\ ptr' = ptr /\ freefds' = freefds /\ sock' = sock /\ due' = due
  BY <1>1 DEF FillProbe, At, Goto, locals, TypeInv, TypeOK
<1>8. Settled' = Settled
  BY <1>3, <1>7 DEF Settled, Probes
<1>9. Pair'
  BY <1>3, <1>7 DEF LoneInv, Pair, Points, Valid, Probes
<1>10. Distinct(tbl', Settled')
  BY <1>6, <1>8 DEF LoneInv, Distinct
<1>11. StoredOnce'
  BY <1>6, <1>7 DEF LoneInv, StoredOnce, Unused
<1>12. OwnEntry'
  BY <1>3, <1>6, <1>7, <1>8, PairFacts DEF LoneInv, OwnEntry, Points, Valid
<1>13. Ahead'
  BY <1>3, <1>6, <1>7, <1>8 DEF LoneInv, Ahead
<1>14. QED
  BY <1>9, <1>10, <1>11, <1>12, <1>13 DEF LoneInv

\* The probe is the last entry, and nothing a round has to visit moves.
LEMMA ReadUnprobes ==
  ASSUME TypeInv, LoneInv, RemoveProbe("read")
  PROVE  LoneInv'
<1> DEFINE s == ptr["read"].slot
<1>1. /\ tbl \in Tables /\ InBounds(tbl) /\ tbl.count \in Nat /\ tbl.iter \in Nat
      /\ "try" \in Threads /\ "read" \in Threads /\ Settled = tbl.count - 1
      /\ s = tbl.count - 1 /\ s \in Slots /\ s \in Nat /\ pc["read"] = "p_remove"
      /\ tbl.iter <= tbl.count /\ tbl.gen \in Nat
  BY PairFacts DEF RemoveProbe, At, LoneInv, Pair, Probes, Slots
<1>2. Distinct(tbl, s) /\ tbl.count > 0
  BY <1>1 DEF LoneInv
<1>3. Equal(tbl, tbl.mem[s]) = {s}
  BY <1>1, <1>2, LastAlone
<1>4. tbl' = PeerRemove(tbl, tbl.mem[s]) /\ Removed(tbl') /\ mlock' = mlock
      /\ freefds' = freefds
  BY DEF RemoveProbe, Peer
<1>5. /\ tbl'.count = s /\ tbl'.gen = tbl.gen /\ tbl'.iter <= tbl.iter
      /\ \A i \in Slots : i # s => tbl'.mem[i] = tbl.mem[i]
      /\ \A i \in Slots : tbl'.mem[i].osock = tbl.mem[i].osock
      /\ Distinct(tbl', s)
  BY <1>1, <1>2, <1>3, <1>4, RemoveLast
<1>6. PICK l \in {"reply", "rel"} : Goto("read", l)
  BY DEF RemoveProbe, GoOn
<1>7. /\ pc'["read"] = l /\ pc'["try"] = pc["try"] /\ ptr'["try"] = ptr["try"]
      /\ sock'["try"] = sock["try"]
  BY <1>1, <1>6 DEF RemoveProbe, GoOn, Goto, locals, TypeInv, TypeOK
<1>8. Settled' = s /\ Settled = s
  BY <1>1, <1>5, <1>7 DEF Settled, Probes
<1>9. due'["read"] \subseteq due["read"]
  BY <1>1, <1>4 DEF Removed
<1>10. Pair'
  BY <1>1, <1>4, <1>5, <1>7 DEF LoneInv, Pair, Probes
<1>11. StoredOnce'
  BY <1>4, <1>5, <1>7 DEF LoneInv, StoredOnce, Unused
<1>12. OwnEntry'
  <2> SUFFICES ASSUME pc["try"] \in Works, Points("try")
               PROVE  /\ ptr["try"].slot >= s - 1
                      /\ ptr["try"].slot = s - 1 =>
                           /\ tbl'.mem[ptr["try"].slot].key # 0
                           /\ pc["try"] \in {"add", "t_key"} =>
                                tbl'.mem[ptr["try"].slot].osock # NOSOCK
    BY <1>5, <1>7, <1>8 DEF OwnEntry, Points, Valid
  <2>1. ptr["try"].slot \in Slots /\ (ptr["try"].slot = s - 1 => ptr["try"].slot # s)
    BY <1>1, PairFacts
  <2>2. QED
    BY <1>5, <1>8, <2>1 DEF LoneInv, OwnEntry
<1>13. Ahead'
  <2>1. tbl'.iter \in Nat
    BY <1>4, RemovePeerTable, TableFacts
       DEF RemoveProbe, Peer, IteratorInBounds, InBounds
  <2>2. \A j \in Slots : j \in Nat
    BY DEF Slots
  <2>3. \A j \in Slots : tbl.iter <= j /\ j < s => tbl'.iter <= j /\ tbl'.mem[j] = tbl.mem[j]
    BY <1>1, <1>5, <2>1, <2>2
  <2>4. QED
    BY <1>7, <1>8, <1>9, <2>3 DEF LoneInv, Ahead
<1>14. QED
  BY <1>5, <1>8, <1>10, <1>11, <1>12, <1>13 DEF LoneInv

\* The deferred removal, of any entry, after the round.
LEMMA ReadDrops ==
  ASSUME TypeInv, LoneInv, ReadRemove
  PROVE  LoneInv'
<1>1. /\ tbl \in Tables /\ InBounds(tbl) /\ tbl.count \in Nat /\ tbl.iter \in Nat
      /\ "try" \in Threads /\ "read" \in Threads /\ Settled = tbl.count
      /\ pc["read"] = "r_del" /\ tbl.iter <= tbl.count /\ tbl.gen \in Nat
  BY PairFacts DEF ReadRemove, At, Probes
<1>2. Distinct(tbl, tbl.count) /\ due["read"] = {} /\ tbl.iter = 0
  BY <1>1 DEF LoneInv, Ahead
<1>3. /\ pc'["read"] = "idle" /\ pc'["try"] = pc["try"] /\ ptr'["try"] = ptr["try"]
      /\ sock'["try"] = sock["try"] /\ mlock' = mlock /\ freefds' = freefds
  BY <1>1 DEF ReadRemove, Done, Goto, TypeInv, TypeOK
<1>4. due'["read"] = {}
  BY <1>1, <1>2 DEF ReadRemove, Removed
<1>5. Settled' = tbl'.count
  BY <1>3 DEF Settled, Probes
<1>6. CASE tbl' = tbl
  <2>1. Pair'
    BY <1>1, <1>3, <1>6 DEF LoneInv, Pair, Probes
  <2>2. StoredOnce' /\ Distinct(tbl', Settled') /\ Ahead'
    BY <1>1, <1>2, <1>3, <1>4, <1>5, <1>6 DEF LoneInv, StoredOnce, Ahead
  <2>3. OwnEntry'
    BY <1>1, <1>3, <1>5, <1>6 DEF LoneInv, OwnEntry, Points
  <2>4. QED
    BY <2>1, <2>2, <2>3 DEF LoneInv
<1>7. CASE tbl' # tbl
  <2> DEFINE e == tbl.mem[del.slot]
             k == First(Equal(tbl, e))
  <2>1. ~RemoveOverruns(tbl, e) /\ tbl' = PeerRemove(tbl, e) /\ Equal(tbl, e) # {}
    BY <1>7 DEF ReadRemove, PeerRemove
  <2>2. Equal(tbl, e) \in SUBSET Nat /\ Equal(tbl, e) \subseteq Live(tbl)
    BY DEF Equal, Live
  <2>3. k \in Live(tbl)
    BY <2>1, <2>2, FirstInSet
  <2>4. k + 1 < tbl.count => tbl.count + 1 < tbl.size
    BY <1>1, <2>1, TableFacts DEF RemoveOverruns
  <2>5. tbl' = RemoveAt(tbl, k)
    BY <2>1 DEF PeerRemove
  <2> HIDE DEF k
  <2>6. /\ tbl'.count = tbl.count - 1 /\ tbl'.gen = tbl.gen
        /\ \A i \in Slots : \E j \in Slots : tbl'.mem[i].osock = tbl.mem[j].osock
        /\ Distinct(tbl', tbl'.count)
    BY <1>1, <1>2, <2>3, <2>4, <2>5, RemoveDistinct
  <2>7. tbl'.iter = 0
    <3>1. tbl.count # 0
      BY <1>1, <2>3, TableFacts DEF Live
    <3>2. QED
      BY <1>1, <1>2, <2>5, <3>1 DEF RemoveAt, Tables
  <2>8. Pair'
    BY <1>1, <1>3, <2>6 DEF LoneInv, Pair, Probes
  <2>9. StoredOnce'
    <3>1. \A f : Unused(tbl, f) => Unused(tbl', f)
      BY <2>6 DEF Unused
    <3>2. QED
      BY <1>3, <3>1 DEF LoneInv, StoredOnce
  <2>10. OwnEntry'
    <3> SUFFICES ASSUME pc["try"] \in Works, Points("try")
                 PROVE  ptr["try"].slot > tbl'.count - 1
      BY <1>1, <1>3, <1>5, <2>6, PairFacts DEF OwnEntry, Points, Valid
    <3>1. QED
      BY <1>1, <2>6, PairFacts DEF LoneInv, OwnEntry
  <2>11. Ahead'
    BY <1>4, <2>7 DEF Ahead
  <2>12. QED
    BY <1>5, <2>6, <2>8, <2>9, <2>10, <2>11 DEF LoneInv
<1>8. QED
  BY <1>6, <1>7

\* The round: its beginning, peer_next, and what is done with an entry.
LEMMA ReadRounds ==
  ASSUME TypeInv, LoneInv,
         Select \/ NextRelease("read") \/ NextEntry("read") \/ NextEnd("read")
  PROVE  LoneInv'
<1> USE DEF At, GoOn, Done, table, locals, sets, reader, Probes
<1>1. /\ tbl \in Tables /\ InBounds(tbl) /\ tbl.count \in Nat /\ tbl.iter \in Nat
      /\ "try" \in Threads /\ "read" \in Threads /\ Settled = tbl.count
      /\ tbl.iter <= tbl.count
  BY PairFacts DEF Select, StartRound, NextRelease, NextEntry, NextEnd
<1>2. Live(tbl) = {i \in Slots : i < tbl.count} /\ \A i \in Slots : i \in Nat
  BY <1>1, TableFacts DEF Slots
<1>3. CASE Select
  <2>1. Goto("read", "rel") /\ tbl' = tbl /\ UNCHANGED <<ptr, sock, freefds, mlock>>
    BY <1>3 DEF Select, StartRound
  <2>2. Settled' = tbl.count /\ pc'["read"] = "rel" /\ tbl.iter = 0
    BY <1>1, <1>3, <2>1 DEF Select, Goto, TypeInv, TypeOK, Settled, LoneInv, Ahead
  <2>3. due'["read"] = LiveKeys(tbl)
    BY <1>1, <1>3 DEF Select, StartRound, TypeInv, TypeOK
  <2>4. Ahead'
    BY <1>1, <1>2, <2>1, <2>2, <2>3 DEF Ahead, LiveKeys
  <2>5. pc["read"] = "idle" /\ mlock \in {NoThread, "read"}
    BY <1>3 DEF Select, LoneInv, Pair
  <2>6. QED
    BY <2>1, <2>4, <2>5, ReadLeaves
<1>4. CASE NextRelease("read")
  <2>1. Goto("read", "acq") /\ tbl' = tbl /\ due' = due /\ UNCHANGED <<sock, freefds>>
        /\ pc["read"] = "rel" /\ ptr'["try"] = ptr["try"] /\ mlock' \in {NoThread, "read"}
    BY <1>1, <1>4 DEF NextRelease, LoneInv, Pair, TypeInv, TypeOK
  <2>2. Settled' = Settled /\ pc'["read"] = "acq"
    BY <1>1, <2>1 DEF Goto, TypeInv, TypeOK, Settled
  <2>3. Ahead'
    BY <2>1, <2>2, AheadStays
  <2>4. QED
    BY <2>1, <2>3, ReadLeaves
<1>5. CASE NextEntry("read")
  <2>1. Goto("read", "visit") /\ tbl' = Advance(tbl) /\ UNCHANGED <<sock, freefds>>
        /\ pc["read"] = "acq" /\ ptr'["try"] = ptr["try"] /\ mlock' = "read"
        /\ tbl.iter < tbl.count
    BY <1>1, <1>5 DEF NextEntry, HasNext, TypeInv, TypeOK
  <2>2. /\ tbl'.mem = tbl.mem /\ tbl'.count = tbl.count /\ tbl'.gen = tbl.gen
        /\ tbl'.iter = tbl.iter + 1
    BY <1>1, <2>1 DEF Advance, Tables
  <2>3. Settled' = Settled /\ pc'["read"] = "visit"
    BY <1>1, <2>1, <2>2 DEF Goto, TypeInv, TypeOK, Settled
  <2>4. due'["read"] = due["read"] \ {tbl.mem[tbl.iter].key}
    BY <1>1, <1>5 DEF NextEntry, TypeInv, TypeOK
  <2>5. ASSUME NEW x \in due'["read"]
        PROVE  \E j \in Slots : tbl.iter + 1 <= j /\ j < Settled /\ tbl.mem[j].key = x
    <3>1. PICK j \in Slots : tbl.iter <= j /\ j < Settled /\ tbl.mem[j].key = x
      BY <2>4, <2>5 DEF LoneInv, Ahead
    <3>2. j # tbl.iter
      BY <2>4, <2>5, <3>1
    <3>3. QED
      BY <1>1, <1>2, <3>1, <3>2
  <2>6. Ahead'
    BY <2>2, <2>3, <2>5 DEF Ahead
  <2>7. QED
    BY <2>1, <2>2, <2>6, ReadLeaves
<1>6. CASE NextEnd("read")
  <2>1. Goto("read", "r_del") /\ tbl' = Rewind(tbl) /\ UNCHANGED <<ptr, sock, freefds>>
        /\ pc["read"] = "acq" /\ mlock' = mlock
    BY <1>1, <1>6 DEF NextEnd
  <2>2. /\ tbl'.mem = tbl.mem /\ tbl'.count = tbl.count /\ tbl'.gen = tbl.gen
        /\ tbl'.iter = 0
    BY <1>1, <2>1 DEF Rewind, Tables
  <2>3. due'["read"] = {}
    BY <1>1, <1>6 DEF NextEnd, TypeInv, TypeOK
  <2>4. Ahead'
    BY <2>2, <2>3 DEF Ahead
  <2>5. mlock \in {NoThread, "read"}
    BY DEF LoneInv, Pair
  <2>6. QED
    BY <2>1, <2>2, <2>4, <2>5, ReadLeaves
<1>7. QED
  BY <1>3, <1>4, <1>5, <1>6

\* An entry is received from, and forgotten or looked up.
LEMMA ReadVisits ==
  ASSUME TypeInv, LoneInv,
         \/ ReadNothing \/ ReadHeader \/ ReadHangUp \/ ReadForget \/ ReadEvent
         \/ Compare("read") \/ Reply("read")
  PROVE  LoneInv'
<1> USE DEF At, GoOn, table, locals, sets, reader, Probes
<1>1. "try" \in Threads /\ "read" \in Threads
  BY DEF Threads
<1>2. PICK l \in {"rel", "r_body", "r_clr", "b_clr", "p_new", "p_remove"} :
        /\ Goto("read", l)
        /\ pc["read"] \in {"visit", "r_body", "r_clr", "b_clr", "p_exists", "reply"}
        /\ l = "p_remove" <=> pc["read"] = "p_exists"
  BY DEF ReadNothing, ReadHeader, ReadHangUp, ReadForget, ReadEvent, Compare, Reply
<1>3. /\ tbl' = tbl /\ due' = due /\ mlock' = mlock /\ freefds' = freefds
      /\ ptr' = ptr /\ sock' = sock
  BY DEF ReadNothing, ReadHeader, ReadHangUp, ReadForget, ReadEvent, Compare, Reply
<1>4. pc'["read"] = l
  BY <1>1, <1>2 DEF Goto, TypeInv, TypeOK
<1>5. mlock = "read"
  BY <1>2 DEF LoneInv, Pair
<1>6. Settled' = Settled
  BY <1>2, <1>3, <1>4 DEF Settled
<1>7. Ahead'
  BY <1>2, <1>3, <1>4, <1>6, AheadStays
<1>8. QED
  BY <1>2, <1>3, <1>5, <1>7, ReadLeaves

\* What try_connect_loop does without the table.
LEMMA TryElse ==
  ASSUME TypeInv, LoneInv,
         \/ \E a \in Addrs : TryPeer(a)
         \/ TrySocket \/ Compare("try") \/ AddToSet("try")
  PROVE  LoneInv'
<1> USE DEF At, GoOn, Done, table, locals, sets, reader, Probes, Works
<1>1. "try" \in Threads /\ "read" \in Threads
  BY DEF Threads
<1>2. CASE TrySocket
  <2>1. /\ tbl' = tbl /\ due' = due /\ mlock' = mlock
        /\ ptr'["read"] = ptr["read"] /\ ptr'["try"] \in {ptr["try"], NoPtr}
    BY <1>1, <1>2 DEF TrySocket, TypeInv, TypeOK
  <2>2. CASE Goto("try", "t_new") /\ freefds # {} /\ sock' = [sock EXCEPT !["try"] = LowestFd]
             /\ freefds' = freefds \ {LowestFd}
    <3>1. sock'["try"] = LowestFd /\ LowestFd \in freefds
      BY <1>1, <2>2, LowestFdOpen DEF TypeInv, TypeOK
    <3>2. QED
      BY <2>1, <2>2, <3>1, TryLeaves
  <2>3. CASE Goto("try", "idle") /\ freefds' = freefds
    BY <2>1, <2>3, TryLeaves
  <2>4. QED
    BY <1>2, <2>2, <2>3 DEF TrySocket
<1>3. CASE ~TrySocket
  <2>1. /\ tbl' = tbl /\ due' = due /\ mlock' = mlock /\ freefds' = freefds /\ ptr' = ptr
    BY <1>3 DEF TryPeer, Compare, AddToSet
  <2>2. \/ Goto("try", "p_new")
        \/ Goto("try", "p_remove") /\ pc["try"] = "p_exists"
        \/ Goto("try", "t_key") /\ pc["try"] = "add"
    BY <1>3 DEF TryPeer, Compare, AddToSet
  <2>3. QED
    BY <2>1, <2>2, TryLeaves
<1>4. QED
  BY <1>2, <1>3

\* Nothing has been removed from a round at its end, and no step but peer_next of
\* read_thread ends one.
LEMMA LoneStep ==
  ASSUME TypeInv, LoneInv, NEW t \in {"try", "read"}, Step(t)
  PROVE  LoneInv' /\ RoundEndsComplete
<1>0. t \in Threads /\ "read" \in Threads /\ "try" \in Threads
  BY DEF Threads
<1>1. CASE Failure(t)
  <2>1. UNCHANGED <<tbl, mlock, pc, ptr, sock, freefds, due>>
    BY <1>1 DEF Failure, UseDangling, Overrun, SendAborts, AddAborts, Fail, table,
                locals, reader, sets
  <2>2. LoneInv'
    BY <2>1 DEF LoneInv, Pair, Points, Settled, Distinct, StoredOnce, OwnEntry, Ahead
  <2>3. QED
    BY <2>1, <2>2 DEF RoundEndsComplete
<1>2. CASE t = "try" /\ ~Failure(t)
  <2>1. pc["try"] \notin {"rel", "acq"}
    BY DEF LoneInv, Pair, Works, Probes
  <2>2. \/ NewPeer("try") \/ FillProbe("try") \/ Compare("try") \/ RemoveProbe("try")
        \/ AddToSet("try") \/ Try
    BY <1>2, <2>1 DEF Step, Shared, Reply, NextRelease, NextEntry, NextEnd, At
  <2>3. LoneInv'
    BY <2>2, TryNew, TryFills, TryUnprobes, TryElse, TryKeys DEF Try
  <2>4. \A u \in Threads \ {"try"} : pc'[u] = pc[u]
    BY <1>0, <2>2
       DEF NewPeer, FillProbe, Compare, RemoveProbe, AddToSet, Try, TryPeer, TrySocket,
           TryFill, TryKey, Goto, GoOn, Done, TypeInv, TypeOK
  <2>5. QED
    BY <2>1, <2>3, <2>4 DEF RoundEndsComplete
<1>3. CASE t = "read" /\ ~Failure(t)
  <2>1. \/ NewPeer("read") \/ FillProbe("read") \/ Compare("read") \/ RemoveProbe("read")
        \/ Reply("read") \/ NextRelease("read") \/ NextEntry("read") \/ NextEnd("read")
        \/ Read
    BY <1>3 DEF Step, Shared, AddToSet
  <2>2. LoneInv'
    BY <2>1, ReadNew, ReadFills, ReadUnprobes, ReadRounds, ReadVisits, ReadDrops DEF Read
  <2>3. \A u \in Threads \ {"read"} : pc'[u] = pc[u]
    BY <1>0, <2>1
       DEF NewPeer, FillProbe, Compare, RemoveProbe, Reply, NextRelease, NextEntry,
           NextEnd, Read, Select, StartRound, ReadNothing, ReadHeader, ReadHangUp, ReadForget,
           ReadEvent, ReadRemove, Goto, GoOn, Done, TypeInv, TypeOK
  <2>4. ASSUME pc["read"] = "acq", pc'["read"] \in {"idle", "r_del"}
        PROVE  due["read"] = {}
    <3>1. NextEntry("read") \/ NextEnd("read")
      BY <2>1, <2>4
         DEF NewPeer, FillProbe, Compare, RemoveProbe, Reply, NextRelease, Read, Select,
             ReadNothing, ReadHeader, ReadHangUp, ReadForget, ReadEvent, ReadRemove, At
    <3>2. pc'["read"] # "visit"
      BY <2>4
    <3>3. ~HasNext(tbl)
      BY <1>0, <3>1, <3>2 DEF NextEntry, NextEnd, Goto, TypeInv, TypeOK
    <3>4. Settled = tbl.count /\ tbl.count \in Nat /\ tbl.iter \in Nat
      BY <2>4, PairFacts DEF Probes
    <3>5. \A j \in Slots : j \in Nat
      BY DEF Slots
    <3>6. QED
      BY <3>3, <3>4, <3>5 DEF HasNext, LoneInv, Ahead
  <2>5. QED
    BY <2>2, <2>3, <2>4 DEF RoundEndsComplete
<1>4. QED
  BY <1>1, <1>2, <1>3

\* The empty table.
LEMMA LoneStart == Init => LoneInv
<1> SUFFICES ASSUME Init
             PROVE  LoneInv
  OBVIOUS
<1> USE DEF Init, Probes, Works
<1>1. /\ "try" \in Threads /\ "read" \in Threads /\ Settled = 0
      /\ pc["read"] = "idle" /\ pc["try"] = "idle" /\ due["read"] = {}
  BY DEF Threads, Settled, NewTable
<1>2. Pair
  BY <1>1 DEF Pair, NoPtr, NewTable
<1>3. Distinct(tbl, Settled)
  BY <1>1 DEF Distinct, Slots
<1>4. StoredOnce
  BY <1>1, FdsAssumption DEF StoredOnce, Unused, NewTable, Blank, NOSOCK
<1>5. OwnEntry /\ Ahead
  BY <1>1 DEF OwnEntry, Ahead, NewTable
<1>6. QED
  BY <1>2, <1>3, <1>4, <1>5 DEF LoneInv

(***************************************************************************)
(* While the reading thread is the only one that walks, each of its rounds  *)
(* visits every peer that stays in the table, whatever the connecting       *)
(* thread adds, probes for and removes between two calls of peer_next and   *)
(* wherever its pointer strays.                                             *)
(***************************************************************************)
THEOREM LoneRounds == TeamSpec => LoneRoundComplete
<1> USE DEF TeamInv
<1>1. TeamInit => TeamInv
  BY InitTypes, LoneStart DEF TeamInit
<1>2. TeamInv /\ [TeamNext]_TeamVars => TeamInv'
  <2> SUFFICES ASSUME TeamInv, [TeamNext]_TeamVars
               PROVE  TeamInv'
    OBVIOUS
  <2>1. [Next]_vars /\ team' = team
    BY DEF TeamNext, TeamStep, TeamVars, Next
  <2>2. TypeInv'
    BY <2>1, StepTypes
  <2>3. ASSUME "main" \notin team
        PROVE  LoneInv'
    <3>1. team = {"try", "read"}
      BY <2>3 DEF Teams
    <3>2. CASE TeamNext
      BY <2>3, <3>1, <3>2, LoneStep DEF TeamNext, TeamStep
    <3>3. CASE UNCHANGED TeamVars
      BY <2>3, <3>3 DEF TeamVars, vars, LoneInv, Pair, Points, Settled, Distinct,
                        StoredOnce, OwnEntry, Ahead
    <3>4. QED
      BY <3>2, <3>3
  <2>4. QED
    BY <2>1, <2>2, <2>3
<1>3. TeamInv /\ [TeamNext]_TeamVars => ["main" \notin team => RoundEndsComplete]_TeamVars
  <2> SUFFICES ASSUME TeamInv, TeamNext, "main" \notin team
               PROVE  RoundEndsComplete
    OBVIOUS
  <2>1. team = {"try", "read"}
    BY DEF Teams
  <2>2. QED
    BY <2>1, LoneStep DEF TeamNext, TeamStep
<1>4. QED
  BY <1>1, <1>2, <1>3, PTL DEF TeamSpec, LoneRoundComplete
=============================================================================

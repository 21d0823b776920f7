---------------------------- MODULE Peers_proofs ----------------------------
(***************************************************************************)
(* What holds of the peers of a core.                                       *)
(*                                                                          *)
(* First the peer table in the hands of one caller, for every set of        *)
(* addresses and every size of the array: the table stays a table whose     *)
(* entries can be told apart, a lookup returns what is registered, and the  *)
(* table implements the registry of PeerRegistry.                           *)
(*                                                                          *)
(* Then the connections of two cores, for every bound on how many are made  *)
(* and how often a core goes away: each core has one entry for the other    *)
(* one, its sockets are in the sets that select is given, and each core     *)
(* receives from the connection that the other one sends on.                *)
(***************************************************************************)
EXTENDS PeerTableSeq, Connections, FiniteSetTheorems, WellFoundedInduction, TLAPS

\* The iterator and the count of a table are within the array.
InBounds(tb) == tb.iter <= tb.count /\ tb.count <= tb.size

-----------------------------------------------------------------------------
\* Facts about the operators of PeerTable

\* A nonempty set of natural numbers has a least element.
LEMMA LeastExists ==
  ASSUME NEW S \in SUBSET Nat, S # {}
  PROVE  \E m \in S : \A n \in S : m <= n
<1>1. PICK m \in S : \A n \in S : <<n, m>> \notin OpToRel(<, Nat)
  BY NatLessThanWellFounded, WFMin
<1>2. ASSUME NEW n \in S
      PROVE  m <= n
  <2>1. OpToRel(<, Nat) = {ss \in Nat \X Nat : ss[1] < ss[2]}
    BY DEF OpToRel
  <2>2. n < m => <<n, m>> \in {ss \in Nat \X Nat : ss[1] < ss[2]}
    OBVIOUS
  <2>3. ~(n < m) => m <= n
    OBVIOUS
  <2>4. QED
    BY <1>1, <2>1, <2>2, <2>3
<1>3. QED
  BY <1>2

\* The first slot of a nonempty set of slots is one of them.
LEMMA FirstInSet ==
  ASSUME NEW S \in SUBSET Nat, S # {}
  PROVE  First(S) \in S /\ \A n \in S : First(S) <= n
BY LeastExists DEF First

\* There is one more key than there are slots.
LEMMA FreshKeyExists ==
  ASSUME NEW tb \in Tables
  PROVE  FreshKey(tb) \in Keys \ {0} /\ FreshKey(tb) \notin UsedKeys(tb)
<1> DEFINE All == 1..(MaxSize + 1)
<1>1. MaxSize \in Nat \ {0}
  BY SizeAssumption
<1>2. \E k \in All : k \notin UsedKeys(tb)
  <2> SUFFICES ASSUME \A k \in All : k \in UsedKeys(tb)
               PROVE  FALSE
    OBVIOUS
  <2> DEFINE g == [k \in All |-> CHOOSE i \in Slots : tb.mem[i].key = k]
  <2>1. \A k \in All : g[k] \in Slots /\ tb.mem[g[k]].key = k
    BY DEF UsedKeys
  <2>2. g \in [All -> Slots]
    BY <2>1
  <2>3. IsFiniteSet(All) /\ Cardinality(All) = MaxSize + 1
    BY <1>1, FS_Interval
  <2>4. IsFiniteSet(Slots) /\ Cardinality(Slots) = MaxSize
    BY <1>1, FS_Interval DEF Slots
  <2>5. Cardinality(Slots) < Cardinality(All)
    BY <1>1, <2>3, <2>4
  <2> HIDE DEF g, All
  <2>6. PICK x, y \in All : x # y /\ g[x] = g[y]
    BY <2>2, <2>3, <2>4, <2>5, FS_PigeonHole
  <2>7. QED
    BY <2>1, <2>6
<1>3. All \subseteq Keys \ {0}
  BY <1>1 DEF Keys
<1>4. QED
  BY <1>2, <1>3 DEF FreshKey

\* peer_new
LEMMA PeerNewTable ==
  ASSUME NEW tb \in Tables, InBounds(tb), CanGrow(tb), NEW moved \in BOOLEAN
  PROVE  /\ PeerNew(tb, moved) \in Tables
         /\ InBounds(PeerNew(tb, moved))
         /\ tb.count \in Slots
<1>1. MaxSize \in Nat \ {0}
  BY SizeAssumption
<1>2. /\ tb.count \in 0..MaxSize /\ tb.size \in 1..MaxSize
      /\ tb.iter \in 0..MaxSize /\ tb.gen \in Nat
      /\ tb.mem \in [Slots -> Entry]
  BY DEF Tables
<1>3. tb.count < MaxSize
  BY <1>1, <1>2 DEF InBounds, CanGrow, Full
<1>4. tb.count \in Slots
  BY <1>1, <1>2, <1>3 DEF Slots
<1>5. PeerInit(tb.mem[tb.count], FreshKey(tb)) \in Entry
  BY ZenonT(40), <1>2, <1>4, FreshKeyExists DEF PeerInit, Entry, Socks
<1>6. [tb.mem EXCEPT ![tb.count] = PeerInit(@, FreshKey(tb))] \in [Slots -> Entry]
  BY <1>2, <1>5
<1>7. (IF Full(tb) THEN 2 * tb.size ELSE tb.size) \in 1..MaxSize
  BY <1>1, <1>2 DEF CanGrow, Full
<1>8. (IF Full(tb) /\ moved THEN tb.gen + 1 ELSE tb.gen) \in Nat
  BY <1>2
<1>9. tb.count + 1 \in 0..MaxSize
  BY <1>1, <1>2, <1>3
<1>10. PeerNew(tb, moved) \in Tables
  BY <1>2, <1>6, <1>7, <1>8, <1>9 DEF PeerNew, Tables
<1>11. InBounds(PeerNew(tb, moved))
  BY <1>1, <1>2 DEF PeerNew, InBounds, Full
<1>12. QED
  BY <1>4, <1>10, <1>11

\* peer_free
LEMMA PeerFreeTable ==
  ASSUME NEW tb \in Tables, NEW i \in Slots
  PROVE  /\ PeerFree(tb, i) \in Tables
         /\ InBounds(PeerFree(tb, i)) <=> InBounds(tb)
<1>1. 0 \in Keys
  BY SizeAssumption DEF Keys
<1>2. QED
  BY <1>1 DEF PeerFree, Tables, Entry, InBounds

\* The compaction of peer_remove, as long as memmove stays in the array.
LEMMA RemoveAtTable ==
  ASSUME NEW tb \in Tables, InBounds(tb), NEW i \in Live(tb),
         i + 1 < tb.count => tb.count + 1 < tb.size
  PROVE  RemoveAt(tb, i) \in Tables /\ InBounds(RemoveAt(tb, i))
<1>1. MaxSize \in Nat \ {0}
  BY SizeAssumption
<1>2. /\ tb.count \in 0..MaxSize /\ tb.size \in 1..MaxSize
      /\ tb.iter \in 0..MaxSize /\ tb.gen \in Nat
      /\ tb.mem \in [Slots -> Entry]
  BY DEF Tables
<1>3. tb.count > 0 /\ i \in Slots
  BY <1>1, <1>2 DEF Live, InBounds, Slots
<1> DEFINE mm == IF i + 1 < tb.count
                 THEN [j \in Slots |-> IF i <= j /\ j <= tb.count
                                       THEN tb.mem[j + 1] ELSE tb.mem[j]]
                 ELSE PeerFree(tb, i).mem
           it == IF tb.iter = tb.count THEN tb.iter - 1 ELSE tb.iter
<1>4. mm \in [Slots -> Entry]
  <2>1. CASE i + 1 < tb.count
    <3>1. ASSUME NEW j \in Slots, j <= tb.count
          PROVE  j + 1 \in Slots
      BY <1>1, <1>2, <2>1, <3>1 DEF Slots
    <3>2. QED
      BY <1>2, <2>1, <3>1
  <2>2. CASE ~(i + 1 < tb.count)
    BY <1>3, <2>2, PeerFreeTable DEF Tables
  <2>3. QED
    BY <2>1, <2>2
<1>5. it \in 0..MaxSize /\ it <= tb.count - 1 /\ tb.count - 1 <= tb.size
  BY <1>1, <1>2, <1>3 DEF InBounds
<1>6. tb.count - 1 \in 0..MaxSize
  BY <1>1, <1>2, <1>3
<1>7. RemoveAt(tb, i) = [tb EXCEPT !.mem = mm, !.iter = it, !.count = tb.count - 1]
  BY DEF RemoveAt
<1> HIDE DEF mm, it
<1>8. QED
  BY <1>2, <1>4, <1>5, <1>6, <1>7 DEF Tables, InBounds

\* peer_exists
LEMMA PeerExistsPtr ==
  ASSUME NEW tb \in Tables, NEW i \in Slots
  PROVE  PeerExists(tb, i) \in Ptrs
<1>1. CASE Others(tb, i) = {}
  BY <1>1 DEF PeerExists, Ptrs
<1>2. CASE Others(tb, i) # {}
  <2>1. MaxSize \in Nat /\ tb.count \in 0..MaxSize /\ tb.gen \in Nat
    BY SizeAssumption DEF Tables
  <2>2. Others(tb, i) \in SUBSET Nat /\ Others(tb, i) \subseteq Slots
    BY <2>1 DEF Others, Live, Slots
  <2>3. First(Others(tb, i)) \in Slots
    BY <1>2, <2>2, FirstInSet
  <2>4. QED
    BY <1>2, <2>1, <2>3 DEF PeerExists, Ptrs, Ptr
<1>3. QED
  BY <1>1, <1>2

-----------------------------------------------------------------------------
\* The inductive invariant

\* peer_new stays in the array because count and iterator are in bounds.
Bounded == InBounds(tbl)

\* The callers store the port of every entry they keep, so that the comparison
\* with a probe is one of addresses.
Filled == \A i \in Live(tbl) : tbl.mem[i].port = 1

\* The iterator is at the start outside of a round.
AtRest == phase # "round" => tbl.iter = 0

\* The p of the loop designates an entry; no lookup comes between.
CurLive == cur # NoPtr => phase = "round" /\ Valid(tbl, cur)
                          /\ cur.slot \in Live(tbl)

\* What delptrs holds was marked, and designates the entry it was taken from
\* as long as the array has not moved.
DelMarked ==
  /\ phase = "idle" => del = NoPtr
  /\ del # NoPtr => /\ del.gen <= tbl.gen
                    /\ Valid(tbl, del) => /\ del.slot \in Live(tbl)
                                          /\ tbl.mem[del.slot].key \in marked

SeqInv == /\ TypeOK /\ Bounded /\ UniqueIdentity /\ Filled
          /\ AtRest /\ CurLive /\ DelMarked

-----------------------------------------------------------------------------
\* Facts about what one caller does with a table

\* The types of the parts of a table whose count is in bounds.
LEMMA TableParts ==
  ASSUME NEW tb \in Tables
  PROVE  /\ MaxSize \in Nat \ {0}
         /\ tb.count \in 0..MaxSize /\ tb.size \in 1..MaxSize
         /\ tb.iter \in 0..MaxSize /\ tb.gen \in Nat
         /\ tb.mem \in [Slots -> Entry]
         /\ Live(tb) \subseteq Slots
BY SizeAssumption DEF Tables, Live, Slots

\* peer_new and the caller's writes: a new identity behind the old entries.
LEMMA FilledNew ==
  ASSUME NEW tb \in Tables, InBounds(tb), CanGrow(tb), NEW moved \in BOOLEAN,
         NEW a \in Addrs, NEW nw, nw = Fill(PeerNew(tb, moved), tb.count, a)
  PROVE  /\ nw \in Tables /\ InBounds(nw) /\ tb.count \in Slots
         /\ nw.count = tb.count + 1 /\ nw.iter = tb.iter /\ tb.gen <= nw.gen
         /\ nw.mem[tb.count].addr = a /\ nw.mem[tb.count].port = 1
         /\ nw.mem[tb.count].key \in Keys \ UsedKeys(tb)
         /\ \A j \in Slots : j # tb.count => nw.mem[j] = tb.mem[j]
<1> DEFINE pn == PeerNew(tb, moved)
<1>1. pn \in Tables /\ InBounds(pn) /\ tb.count \in Slots
  BY PeerNewTable
<1>2. /\ pn.count = tb.count + 1 /\ pn.iter = tb.iter /\ tb.gen <= pn.gen
      /\ pn.mem = [tb.mem EXCEPT ![tb.count] = PeerInit(@, FreshKey(tb))]
  BY TableParts DEF PeerNew
<1>3. /\ pn.mem \in [Slots -> Entry]
      /\ pn.mem[tb.count].key = FreshKey(tb)
      /\ \A j \in Slots : j # tb.count => pn.mem[j] = tb.mem[j]
  <2>1. tb.mem \in [Slots -> Entry] /\ tb.mem[tb.count] \in Entry
    BY <1>1, TableParts
  <2>2. pn.mem[tb.count] = PeerInit(tb.mem[tb.count], FreshKey(tb))
    BY <1>1, <1>2, <2>1
  <2>3. pn.mem[tb.count].key = FreshKey(tb)
    BY <2>1, <2>2 DEF PeerInit, Entry
  <2>4. \A j \in Slots : j # tb.count => pn.mem[j] = tb.mem[j]
    BY <1>1, <1>2, <2>1
  <2>5. QED
    BY <1>1, <2>3, <2>4 DEF Tables
<1> DEFINE e == [pn.mem[tb.count] EXCEPT !.addr = a, !.port = 1]
<1>4. /\ e \in Entry /\ e.addr = a /\ e.port = 1 /\ e.key = FreshKey(tb)
  BY <1>1, <1>3 DEF Entry
<1>5. nw = [pn EXCEPT !.mem = [pn.mem EXCEPT ![tb.count] = e]]
  BY <1>1, <1>3 DEF Fill, Tables, Entry
<1> HIDE DEF pn, e
<1>6. nw.mem = [pn.mem EXCEPT ![tb.count] = e] /\ nw.mem \in [Slots -> Entry]
  BY <1>1, <1>3, <1>4, <1>5 DEF Tables
<1>7. nw \in Tables /\ InBounds(nw)
  BY <1>1, <1>5, <1>6 DEF Tables, InBounds
<1>8. nw.count = pn.count /\ nw.iter = pn.iter /\ nw.gen = pn.gen
  BY <1>1, <1>5 DEF Tables
<1>9. nw.mem[tb.count] = e /\ \A j \in Slots : j # tb.count => nw.mem[j] = tb.mem[j]
  BY <1>1, <1>3, <1>6
<1>10. QED
  BY <1>1, <1>2, <1>4, <1>7, <1>8, <1>9, FreshKeyExists

\* A table whose entries can be told apart has one that equals entry i.
UniqueKeys(tb) == \A i, j \in Live(tb) : tb.mem[i].key = tb.mem[j].key => i = j

\* So peer_remove, which compares whole entries, finds the one it is given.
LEMMA RemoveOnly ==
  ASSUME NEW tb \in Tables, NEW i \in Live(tb),
         \A j \in Live(tb) : tb.mem[j].key = tb.mem[i].key => j = i
  PROVE  /\ PeerRemove(tb, tb.mem[i]) = RemoveAt(tb, i)
         /\ RemoveOverruns(tb, tb.mem[i]) <=> i + 1 < tb.count
                                             /\ tb.count + 1 >= tb.size
<1>1. Equal(tb, tb.mem[i]) = {i}
  BY DEF Equal
<1>2. i \in Nat
  BY TableParts DEF Live
<1>3. First({i}) = i
  BY <1>2, FirstInSet
<1>4. QED
  BY <1>1, <1>3 DEF PeerRemove, RemoveOverruns

\* peer_exists_simple: removing the probe leaves the entries as they were.
LEMMA ProbeRemoved ==
  ASSUME NEW tb \in Tables, InBounds(tb), CanGrow(tb), NEW moved \in BOOLEAN,
         NEW a \in Addrs, NEW nw, nw = Fill(PeerNew(tb, moved), tb.count, a),
         NEW pr, pr = PeerRemove(nw, nw.mem[tb.count])
  PROVE  /\ pr \in Tables /\ InBounds(pr)
         /\ pr.count = tb.count /\ pr.iter = tb.iter /\ pr.gen = nw.gen
         /\ \A j \in Live(tb) : pr.mem[j] = tb.mem[j]
<1>1. /\ nw \in Tables /\ InBounds(nw) /\ tb.count \in Slots
      /\ nw.count = tb.count + 1 /\ nw.iter = tb.iter
      /\ nw.mem[tb.count].key \in Keys \ UsedKeys(tb)
      /\ \A j \in Slots : j # tb.count => nw.mem[j] = tb.mem[j]
  BY FilledNew
<1>2. tb.count \in Nat /\ Live(nw) = 0..tb.count /\ tb.count \in Live(nw)
  BY <1>1, TableParts DEF Live
<1>3. \A j \in Live(nw) : nw.mem[j].key = nw.mem[tb.count].key => j = tb.count
  BY <1>1, TableParts DEF UsedKeys
<1>4. pr = RemoveAt(nw, tb.count)
  BY <1>1, <1>2, <1>3, RemoveOnly
<1>5. pr \in Tables /\ InBounds(pr)
  BY <1>1, <1>2, <1>4, RemoveAtTable
<1>6. pr = [nw EXCEPT !.mem = [nw.mem EXCEPT ![tb.count].key = 0],
                      !.iter = tb.iter, !.count = tb.count]
  <2>1. ~(tb.count + 1 < nw.count) /\ nw.iter # nw.count /\ nw.count - 1 = tb.count
    BY <1>1, <1>2, TableParts DEF InBounds
  <2>2. QED
    BY <1>1, <1>4, <2>1 DEF RemoveAt, PeerFree, Tables
<1>7. QED
  <2>1. \A j \in Live(tb) : j \in Slots /\ j # tb.count
    BY TableParts DEF Live
  <2>2. pr.count = tb.count /\ pr.iter = tb.iter /\ pr.gen = nw.gen
    BY <1>1, <1>6 DEF Tables
  <2>3. \A j \in Slots : j # tb.count => pr.mem[j] = nw.mem[j]
    BY <1>1, <1>6 DEF Tables
  <2>4. QED
    BY <1>1, <1>5, <2>1, <2>2, <2>3

\* peer_remove of entry i: the others move down and keep their order.
LEMMA Compacted ==
  ASSUME NEW tb \in Tables, InBounds(tb), UniqueKeys(tb), NEW i \in Live(tb),
         ~RemoveOverruns(tb, tb.mem[i]),
         NEW nw, nw = PeerRemove(tb, tb.mem[i])
  PROVE  /\ nw \in Tables /\ InBounds(nw)
         /\ nw.count = tb.count - 1 /\ nw.gen = tb.gen
         /\ tb.iter = 0 => nw.iter = 0
         /\ \A j \in Live(nw) : /\ nw.mem[j] = tb.mem[IF j < i THEN j ELSE j + 1]
                                /\ (IF j < i THEN j ELSE j + 1) \in Live(tb)
         /\ \A j \in Live(tb) : j # i => (IF j < i THEN j ELSE j - 1) \in Live(nw)
<1>1. /\ nw = RemoveAt(tb, i)
      /\ i + 1 < tb.count => tb.count + 1 < tb.size
  <2>1. tb.count \in Nat /\ tb.size \in Nat
    BY TableParts
  <2>2. QED
    BY <2>1, RemoveOnly DEF UniqueKeys
<1>2. nw \in Tables /\ InBounds(nw)
  BY <1>1, RemoveAtTable
<1>3. /\ nw.count = tb.count - 1 /\ nw.gen = tb.gen
      /\ nw.iter = IF tb.iter = tb.count THEN tb.iter - 1 ELSE tb.iter
      /\ nw.mem = IF i + 1 < tb.count
                  THEN [j \in Slots |-> IF i <= j /\ j <= tb.count
                                        THEN tb.mem[j + 1] ELSE tb.mem[j]]
                  ELSE PeerFree(tb, i).mem
  BY <1>1 DEF RemoveAt, Tables
<1>4. i \in Slots /\ i < tb.count /\ tb.count \in Nat /\ i \in Nat
  BY TableParts DEF Live
<1>5. tb.iter = 0 => nw.iter = 0
  BY <1>3, <1>4
<1>6. ASSUME NEW j \in Live(nw)
      PROVE  /\ nw.mem[j] = tb.mem[IF j < i THEN j ELSE j + 1]
             /\ (IF j < i THEN j ELSE j + 1) \in Live(tb)
  <2>1. j \in Nat /\ j + 1 < tb.count /\ j \in Slots
    BY <1>3, <1>4, TableParts DEF Live, Slots
  <2>2. CASE i + 1 < tb.count
    BY <1>3, <1>4, <2>1, <2>2 DEF Live
  <2>3. CASE ~(i + 1 < tb.count)
    <3>1. j < i /\ j # i
      BY <1>4, <2>1, <2>3
    <3>2. PeerFree(tb, i).mem[j] = tb.mem[j]
      BY <1>4, <2>1, <3>1, TableParts DEF PeerFree, Tables
    <3>3. QED
      BY <1>3, <1>4, <2>1, <2>3, <3>1, <3>2 DEF Live
  <2>4. QED
    BY <2>2, <2>3
<1>7. \A j \in Live(tb) : j # i => (IF j < i THEN j ELSE j - 1) \in Live(nw)
  BY <1>3, <1>4 DEF Live
<1>8. QED
  BY <1>2, <1>3, <1>5, <1>6, <1>7

\* So exactly one identity has gone.
Identities(tb) == {tb.mem[i].key : i \in Live(tb)}

\* Removing an entry drops its identity and no other.
LEMMA OneDropped ==
  ASSUME NEW tb \in Tables, InBounds(tb), UniqueKeys(tb), NEW i \in Live(tb),
         ~RemoveOverruns(tb, tb.mem[i]),
         NEW nw, nw = PeerRemove(tb, tb.mem[i])
  PROVE  /\ UniqueKeys(nw)
         /\ Identities(nw) = Identities(tb) \ {tb.mem[i].key}
<1> DEFINE old(j) == IF j < i THEN j ELSE j + 1
           new(j) == IF j < i THEN j ELSE j - 1
<1>1. /\ nw.count = tb.count - 1 /\ tb.count \in Nat /\ i \in Nat
      /\ Live(nw) \subseteq Nat /\ Live(tb) \subseteq Nat
  BY Compacted, TableParts DEF Live
<1>2. /\ \A j \in Live(nw) : nw.mem[j] = tb.mem[old(j)] /\ old(j) \in Live(tb)
      /\ \A j \in Live(tb) : j # i => new(j) \in Live(nw)
  BY Compacted
<1>3. /\ \A j, k \in Live(nw) : old(j) = old(k) => j = k
      /\ \A j \in Live(nw) : old(j) # i
      /\ \A j \in Live(tb) : j # i => old(new(j)) = j
  BY <1>1
<1> HIDE DEF old, new
<1>4. UniqueKeys(nw)
  BY <1>2, <1>3 DEF UniqueKeys
<1>5. ASSUME NEW k \in Identities(nw)
      PROVE  k \in Identities(tb) \ {tb.mem[i].key}
  BY <1>2, <1>3 DEF Identities, UniqueKeys
<1>6. ASSUME NEW k \in Identities(tb), k # tb.mem[i].key
      PROVE  k \in Identities(nw)
  <2>1. PICK j \in Live(tb) : k = tb.mem[j].key
    BY DEF Identities
  <2>2. j # i
    BY <1>6, <2>1
  <2>3. new(j) \in Live(nw) /\ nw.mem[new(j)] = tb.mem[j]
    BY <1>2, <1>3, <2>1, <2>2
  <2>4. QED
    BY <2>1, <2>3 DEF Identities
<1>7. QED
  BY <1>4, <1>5, <1>6

-----------------------------------------------------------------------------
\* What the actions that change the table do to it

\* A new peer comes behind the others, with an identity of its own.
LEMMA RegisterTable ==
  ASSUME SeqInv, NEW a \in Addrs, Register(a)
  PROVE  /\ tbl' \in Tables /\ InBounds(tbl') /\ UniqueKeys(tbl')
         /\ tbl'.count = tbl.count + 1 /\ tbl'.iter = tbl.iter
         /\ tbl.gen <= tbl'.gen
         /\ \A j \in Live(tbl) : tbl'.mem[j] = tbl.mem[j]
         /\ tbl'.mem[tbl.count].key \in Keys \ Identities(tbl)
         /\ tbl'.mem[tbl.count].port = 1
<1>1. tbl \in Tables /\ InBounds(tbl) /\ CanGrow(tbl) /\ UniqueKeys(tbl)
  BY DEF SeqInv, TypeOK, Bounded, Register, UniqueIdentity, UniqueKeys
<1>2. PICK moved \in BOOLEAN : tbl' = Fill(PeerNew(tbl, moved), tbl.count, a)
  BY DEF Register
<1>3. /\ tbl' \in Tables /\ InBounds(tbl') /\ tbl.count \in Slots
      /\ tbl'.count = tbl.count + 1 /\ tbl'.iter = tbl.iter
      /\ tbl.gen <= tbl'.gen
      /\ tbl'.mem[tbl.count].port = 1
      /\ tbl'.mem[tbl.count].key \in Keys \ UsedKeys(tbl)
      /\ \A j \in Slots : j # tbl.count => tbl'.mem[j] = tbl.mem[j]
  BY <1>1, <1>2, FilledNew
<1>4. /\ tbl.count \in Nat /\ Live(tbl) \subseteq Slots
      /\ \A j \in Live(tbl) : j # tbl.count
      /\ Live(tbl') = Live(tbl) \cup {tbl.count}
  BY <1>1, <1>3, TableParts DEF Live
<1>5. \A j \in Live(tbl) : tbl'.mem[j] = tbl.mem[j]
  BY <1>3, <1>4
<1>6. Identities(tbl) \subseteq UsedKeys(tbl)
  BY <1>4 DEF Identities, UsedKeys
<1>7. \A j \in Live(tbl) : tbl'.mem[j].key # tbl'.mem[tbl.count].key
  BY <1>3, <1>5, <1>6 DEF Identities
<1>8. UniqueKeys(tbl')
  BY <1>1, <1>4, <1>5, <1>7 DEF UniqueKeys
<1>9. QED
  BY <1>3, <1>5, <1>6, <1>8

\* A lookup leaves every entry where it was, though the array may have moved.
LEMMA LookupTable ==
  ASSUME SeqInv, NEW a \in Addrs, Lookup(a)
  PROVE  /\ tbl' \in Tables /\ InBounds(tbl') /\ UniqueKeys(tbl')
         /\ tbl'.count = tbl.count /\ tbl'.iter = tbl.iter
         /\ tbl.gen <= tbl'.gen
         /\ \A j \in Live(tbl) : tbl'.mem[j] = tbl.mem[j]
<1>1. tbl \in Tables /\ InBounds(tbl) /\ CanGrow(tbl) /\ UniqueKeys(tbl)
  BY DEF SeqInv, TypeOK, Bounded, Lookup, UniqueIdentity, UniqueKeys
<1>2. PICK moved \in BOOLEAN :
        LET probed == Fill(PeerNew(tbl, moved), tbl.count, a)
        IN  tbl' = PeerRemove(probed, probed.mem[tbl.count])
  BY DEF Lookup
<1> DEFINE probed == Fill(PeerNew(tbl, moved), tbl.count, a)
<1>3. tbl.gen <= probed.gen
  BY <1>1, FilledNew
<1>4. tbl' = PeerRemove(probed, probed.mem[tbl.count])
  BY <1>2
<1> HIDE DEF probed
<1>5. /\ tbl' \in Tables /\ InBounds(tbl')
      /\ tbl'.count = tbl.count /\ tbl'.iter = tbl.iter /\ tbl'.gen = probed.gen
      /\ \A j \in Live(tbl) : tbl'.mem[j] = tbl.mem[j]
  BY <1>1, <1>4, ProbeRemoved DEF probed
<1>6. UniqueKeys(tbl')
  BY <1>1, <1>5 DEF UniqueKeys, Live
<1>7. QED
  BY <1>3, <1>5, <1>6

\* The peer that delptrs designates is removed, and it was marked.
LEMMA RemoveTable ==
  ASSUME SeqInv, RemoveDead, tbl' # tbl
  PROVE  /\ Valid(tbl, del) /\ del.slot \in Live(tbl)
         /\ tbl.mem[del.slot].key \in marked
         /\ ~RemoveOverruns(tbl, tbl.mem[del.slot])
         /\ tbl' = PeerRemove(tbl, tbl.mem[del.slot])
BY DEF SeqInv, RemoveDead, DelMarked, Valid

-----------------------------------------------------------------------------
\* Each action preserves the invariant.

\* The empty table.
LEMMA SeqInit ==
  ASSUME Init
  PROVE  SeqInv
<1>1. /\ MaxSize \in Nat \ {0} /\ InitSize \in Nat \ {0} /\ InitSize <= MaxSize
      /\ 0 \in Keys
  BY SizeAssumption DEF Keys
<1>2. Blank \in Entry
  BY <1>1 DEF Blank, Entry, Socks
<1>3. tbl \in Tables /\ tbl.count = 0 /\ tbl.iter = 0 /\ tbl.size = InitSize
  BY <1>1, <1>2 DEF Init, NewTable, Tables
<1>4. Live(tbl) = {}
  BY <1>3 DEF Live
<1>5. TypeOK
  BY <1>3 DEF Init, TypeOK, Ptrs, NoLookup
<1>6. QED
  BY <1>1, <1>3, <1>4, <1>5
     DEF Init, SeqInv, Bounded, InBounds, UniqueIdentity, Filled, AtRest,
         CurLive, DelMarked

\* A peer that connects gets an identity and a port.
LEMMA RegisterInv ==
  ASSUME SeqInv, NEW a \in Addrs, Register(a)
  PROVE  SeqInv'
<1>1. TypeOK'
  BY RegisterTable DEF SeqInv, TypeOK, Register, NoLookup, Ptrs
<1>2. Bounded' /\ UniqueIdentity' /\ AtRest'
  BY RegisterTable
     DEF SeqInv, Bounded, UniqueIdentity, UniqueKeys, AtRest, Register
<1>3. Filled'
  <2>1. Live(tbl)' = Live(tbl) \cup {tbl.count}
    BY RegisterTable, TableParts DEF SeqInv, TypeOK, Live
  <2>2. QED
    BY <2>1, RegisterTable DEF SeqInv, Filled
<1>4. phase = "idle" /\ cur = NoPtr /\ del = NoPtr
  BY DEF SeqInv, CurLive, DelMarked, Register
<1>5. CurLive' /\ DelMarked'
  BY <1>4 DEF CurLive, DelMarked, Register
<1>6. QED
  BY <1>1, <1>2, <1>3, <1>5 DEF SeqInv

\* A lookup leaves the table as it was, or in a larger array.
LEMMA LookupInv ==
  ASSUME SeqInv, NEW a \in Addrs, Lookup(a)
  PROVE  SeqInv'
<1>1. TypeOK'
  <2>1. PICK moved \in BOOLEAN :
          found' = [addr |-> a,
                    ptr |-> PeerExists(Fill(PeerNew(tbl, moved), tbl.count, a),
                                       tbl.count)]
    BY DEF Lookup
  <2>2. /\ Fill(PeerNew(tbl, moved), tbl.count, a) \in Tables
        /\ tbl.count \in Slots
    BY FilledNew DEF SeqInv, TypeOK, Bounded, Lookup
  <2>3. found' \in [addr : Addrs \cup {NoAddr}, ptr : Ptrs]
    BY <2>1, <2>2, PeerExistsPtr
  <2>4. QED
    BY <2>3, LookupTable DEF SeqInv, TypeOK, Lookup, Ptrs
<1>2. Bounded' /\ UniqueIdentity' /\ AtRest'
  BY LookupTable
     DEF SeqInv, Bounded, UniqueIdentity, UniqueKeys, AtRest, Lookup
<1>3. Filled'
  BY LookupTable DEF SeqInv, Filled, Live
<1>4. CurLive'
  BY DEF CurLive, Lookup
<1>5. DelMarked'
  <2>1. del' = del /\ marked' = marked /\ phase' = phase
    BY DEF Lookup
  <2>2. tbl.gen \in Int /\ tbl'.gen \in Int /\ (del # NoPtr => del.gen \in Int)
    BY LookupTable, TableParts DEF SeqInv, TypeOK, Ptrs
  <2>3. Live(tbl)' = Live(tbl) /\ \A j \in Live(tbl) : tbl'.mem[j] = tbl.mem[j]
    BY LookupTable DEF Live
  <2>4. QED
    BY <2>1, <2>2, <2>3, LookupTable DEF SeqInv, DelMarked, Valid
<1>6. QED
  BY <1>1, <1>2, <1>3, <1>4, <1>5 DEF SeqInv

\* The steps of a round move the iterator at most.
LEMMA RoundInv ==
  ASSUME SeqInv, StartRound \/ NextPeer \/ HangUp \/ EndRound
  PROVE  SeqInv'
<1>1. tbl \in Tables /\ InBounds(tbl)
  BY DEF SeqInv, TypeOK, Bounded
<1>2. tbl.count \in 0..MaxSize /\ tbl.iter \in 0..MaxSize /\ tbl.gen \in Nat
      /\ MaxSize \in Nat \ {0} /\ Live(tbl) \subseteq Slots
  BY <1>1, TableParts
<1>3. CASE StartRound
  BY <1>3 DEF StartRound, SeqInv, TypeOK, NoLookup, Ptrs, Bounded,
              UniqueIdentity, Filled, AtRest, CurLive, DelMarked
<1>4. CASE NextPeer
  <2>1. /\ tbl' = [tbl EXCEPT !.iter = tbl.iter + 1] /\ tbl.iter < tbl.count
        /\ cur' = [gen |-> tbl.gen, slot |-> tbl.iter]
        /\ phase = "round" /\ phase' = phase
        /\ UNCHANGED <<del, marked, status>> /\ found' = NoLookup
    BY <1>4 DEF NextPeer, HasNext, Advance, Ptr
  <2>2. tbl' \in Tables /\ InBounds(tbl') /\ tbl.iter \in Live(tbl)
    BY <1>1, <1>2, <2>1 DEF Tables, InBounds, Live
  <2>3. tbl'.mem = tbl.mem /\ tbl'.count = tbl.count /\ tbl'.gen = tbl.gen
    BY <1>1, <2>1 DEF Tables
  <2>4. TypeOK'
    BY <1>2, <2>1, <2>2 DEF SeqInv, TypeOK, NoLookup, Ptrs
  <2>5. Bounded' /\ UniqueIdentity' /\ Filled' /\ AtRest'
    BY <2>1, <2>2, <2>3
       DEF SeqInv, Bounded, UniqueIdentity, Filled, AtRest, Live
  <2>6. CurLive'
    BY <1>2, <2>1, <2>2, <2>3 DEF CurLive, Valid, NoPtr, Live
  <2>7. DelMarked'
    BY <2>1, <2>3 DEF SeqInv, DelMarked, Valid, Live
  <2>8. QED
    BY <2>4, <2>5, <2>6, <2>7 DEF SeqInv
<1>5. CASE HangUp
  <2>1. Valid(tbl, cur) /\ cur.slot \in Live(tbl) /\ cur # NoPtr
    BY <1>5 DEF HangUp, SeqInv, CurLive
  <2>2. tbl.mem[cur.slot].key \in Keys
    BY <1>1, <1>2, <2>1 DEF Tables, Entry
  <2>3. TypeOK'
    BY <1>5, <2>2 DEF HangUp, SeqInv, TypeOK, NoLookup, Ptrs
  <2>4. DelMarked'
    BY <1>2, <1>5, <2>1 DEF HangUp, DelMarked, Valid
  <2>5. QED
    BY <1>5, <2>3, <2>4
       DEF HangUp, SeqInv, Bounded, UniqueIdentity, Filled, AtRest, CurLive
<1>6. CASE EndRound
  <2>1. /\ tbl' = [tbl EXCEPT !.iter = 0]
        /\ phase = "round" /\ phase' = "delete" /\ cur' = NoPtr
        /\ UNCHANGED <<del, marked, status>> /\ found' = NoLookup
    BY <1>6 DEF EndRound, Rewind
  <2>2. tbl' \in Tables /\ InBounds(tbl') /\ tbl'.iter = 0
    BY <1>1, <1>2, <2>1 DEF Tables, InBounds
  <2>3. tbl'.mem = tbl.mem /\ tbl'.count = tbl.count /\ tbl'.gen = tbl.gen
    BY <1>1, <2>1 DEF Tables
  <2>4. TypeOK'
    BY <2>1, <2>2 DEF SeqInv, TypeOK, NoLookup, Ptrs
  <2>5. QED
    BY <2>1, <2>2, <2>3, <2>4
       DEF SeqInv, Bounded, UniqueIdentity, Filled, AtRest, CurLive, DelMarked,
           Valid, Live
<1>7. QED
  BY <1>3, <1>4, <1>5, <1>6

\* The removal after the round takes the marked peer or overruns.
LEMMA RemoveDeadInv ==
  ASSUME SeqInv, RemoveDead
  PROVE  SeqInv'
<1>1. /\ phase = "delete" /\ phase' = "idle" /\ del' = NoPtr
      /\ UNCHANGED <<cur, marked>> /\ found' = NoLookup
      /\ status' \in {"ok", "overrun", "dangling"} /\ tbl.iter = 0 /\ cur = NoPtr
  BY DEF RemoveDead, SeqInv, TypeOK, AtRest, CurLive
<1>2. /\ tbl' \in Tables /\ InBounds(tbl') /\ UniqueKeys(tbl') /\ tbl'.iter = 0
      /\ \A j \in Live(tbl') : tbl'.mem[j].port = 1
  <2>1. tbl \in Tables /\ InBounds(tbl) /\ UniqueKeys(tbl)
        /\ \A j \in Live(tbl) : tbl.mem[j].port = 1
    BY DEF SeqInv, TypeOK, Bounded, UniqueIdentity, UniqueKeys, Filled
  <2>2. CASE tbl' = tbl
    BY <1>1, <2>1, <2>2
  <2>3. CASE tbl' # tbl
    BY <1>1, <2>1, <2>3, RemoveTable, Compacted, OneDropped
  <2>4. QED
    BY <2>2, <2>3
<1>3. TypeOK'
  BY <1>1, <1>2 DEF SeqInv, TypeOK, NoLookup, Ptrs
<1>4. QED
  BY <1>1, <1>2, <1>3
     DEF SeqInv, Bounded, UniqueIdentity, UniqueKeys, Filled, AtRest, CurLive,
         DelMarked

(***************************************************************************)
(* The conjuncts of SeqInv hold in every state: peer_new and peer_remove    *)
(* keep the table a table, and what delptrs holds is a peer that hung up.   *)
(***************************************************************************)
THEOREM SeqTyping == Spec => []SeqInv
<1>1. ASSUME SeqInv, [Next]_vars
      PROVE  SeqInv'
  <2>1. CASE \E a \in Addrs : Register(a) \/ Lookup(a)
    BY <1>1, <2>1, RegisterInv, LookupInv
  <2>2. CASE StartRound \/ NextPeer \/ HangUp \/ EndRound
    BY <1>1, <2>2, RoundInv
  <2>3. CASE RemoveDead
    BY <1>1, <2>3, RemoveDeadInv
  <2>4. CASE UNCHANGED vars
    BY <1>1, <2>4
       DEF vars, SeqInv, TypeOK, Bounded, UniqueIdentity, Filled, AtRest,
           CurLive, DelMarked
  <2>5. QED
    BY <1>1, <2>1, <2>2, <2>3, <2>4 DEF Next
<1>2. QED
  BY <1>1, SeqInit, PTL DEF Spec

(***************************************************************************)
(* The table stays a table of distinct entries through every order of       *)
(* peer_new, lookups, rounds and removals.                                  *)
(***************************************************************************)
THEOREM TableStays == Spec => []TableInv
<1>1. SeqInv => TableInv
  BY DEF SeqInv, TableInv
<1>2. QED
  BY <1>1, SeqTyping, PTL

-----------------------------------------------------------------------------
\* Lookups

\* peer_exists returns the first other entry with the address of entry i.
LEMMA PeerExistsFinds ==
  ASSUME NEW tb \in Tables, NEW i \in Live(tb),
         \A j \in Live(tb) : tb.mem[j].port = 1,
         NEW p, p = PeerExists(tb, i)
  PROVE  IF p = NoPtr
         THEN \A j \in Live(tb) : j # i => tb.mem[j].addr # tb.mem[i].addr
         ELSE /\ p.gen = tb.gen /\ p.slot \in Live(tb) /\ p.slot # i
              /\ tb.mem[p.slot].addr = tb.mem[i].addr
<1>1. tb.gen \in Nat /\ Live(tb) \subseteq Nat
  BY TableParts DEF Live
<1>2. CASE Others(tb, i) = {}
  BY <1>2 DEF PeerExists, Others
<1>3. CASE Others(tb, i) # {}
  <2>1. First(Others(tb, i)) \in Others(tb, i)
    <3>1. Others(tb, i) \in SUBSET Nat
      BY <1>1 DEF Others
    <3>2. QED
      BY <1>3, <3>1, FirstInSet
  <2>2. p = [gen |-> tb.gen, slot |-> First(Others(tb, i))]
    BY <1>3 DEF PeerExists, Ptr
  <2>3. p # NoPtr
    BY <1>1, <2>2 DEF NoPtr
  <2>4. p.gen = tb.gen /\ p.slot \in Others(tb, i)
    BY <2>1, <2>2
  <2>5. QED
    BY <2>3, <2>4 DEF Others
<1>4. QED
  BY <1>2, <1>3

\* What peer_exists returns for the probe is an entry of the address, if any is.
LEMMA LookupResult ==
  ASSUME SeqInv, NEW a \in Addrs, Lookup(a)
  PROVE  LookupFinds'
<1>1. tbl \in Tables /\ InBounds(tbl) /\ CanGrow(tbl)
      /\ \A j \in Live(tbl) : tbl.mem[j].port = 1
  BY DEF SeqInv, TypeOK, Bounded, Filled, Lookup
<1>2. PICK moved \in BOOLEAN :
        LET probed == Fill(PeerNew(tbl, moved), tbl.count, a)
        IN  /\ found' = [addr |-> a, ptr |-> PeerExists(probed, tbl.count)]
            /\ tbl' = PeerRemove(probed, probed.mem[tbl.count])
  BY DEF Lookup
<1> DEFINE probed == Fill(PeerNew(tbl, moved), tbl.count, a)
           p == PeerExists(probed, tbl.count)
<1>3. /\ probed \in Tables /\ probed.count = tbl.count + 1
      /\ probed.mem[tbl.count].addr = a /\ probed.mem[tbl.count].port = 1
      /\ \A j \in Slots : j # tbl.count => probed.mem[j] = tbl.mem[j]
  BY <1>1, FilledNew
<1>4. found' = [addr |-> a, ptr |-> p]
      /\ tbl' = PeerRemove(probed, probed.mem[tbl.count])
  BY <1>2
<1>5. /\ tbl'.gen = probed.gen /\ tbl'.count = tbl.count
      /\ \A j \in Live(tbl) : tbl'.mem[j] = tbl.mem[j]
  BY <1>1, <1>4, ProbeRemoved
<1> HIDE DEF probed
<1>6. /\ Live(tbl)' = Live(tbl) /\ tbl.count \in Live(probed)
      /\ Live(probed) = Live(tbl) \cup {tbl.count}
      /\ Live(tbl) \subseteq Slots /\ tbl.count \notin Live(tbl)
  BY <1>1, <1>3, <1>5, TableParts DEF Live
<1>7. \A j \in Live(probed) : probed.mem[j].port = 1
  BY <1>1, <1>3, <1>6
<1>8. IF p = NoPtr
      THEN \A j \in Live(tbl) : tbl.mem[j].addr # a
      ELSE /\ p.gen = probed.gen /\ p.slot \in Live(tbl)
           /\ tbl.mem[p.slot].addr = a
  <2>1. IF p = NoPtr
        THEN \A j \in Live(probed) :
               j # tbl.count => probed.mem[j].addr # probed.mem[tbl.count].addr
        ELSE /\ p.gen = probed.gen /\ p.slot \in Live(probed) /\ p.slot # tbl.count
             /\ probed.mem[p.slot].addr = probed.mem[tbl.count].addr
    BY <1>3, <1>6, <1>7, PeerExistsFinds
  <2>2. QED
    BY <1>3, <1>6, <2>1
<1> HIDE DEF p
<1>9. QED
  BY <1>4, <1>5, <1>6, <1>8 DEF LookupFinds, Valid

(***************************************************************************)
(* peer_exists_simple finds a peer exactly when its address is registered,  *)
(* and what it returns designates that peer, wherever realloc has moved the *)
(* array for the probe.                                                     *)
(***************************************************************************)
THEOREM LookupsFind == Spec => []LookupFinds
<1>1. Init => LookupFinds
  BY DEF Init, LookupFinds, NoLookup
<1>2. ASSUME SeqInv, LookupFinds, [Next]_vars
      PROVE  LookupFinds'
  <2>1. ASSUME NEW a \in Addrs, Lookup(a)
        PROVE  LookupFinds'
    BY <1>2, <2>1, LookupResult
  <2>2. CASE found' = NoLookup
    BY <2>2 DEF LookupFinds, NoLookup
  <2>3. CASE UNCHANGED vars
    BY <1>2, <2>3 DEF vars, LookupFinds
  <2>4. QED
    BY <1>2, <2>1, <2>2, <2>3
       DEF Next, Register, StartRound, NextPeer, HangUp, EndRound, RemoveDead
<1>3. QED
  BY <1>1, <1>2, SeqTyping, PTL DEF Spec

-----------------------------------------------------------------------------
\* The registry

\* The registered identities after each kind of step.
LEMMA RegisteredNext ==
  ASSUME SeqInv, Next
  PROVE  \/ /\ \E k \in Keys \ Registered : Registered' = Registered \cup {k}
            /\ phase # "delete" /\ Seen' = Seen
         \/ Registered' = Registered /\ Seen' = Seen
         \/ /\ Registered' = Registered
            /\ \E k \in Registered \ Seen : Seen' = Seen \cup {k}
         \/ Registered' = Registered /\ Seen = Registered /\ Seen' = {}
         \/ /\ \E k \in Registered \cap marked : Registered' = Registered \ {k}
            /\ Seen = {} /\ Seen' = {}
<1>1. /\ tbl \in Tables /\ InBounds(tbl) /\ UniqueKeys(tbl)
      /\ Registered = Identities(tbl) /\ Registered' = Identities(tbl')
  BY DEF SeqInv, TypeOK, Bounded, UniqueIdentity, UniqueKeys, Registered,
         Identities
<1>2. /\ tbl.count \in Nat /\ tbl.iter \in Nat /\ tbl.iter <= tbl.count
      /\ 0..(tbl.iter - 1) \subseteq Live(tbl) /\ Live(tbl) \subseteq Slots
  BY <1>1, TableParts DEF InBounds, Live
<1>3. ASSUME tbl'.count = tbl.count, tbl'.iter = tbl.iter,
             \A j \in Live(tbl) : tbl'.mem[j] = tbl.mem[j]
      PROVE  Registered' = Registered /\ Seen' = Seen
  <2>1. Live(tbl)' = Live(tbl)
    BY <1>3 DEF Live
  <2>2. QED
    BY <1>1, <1>2, <1>3, <2>1 DEF Identities, Seen
<1>4. ASSUME NEW a \in Addrs, Register(a)
      PROVE  /\ \E k \in Keys \ Registered : Registered' = Registered \cup {k}
             /\ phase # "delete" /\ Seen' = Seen
  <2>1. /\ tbl'.count = tbl.count + 1 /\ tbl'.iter = tbl.iter
        /\ \A j \in Live(tbl) : tbl'.mem[j] = tbl.mem[j]
        /\ tbl'.mem[tbl.count].key \in Keys \ Identities(tbl)
    BY <1>4, RegisterTable
  <2>2. Live(tbl') = Live(tbl) \cup {tbl.count}
    BY <1>2, <2>1 DEF Live
  <2>3. Identities(tbl') = Identities(tbl) \cup {tbl'.mem[tbl.count].key}
    BY <2>1, <2>2 DEF Identities
  <2>4. Seen' = Seen
    BY <1>2, <2>1 DEF Seen
  <2>5. QED
    BY <1>1, <1>4, <2>1, <2>3, <2>4 DEF Register
<1>5. ASSUME NEW a \in Addrs, Lookup(a)
      PROVE  Registered' = Registered /\ Seen' = Seen
  BY <1>3, <1>5, LookupTable
<1>6. CASE StartRound \/ HangUp
  BY <1>3, <1>6 DEF StartRound, HangUp
<1>7. ASSUME NextPeer
      PROVE  /\ Registered' = Registered
             /\ \E k \in Registered \ Seen : Seen' = Seen \cup {k}
  <2>1. /\ tbl.iter \in Live(tbl)
        /\ tbl'.mem = tbl.mem /\ tbl'.count = tbl.count
        /\ tbl'.iter = tbl.iter + 1
    BY <1>1, <1>2, <1>7 DEF NextPeer, HasNext, Advance, Tables, Live
  <2>2. Registered' = Registered
    BY <1>1, <2>1 DEF Identities, Live
  <2>3. 0..(tbl'.iter - 1) = 0..(tbl.iter - 1) \cup {tbl.iter}
        /\ tbl.iter \notin 0..(tbl.iter - 1)
    BY <1>2, <2>1
  <2>4. Seen' = Seen \cup {tbl.mem[tbl.iter].key}
    BY <2>1, <2>3 DEF Seen
  <2>5. tbl.mem[tbl.iter].key \in Registered \ Seen
    BY <1>1, <1>2, <2>1, <2>3 DEF Identities, Seen, UniqueKeys
  <2>6. QED
    BY <2>2, <2>4, <2>5
<1>8. ASSUME EndRound
      PROVE  Registered' = Registered /\ Seen = Registered /\ Seen' = {}
  <2>1. /\ tbl.iter = tbl.count
        /\ tbl'.mem = tbl.mem /\ tbl'.count = tbl.count /\ tbl'.iter = 0
    BY <1>1, <1>2, <1>8 DEF EndRound, HasNext, Rewind, Tables
  <2>2. Registered' = Registered /\ Seen = Registered
    BY <1>1, <2>1 DEF Identities, Seen, Live
  <2>3. 0..(tbl'.iter - 1) = {}
    BY <2>1
  <2>4. QED
    BY <2>2, <2>3 DEF Seen
<1>9. ASSUME RemoveDead, tbl' # tbl
      PROVE  /\ \E k \in Registered \cap marked : Registered' = Registered \ {k}
             /\ Seen = {} /\ Seen' = {}
  <2>1. /\ del.slot \in Live(tbl) /\ tbl.mem[del.slot].key \in marked
        /\ ~RemoveOverruns(tbl, tbl.mem[del.slot])
        /\ tbl' = PeerRemove(tbl, tbl.mem[del.slot])
    BY <1>9, RemoveTable
  <2>2. Registered' = Registered \ {tbl.mem[del.slot].key}
    BY <1>1, <2>1, OneDropped
  <2>3. tbl.mem[del.slot].key \in Registered
    BY <1>1, <2>1 DEF Identities
  <2>4. tbl.iter = 0
    BY <1>9 DEF SeqInv, AtRest, RemoveDead
  <2>5. tbl'.iter = 0
    BY <1>1, <2>1, <2>4, Compacted
  <2>6. 0..(tbl.iter - 1) = {} /\ 0..(tbl'.iter - 1) = {}
    BY <2>4, <2>5
  <2>7. QED
    BY <2>1, <2>2, <2>3, <2>6 DEF Seen
<1>10. CASE tbl' = tbl
  BY <1>3, <1>10
<1>11. QED
  BY <1>4, <1>5, <1>6, <1>7, <1>8, <1>9, <1>10 DEF Next

(***************************************************************************)
(* A deferred removal drops a peer that hung up in the round that ended,    *)
(* and no other step drops one.                                             *)
(***************************************************************************)
THEOREM DeadOnly == Spec => OnlyDeadDropped
<1>1. ASSUME SeqInv, [Next]_vars
      PROVE  [\A k \in Registered : k \notin Registered' => k \in marked]_vars
  BY <1>1, RegisteredNext
<1>2. QED
  BY <1>1, SeqTyping, PTL DEF Spec, OnlyDeadDropped

(***************************************************************************)
(* The table implements the registry: a round visits every registered peer  *)
(* once, and each removal drops one peer, for every size of the array and   *)
(* every set of addresses.                                                  *)
(***************************************************************************)
THEOREM TableImplementsRegistry == Spec => ImplementsRegistry
<1>1. Init => Registry!Init
  <2>1. ASSUME Init
        PROVE  Live(tbl) = {} /\ 0..(tbl.iter - 1) = {}
    BY <2>1 DEF Init, NewTable, Live
  <2>2. QED
    BY <2>1 DEF Registry!Init, Registered, Seen
<1>2. ASSUME SeqInv, [Next]_vars
      PROVE  [Registry!Next]_Registry!vars
  <2>1. CASE UNCHANGED vars
    BY <2>1 DEF vars, Registry!vars, Registered, Seen
  <2>2. CASE Next
    <3>1. \/ \E k \in Keys \ Registered :
               Registered' = Registered \cup {k} /\ Seen' = Seen
          \/ Registered' = Registered /\ Seen' = Seen
          \/ /\ Registered' = Registered
             /\ \E k \in Registered \ Seen : Seen' = Seen \cup {k}
          \/ Registered' = Registered /\ Seen = Registered /\ Seen' = {}
          \/ /\ \E k \in Registered : Registered' = Registered \ {k}
             /\ Seen = {} /\ Seen' = {}
      BY <1>2, <2>2, RegisteredNext
    <3>2. Registered \subseteq Keys
      <4>1. tbl.mem \in [Slots -> Entry] /\ Live(tbl) \subseteq Slots
        BY <1>2, TableParts DEF SeqInv, TypeOK
      <4>2. QED
        BY <4>1 DEF Registered, Entry
    <3>3. QED
      BY <1>2, <3>1, <3>2
         DEF Registry!Next, Registry!Add, Registry!Drop, Registry!Visit,
             Registry!EndRound, Registry!vars
  <2>3. QED
    BY <1>2, <2>1, <2>2
<1>3. QED
  BY <1>1, <1>2, SeqTyping, PTL DEF Spec, ImplementsRegistry, Registry!Spec

-----------------------------------------------------------------------------
\* The connections of two cores: the inductive invariant

\* A table of entries by their place.
IsTable(t) == DOMAIN t \subseteq Ids /\ t \in [DOMAIN t -> PeerEntry]

\* The types, and that a core holds on to the connections in its queue.
ConnTypes ==
  /\ up \subseteq Nodes /\ reach \subseteq Nodes /\ keyed \subseteq Nodes
  /\ DOMAIN entries = Nodes /\ \A n \in Nodes : IsTable(entries[n])
  /\ rset \in [Nodes -> SUBSET Conns] /\ wset \in [Nodes -> SUBSET Conns]
  /\ acc \in [Nodes -> Thread({"idle", "upgrade", "key", "connect", "add"})]
  /\ dial \in [Nodes -> Thread({"idle", "found", "missed", "connect", "add", "key"})]
  /\ leaving \in [Nodes -> Ids \cup {0}]
  /\ queue \in [Nodes -> Seq(Conns)]
  /\ made \in 0..MaxConns /\ ends \in [Conns -> SUBSET Nodes]
  /\ \A n \in Nodes : \A i \in 1..Len(queue[n]) : n \in ends[queue[n][i]]
  /\ \A c \in Conns : c > made => ends[c] = {}
  /\ troubles \in 0..MaxTroubles
  /\ mishaps \subseteq {"overlap", "stale", "keyless"}

\* The one entry for the other core has the first place.
Has(n) == 1 \in DOMAIN entries[n]
Mine(n) == entries[n][1]

\* The second place is for the search of connect_to_peers.
One(n) == /\ DOMAIN entries[n] \subseteq {1, 2}
          /\ 2 \in DOMAIN entries[n] => Probing(n, 2)

\* A core that does not run has nothing.
Down(n) == n \notin up => /\ DOMAIN entries[n] = {} /\ queue[n] = <<>>
                          /\ acc[n].pc = "idle" /\ dial[n].pc = "idle"
                          /\ leaving[n] = 0

\* What an entry can be: dialled, connected both ways, one way from the other
\* side, or waiting for the connection back.
Dialled(e) == e.osock \in Conns /\ e.isock = Oneway /\ e.connectable
Double(e) == /\ e.osock \in Conns /\ e.isock \in Conns /\ e.osock # e.isock
             /\ e.connectable
Single(e) == e.osock = Oneway /\ e.isock \in Conns /\ ~e.connectable
Half(e) == e.osock = NoSocket /\ e.isock \in Conns /\ e.connectable

\* The entry and the connecting thread.
DialShape(n) ==
  /\ dial[n].pc = "found" =>
       dial[n].p = 2 /\ 2 \in DOMAIN entries[n] /\ entries[n][2] = NewEntry
  /\ dial[n].pc = "missed" =>
       dial[n].p = 1 /\ DOMAIN entries[n] = {1} /\ Mine(n) = NewEntry
  /\ dial[n].pc \in {"connect", "add"} => DOMAIN entries[n] = {}
  /\ dial[n].pc = "key" => dial[n].p = 1 /\ (Has(n) => Dialled(Mine(n)))

\* The entry and the accepting thread.
AccShape(n) ==
  /\ acc[n].pc \in {"key", "connect", "add"} =>
       acc[n].p = 1 /\ Has(n) /\ leaving[n] = 0 /\ dial[n].pc \in {"idle", "found"}
  /\ acc[n].pc = "key" => Mine(n) = NewEntry
  /\ acc[n].pc = "connect" => Half(Mine(n)) /\ Mine(n).isock = acc[n].c
  /\ acc[n].pc = "add" => /\ Double(Mine(n)) \/ Single(Mine(n))
                          /\ Mine(n).isock = acc[n].c

\* The entry and the reading thread.
EntryShape(n) ==
  /\ leaving[n] \in {0, 1}
  /\ leaving[n] = 1 => Has(n) /\ Dead(RecvSock(Mine(n)))
  /\ Has(n) => \/ Mine(n) = NewEntry \/ Dialled(Mine(n)) \/ Double(Mine(n))
               \/ Single(Mine(n)) \/ (Half(Mine(n)) /\ acc[n].pc = "connect")

\* A connection to be accepted is known to nothing else in the core.
Queued(n, c) == \E i \in 1..Len(queue[n]) : queue[n][i] = c
Pending(n, c) == Queued(n, c) \/ (acc[n].pc # "idle" /\ acc[n].c = c)
Numbers(n) ==
  /\ \A c \in Conns : Pending(n, c) => c <= made /\ c \notin rset[n]
  /\ acc[n].pc # "idle" => acc[n].c \in 1..made /\ ~Queued(n, acc[n].c)
  /\ \A i, j \in 1..Len(queue[n]) : queue[n][i] = queue[n][j] => i = j
  /\ dial[n].pc = "add" => dial[n].c \in 1..made /\ ~Pending(n, dial[n].c)
  /\ Has(n) =>
       /\ Mine(n).osock \in Conns =>
            Mine(n).osock <= made /\ ~Pending(n, Mine(n).osock)
       /\ Mine(n).isock \in Conns => Mine(n).isock <= made
  /\ \A c \in rset[n] : c <= made

\* Nothing comes in at a core that cannot be reached.
NoWay(n) == n \notin reach => /\ queue[n] = <<>> /\ acc[n].pc = "idle"
                              /\ Has(n) => Mine(n).isock \notin Conns

\* When the connection out of an entry has ended, the one in has ended too.
Paired(n) == Has(n) /\ Double(Mine(n)) /\ Dead(Mine(n).osock) => Dead(Mine(n).isock)

\* What one core keeps in order by itself.
Local(n) == /\ Down(n) /\ DialShape(n) /\ AccShape(n) /\ EntryShape(n)
            /\ Numbers(n) /\ NoWay(n) /\ Paired(n)

\* The connections that core n made and the entry of core m that got c.
Out(n, c) == \/ dial[n].pc = "add" /\ dial[n].c = c
             \/ Has(n) /\ Mine(n).osock = c
Arrived(m, c) ==
  \/ queue[m] # <<>> /\ queue[m][Len(queue[m])] = c
  \/ queue[m] = <<>> /\ acc[m].pc # "idle" /\ acc[m].c = c
  \/ /\ queue[m] = <<>> /\ acc[m].pc = "idle" /\ Has(m)
     /\ ~Dead(RecvSock(Mine(m)))
     /\ Mine(m).isock = c \/ (~Mine(m).keyok /\ dial[m].pc \notin {"missed", "key"})
Delivered(n) ==
  \A c \in Conns : Out(n, c) /\ ~Dead(c) => Arrived(Other(n), c)

\* A core whose peer could not connect back has no live connection from it.
Cut(m) ==
  /\ queue[m] # <<>> => Dead(queue[m][Len(queue[m])])
  /\ queue[m] = <<>> /\ acc[m].pc # "idle" => Dead(acc[m].c)
  /\ Has(m) /\ Mine(m).isock \in Conns =>
       Dead(Mine(m).isock) \/ queue[m] # <<>> \/ acc[m].pc = "upgrade"
Kept(n) == Has(n) /\ Mine(n).osock = Oneway => Cut(Other(n))

\* The sets of select have the sockets of the entry.
InSets(n) == Has(n) /\ ~InHand(n, 1) =>
               RecvSock(Mine(n)) \in rset[n] /\ SendSock(Mine(n)) \in wset[n]

\* The inductive invariant.
ConnIInv ==
  /\ ConnTypes
  /\ "overlap" \notin mishaps => \A n \in Nodes : One(n)
  /\ Orderly => \A n \in Nodes : Local(n) /\ Delivered(n) /\ Kept(n)
  /\ mishaps = {} => \A n \in Nodes : InSets(n)

-----------------------------------------------------------------------------
\* Facts about cores and tables

\* The other core is another one, and there are no more than the two.
LEMMA OtherCore ==
  ASSUME NEW n \in Nodes
  PROVE  /\ Other(n) \in Nodes /\ Other(n) # n /\ Other(Other(n)) = n
         /\ \A k \in Nodes : k = n \/ k = Other(n)
<1>0. IsFiniteSet(Nodes) /\ Cardinality(Nodes) = 2
  BY NodesAssumption
<1>1. IsFiniteSet(Nodes \ {n}) /\ Cardinality(Nodes \ {n}) = 1
  BY <1>0, FS_RemoveElement
<1>2. PICK m : Nodes \ {n} = {m}
  BY <1>1, FS_Singleton
<1>3. Other(n) \in Nodes /\ Other(n) # n
  BY <1>2 DEF Other
<1>4. \A k \in Nodes : k = n \/ k = Other(n)
  BY <1>2, <1>3
<1>5. Other(Other(n)) \in Nodes /\ Other(Other(n)) # Other(n)
  BY <1>3 DEF Other
<1>6. QED
  BY <1>3, <1>4, <1>5

\* There are places for two entries.
LEMMA Places == 1 \in Ids /\ 2 \in Ids
BY BoundsAssumption DEF Ids

\* The place of a new entry.
LEMMA NewPlace ==
  ASSUME NEW n \in Nodes
  PROVE  /\ DOMAIN entries[n] = {} => NewId(n) = 1
         /\ DOMAIN entries[n] = {1} => NewId(n) = 2
<1>1. ASSUME DOMAIN entries[n] = {}
      PROVE  NewId(n) = 1
  <2>1. DOMAIN entries[n] \cup {0} = {0}
    BY <1>1
  <2>2. Greatest({0}) = 0
    BY DEF Greatest
  <2>3. QED
    BY <2>1, <2>2 DEF NewId
<1>2. ASSUME DOMAIN entries[n] = {1}
      PROVE  NewId(n) = 2
  <2>1. DOMAIN entries[n] \cup {0} = {0, 1}
    BY <1>2
  <2>2. Greatest({0, 1}) = 1
    BY DEF Greatest
  <2>3. QED
    BY <2>1, <2>2 DEF NewId
<1>3. QED
  BY <1>1, <1>2

\* The first of the places there are.
LEMMA FirstPlace ==
  ASSUME NEW S \in SUBSET {1, 2}, S # {}
  PROVE  Least(S) \in S /\ (1 \in S => Least(S) = 1)
<1>1. CASE 1 \in S
  <2>1. \A j \in S : 1 <= j
    OBVIOUS
  <2>2. \A i \in S : (\A j \in S : i <= j) => i = 1
    BY <1>1
  <2>3. QED
    BY <1>1, <2>1, <2>2 DEF Least
<1>2. CASE 1 \notin S
  <2>1. S = {2}
    BY <1>2
  <2>2. QED
    BY <2>1 DEF Least
<1>3. QED
  BY <1>1, <1>2

\* A table without places is the empty one.
LEMMA NoPlaces ==
  ASSUME NEW n \in Nodes, IsTable(entries[n])
  PROVE  Exists(n) <=> DOMAIN entries[n] # {}
<1>1. DOMAIN EmptyTable = {}
  BY DEF EmptyTable
<1>2. ASSUME DOMAIN entries[n] = {}
      PROVE  entries[n] = EmptyTable
  BY <1>2 DEF IsTable, EmptyTable
<1>3. QED
  BY <1>1, <1>2 DEF Exists

\* A new peer is an entry of the program.
LEMMA NewIsEntry == NewEntry \in PeerEntry
BY DEF NewEntry, PeerEntry, Sockets, NoSocket

\* An entry put into its place.
LEMMA PutEntry ==
  ASSUME DOMAIN entries = Nodes, NEW n \in Nodes, IsTable(entries[n]),
         NEW p \in Ids, NEW e \in PeerEntry, entries' = With(n, p, e)
  PROVE  /\ DOMAIN entries' = Nodes
         /\ \A m \in Nodes : m # n => entries'[m] = entries[m]
         /\ IsTable(entries'[n])
         /\ DOMAIN entries'[n] = DOMAIN entries[n] \cup {p}
         /\ entries'[n][p] = e
         /\ \A q \in DOMAIN entries[n] : q # p => entries'[n][q] = entries[n][q]
<1>1. entries'[n] = [q \in DOMAIN entries[n] \cup {p} |->
                       IF q = p THEN e ELSE entries[n][q]]
  BY DEF With
<1>2. IsTable(entries'[n])
  BY <1>1 DEF IsTable
<1>3. QED
  BY <1>1, <1>2 DEF With

\* An entry that changes in its place.
LEMMA ChangeEntry ==
  ASSUME DOMAIN entries = Nodes, NEW n \in Nodes, IsTable(entries[n]),
         NEW p, NEW e \in PeerEntry, entries' = Set(n, p, e)
  PROVE  /\ DOMAIN entries' = Nodes
         /\ \A m \in Nodes : m # n => entries'[m] = entries[m]
         /\ IsTable(entries'[n])
         /\ DOMAIN entries'[n] = DOMAIN entries[n]
         /\ There(n, p) => entries'[n][p] = e
         /\ \A q \in DOMAIN entries[n] : q # p => entries'[n][q] = entries[n][q]
<1>1. CASE There(n, p)
  <2>1. p \in Ids /\ DOMAIN entries[n] \cup {p} = DOMAIN entries[n]
    BY <1>1 DEF There, IsTable
  <2>2. entries' = With(n, p, e)
    BY <1>1 DEF Set
  <2>3. QED
    BY <2>1, <2>2, PutEntry
<1>2. CASE ~There(n, p)
  BY <1>2 DEF Set, There
<1>3. QED
  BY <1>1, <1>2

\* An entry taken out of the table.
LEMMA TakeEntry ==
  ASSUME DOMAIN entries = Nodes, NEW n \in Nodes, IsTable(entries[n]),
         NEW p, entries' = Without(n, p)
  PROVE  /\ DOMAIN entries' = Nodes
         /\ \A m \in Nodes : m # n => entries'[m] = entries[m]
         /\ IsTable(entries'[n])
         /\ DOMAIN entries'[n] = DOMAIN entries[n] \ {p}
         /\ \A q \in DOMAIN entries[n] : q # p => entries'[n][q] = entries[n][q]
<1>1. entries'[n] = [q \in DOMAIN entries[n] \ {p} |-> entries[n][q]]
  BY DEF Without
<1>2. IsTable(entries'[n])
  BY <1>1 DEF IsTable
<1>3. QED
  BY <1>1, <1>2 DEF Without


-----------------------------------------------------------------------------
\* The types

\* A connection that connect made, or did not make.
LEMMA NetTypes ==
  ASSUME ConnTypes, NEW n \in Nodes,
         Connected(n) \/ Refused(n) \/ TooLate(n)
  PROVE  /\ queue' \in [Nodes -> Seq(Conns)]
         /\ made' \in 0..MaxConns /\ ends' \in [Conns -> SUBSET Nodes]
         /\ \A m \in Nodes : \A i \in 1..Len(queue'[m]) : m \in ends'[queue'[m][i]]
         /\ \A c \in Conns : c > made' => ends'[c] = {}
         /\ troubles' \in 0..MaxTroubles
         /\ made' > made => made + 1 \in Conns
<1>0. /\ MaxConns \in Nat /\ MaxTroubles \in Nat /\ made \in Nat
      /\ queue \in [Nodes -> Seq(Conns)] /\ ends \in [Conns -> SUBSET Nodes]
      /\ \A m \in Nodes : \A i \in 1..Len(queue[m]) : m \in ends[queue[m][i]]
      /\ \A c \in Conns : c > made => ends[c] = {}
      /\ troubles \in 0..MaxTroubles /\ made <= MaxConns
  BY BoundsAssumption DEF ConnTypes
<1>1. ASSUME NEW open \in SUBSET Nodes, Other(n) \in open, CanConnect(n),
             Connect(n, open)
      PROVE  /\ queue' \in [Nodes -> Seq(Conns)]
             /\ made' \in 0..MaxConns /\ ends' \in [Conns -> SUBSET Nodes]
             /\ \A m \in Nodes : \A i \in 1..Len(queue'[m]) : m \in ends'[queue'[m][i]]
             /\ \A c \in Conns : c > made' => ends'[c] = {}
             /\ made + 1 \in Conns
  <2>1. made + 1 \in Conns /\ made' = made + 1 /\ made' \in 0..MaxConns
    BY <1>0, <1>1 DEF CanConnect, Connect, Conns
  <2>2. ends' = [ends EXCEPT ![made + 1] = open] /\ ends' \in [Conns -> SUBSET Nodes]
    BY <1>0, <1>1, <2>1 DEF Connect
  <2>3. /\ queue' = [queue EXCEPT ![Other(n)] = Append(@, made + 1)]
        /\ queue' \in [Nodes -> Seq(Conns)]
    BY <1>0, <1>1, <2>1, OtherCore DEF Connect
  <2>4. ASSUME NEW m \in Nodes, NEW i \in 1..Len(queue'[m])
        PROVE  m \in ends'[queue'[m][i]]
    <3>1. queue[m] \in Seq(Conns) /\ i \in Nat
      BY <1>0, <2>4
    <3>2. CASE m = Other(n)
      <4>1. queue'[m] = Append(queue[m], made + 1)
        BY <1>0, <2>3, <3>2
      <4>2. CASE i = Len(queue[m]) + 1
        <5>1. queue'[m][i] = made + 1
          BY <3>1, <4>1, <4>2
        <5>2. QED
          BY <1>0, <1>1, <2>1, <2>2, <3>2, <5>1
      <4>3. CASE i \in 1..Len(queue[m])
        <5>1. queue'[m][i] = queue[m][i] /\ queue[m][i] \in Conns
          BY <3>1, <4>1, <4>3
        <5>2. m \in ends[queue[m][i]]
          BY <1>0, <4>3
        <5>3. QED
          BY <1>0, <1>1, <2>1, <2>2, <3>2, <5>1, <5>2
      <4>4. QED
        BY <2>4, <3>1, <4>1, <4>2, <4>3
    <3>3. CASE m # Other(n)
      <4>1. queue'[m] = queue[m]
        BY <1>0, <2>3, <3>3
      <4>2. m \in ends[queue[m][i]] /\ queue[m][i] \in Conns
        BY <1>0, <2>4, <3>1, <4>1
      <4>3. CASE queue[m][i] # made + 1
        BY <1>0, <2>2, <4>1, <4>2, <4>3
      <4>4. CASE queue[m][i] = made + 1
        <5>1. ends[made + 1] = {}
          BY <1>0, <2>1
        <5>2. QED
          BY <4>2, <4>4, <5>1
      <4>5. QED
        BY <4>3, <4>4
    <3>4. QED
      BY <3>2, <3>3
  <2>5. ASSUME NEW c \in Conns, c > made'
        PROVE  ends'[c] = {}
    <3>1. c \in Nat /\ c # made + 1 /\ c > made
      BY <1>0, <2>1, <2>5 DEF Conns
    <3>2. QED
      BY <1>0, <2>2, <3>1
  <2>6. QED
    BY <2>1, <2>2, <2>3, <2>4, <2>5
<1>2. CASE Connected(n)
  <2>1. Nodes \in SUBSET Nodes /\ Other(n) \in Nodes
    BY OtherCore
  <2>2. QED
    BY <1>0, <1>1, <1>2, <2>1 DEF Connected
<1>3. CASE Refused(n)
  BY <1>0, <1>3 DEF Refused, netVars
<1>4. CASE TooLate(n)
  <2>1. {Other(n)} \in SUBSET Nodes
    BY OtherCore
  <2>2. CanConnect(n) /\ Connect(n, {Other(n)}) /\ Other(n) \in {Other(n)}
    BY <1>4 DEF TooLate
  <2>3. troubles' \in 0..MaxTroubles
    BY <1>0, <1>4 DEF TooLate
  <2>4. QED
    BY <1>1, <2>1, <2>2, <2>3
<1>5. QED
  BY <1>2, <1>3, <1>4


\* What stands at a place is an entry, or the blank one that nobody reads.
LEMMA AtIsEntry ==
  ASSUME NEW n \in Nodes, IsTable(entries[n]), NEW p
  PROVE  /\ At(n, p) \in PeerEntry
         /\ There(n, p) => At(n, p) = entries[n][p]
BY NewIsEntry DEF At, There, IsTable

\* What a step of core n leaves alone.
OthersKeep(n) ==
  \A m \in Nodes : m # n =>
    /\ entries'[m] = entries[m] /\ rset'[m] = rset[m] /\ wset'[m] = wset[m]
    /\ acc'[m] = acc[m] /\ dial'[m] = dial[m] /\ leaving'[m] = leaving[m]

\* peer_exists_simple: the blank entry has the first place or the second.
LEMMA ProbeEffect ==
  ASSUME ConnTypes, NEW n \in Nodes, One(n), DialProbe(n)
  PROVE  /\ ConnTypes' /\ OthersKeep(n)
         /\ \/ /\ DOMAIN entries[n] = {} /\ DOMAIN entries'[n] = {1}
               /\ entries'[n][1] = NewEntry
               /\ dial'[n] = [dial[n] EXCEPT !.pc = "missed", !.p = 1]
            \/ /\ DOMAIN entries[n] = {1} /\ DOMAIN entries'[n] = {1, 2}
               /\ entries'[n][1] = entries[n][1] /\ entries'[n][2] = NewEntry
               /\ dial'[n] = [dial[n] EXCEPT !.pc = "found", !.p = 2]
<1>0. /\ DOMAIN entries = Nodes /\ \A m \in Nodes : IsTable(entries[m])
      /\ dial \in [Nodes -> Thread({"idle", "found", "missed", "connect", "add", "key"})]
  BY DEF ConnTypes
<1>1. DOMAIN entries[n] \in {{}, {1}}
  <2>1. 2 \notin DOMAIN entries[n]
    BY DEF One, Probing, DialProbe, DialAt
  <2>2. QED
    BY <2>1 DEF One
<1>2. NewId(n) \in Ids
  BY <1>1, NewPlace, Places
<1>3. /\ entries' = With(n, NewId(n), NewEntry)
      /\ dial' = [dial EXCEPT ![n].pc = IF Exists(n) THEN "found" ELSE "missed",
                              ![n].p = NewId(n)]
      /\ UNCHANGED <<rset, wset, acc, leaving, netVars, worldVars, mishaps>>
  BY DEF DialProbe
<1>4. /\ DOMAIN entries' = Nodes
      /\ \A m \in Nodes : m # n => entries'[m] = entries[m]
      /\ IsTable(entries'[n])
      /\ DOMAIN entries'[n] = DOMAIN entries[n] \cup {NewId(n)}
      /\ entries'[n][NewId(n)] = NewEntry
      /\ \A q \in DOMAIN entries[n] : q # NewId(n) => entries'[n][q] = entries[n][q]
  BY <1>0, <1>2, <1>3, NewIsEntry, PutEntry
<1>5. dial' \in [Nodes -> Thread({"idle", "found", "missed", "connect", "add", "key"})]
  <2> DEFINE d == [dial[n] EXCEPT !.pc = IF Exists(n) THEN "found" ELSE "missed",
                                  !.p = NewId(n)]
  <2>1. d \in Thread({"idle", "found", "missed", "connect", "add", "key"})
    <3>1. dial[n] \in Thread({"idle", "found", "missed", "connect", "add", "key"})
      BY <1>0
    <3>2. QED
      BY <1>2, <3>1 DEF Thread
  <2>2. dial' = [dial EXCEPT ![n] = d]
    BY <1>0, <1>3
  <2> HIDE DEF d
  <2>3. QED
    BY <1>0, <2>1, <2>2
<1>6. \A m \in Nodes : IsTable(entries'[m])
  BY <1>0, <1>4
<1>7. ConnTypes'
  BY <1>3, <1>4, <1>5, <1>6 DEF ConnTypes, netVars, worldVars, IsTable
<1>8. OthersKeep(n)
  BY <1>0, <1>3, <1>4 DEF OthersKeep
<1>9. CASE DOMAIN entries[n] = {}
  <2>1. NewId(n) = 1 /\ ~Exists(n)
    BY <1>0, <1>9, NewPlace, NoPlaces
  <2>2. dial'[n] = [dial[n] EXCEPT !.pc = "missed", !.p = 1]
    BY <1>0, <1>3, <2>1
  <2>3. QED
    BY <1>4, <1>7, <1>8, <1>9, <2>1, <2>2
<1>10. CASE DOMAIN entries[n] = {1}
  <2>1. NewId(n) = 2 /\ Exists(n)
    BY <1>0, <1>10, NewPlace, NoPlaces
  <2>2. dial'[n] = [dial[n] EXCEPT !.pc = "found", !.p = 2]
    BY <1>0, <1>3, <2>1
  <2>3. DOMAIN entries'[n] = {1, 2} /\ entries'[n][1] = entries[n][1]
    BY <1>4, <1>10, <2>1
  <2>4. QED
    BY <1>4, <1>7, <1>8, <1>10, <2>1, <2>2, <2>3
<1>11. QED
  BY <1>1, <1>9, <1>10

\* The blank entry is taken out again.
LEMMA UnprobeEffect ==
  ASSUME ConnTypes, NEW n \in Nodes, DialUnprobe(n)
  PROVE  /\ ConnTypes' /\ OthersKeep(n)
         /\ DOMAIN entries'[n] = DOMAIN entries[n] \ {dial[n].p}
         /\ \A q \in DOMAIN entries[n] : q # dial[n].p => entries'[n][q] = entries[n][q]
         /\ \/ dial[n].pc = "found" /\ dial'[n] = Idle
            \/ dial[n].pc = "missed" /\ dial'[n] = [Idle EXCEPT !.pc = "connect"]
<1>0. /\ DOMAIN entries = Nodes /\ \A m \in Nodes : IsTable(entries[m])
      /\ dial \in [Nodes -> Thread({"idle", "found", "missed", "connect", "add", "key"})]
      /\ MaxConns \in Nat
  BY BoundsAssumption DEF ConnTypes
<1>1. /\ entries' = Without(n, dial[n].p)
      /\ UNCHANGED <<rset, wset, acc, leaving, netVars, worldVars, mishaps>>
  BY DEF DialUnprobe
<1>2. \/ dial[n].pc = "found" /\ dial' = [dial EXCEPT ![n] = Idle]
      \/ /\ dial[n].pc = "missed"
         /\ dial' = [dial EXCEPT ![n] = [Idle EXCEPT !.pc = "connect"]]
  BY DEF DialUnprobe, DialAt
<1>3. /\ DOMAIN entries' = Nodes
      /\ \A m \in Nodes : m # n => entries'[m] = entries[m]
      /\ IsTable(entries'[n])
      /\ DOMAIN entries'[n] = DOMAIN entries[n] \ {dial[n].p}
      /\ \A q \in DOMAIN entries[n] : q # dial[n].p => entries'[n][q] = entries[n][q]
  BY <1>0, <1>1, TakeEntry
<1>4. dial' \in [Nodes -> Thread({"idle", "found", "missed", "connect", "add", "key"})]
  BY <1>0, <1>2 DEF Thread, Idle
<1>5. \A m \in Nodes : IsTable(entries'[m])
  BY <1>0, <1>3
<1>6. ConnTypes'
  BY <1>1, <1>3, <1>4, <1>5 DEF ConnTypes, netVars, worldVars, IsTable
<1>7. OthersKeep(n)
  BY <1>0, <1>1, <1>2, <1>3 DEF OthersKeep
<1>8. QED
  BY <1>0, <1>2, <1>3, <1>6, <1>7


\* A connection is in the other core's queue as soon as it is made.
Linked(n, open) ==
  /\ made' = made + 1 /\ made + 1 \in Conns /\ Other(n) \in up \cap reach
  /\ queue'[Other(n)] = Append(queue[Other(n)], made + 1) /\ queue'[n] = queue[n]
  /\ ends'[made + 1] = open
  /\ \A c \in Conns : c # made + 1 => ends'[c] = ends[c]

\* What connect does to the network.
LEMMA ConnectEffect ==
  ASSUME ConnTypes, NEW n \in Nodes
  PROVE  /\ Connected(n) => Linked(n, Nodes)
         /\ TooLate(n) => Linked(n, {Other(n)})
         /\ Refused(n) => UNCHANGED netVars /\ Other(n) \notin up \cap reach
<1>0. /\ MaxConns \in Nat /\ made \in Nat /\ made <= MaxConns
      /\ queue \in [Nodes -> Seq(Conns)] /\ ends \in [Conns -> SUBSET Nodes]
      /\ Other(n) \in Nodes /\ Other(n) # n
  BY BoundsAssumption, OtherCore DEF ConnTypes
<1>1. ASSUME NEW open, CanConnect(n), Connect(n, open)
      PROVE  Linked(n, open)
  <2>1. made + 1 \in Conns
    BY <1>0, <1>1 DEF CanConnect, Conns
  <2>2. QED
    BY <1>0, <1>1, <2>1 DEF CanConnect, Connect, Linked
<1>2. QED
  BY <1>1 DEF Connected, TooLate, Refused

\* The connection of connect_to_peers.
LEMMA DialConnectEffect ==
  ASSUME ConnTypes, NEW n \in Nodes, DialConnect(n)
  PROVE  /\ ConnTypes' /\ OthersKeep(n)
         /\ \/ /\ Linked(n, Nodes)
               /\ dial'[n] = [pc |-> "add", c |-> made + 1, p |-> 0]
            \/ Linked(n, {Other(n)}) /\ dial'[n] = Idle
            \/ UNCHANGED netVars /\ dial'[n] = Idle
<1>0. /\ dial \in [Nodes -> Thread({"idle", "found", "missed", "connect", "add", "key"})]
      /\ MaxConns \in Nat /\ made \in Nat
  BY BoundsAssumption DEF ConnTypes
<1>1. UNCHANGED <<entries, rset, wset, acc, leaving, up, reach, keyed, mishaps>>
  BY DEF DialConnect
<1>2. \/ /\ Connected(n)
         /\ dial' = [dial EXCEPT ![n] = [pc |-> "add", c |-> made + 1, p |-> 0]]
      \/ Refused(n) /\ dial' = [dial EXCEPT ![n] = Idle]
      \/ TooLate(n) /\ dial' = [dial EXCEPT ![n] = Idle]
  BY DEF DialConnect
<1>3. /\ queue' \in [Nodes -> Seq(Conns)]
      /\ made' \in 0..MaxConns /\ ends' \in [Conns -> SUBSET Nodes]
      /\ \A m \in Nodes : \A i \in 1..Len(queue'[m]) : m \in ends'[queue'[m][i]]
      /\ \A c \in Conns : c > made' => ends'[c] = {}
      /\ troubles' \in 0..MaxTroubles
  BY <1>2, NetTypes
<1>4. \/ Linked(n, Nodes) /\ dial' = [dial EXCEPT ![n] = [pc |-> "add", c |-> made + 1, p |-> 0]]
      \/ Linked(n, {Other(n)}) /\ dial' = [dial EXCEPT ![n] = Idle]
      \/ UNCHANGED netVars /\ dial' = [dial EXCEPT ![n] = Idle]
  BY <1>2, ConnectEffect
<1>5. dial' \in [Nodes -> Thread({"idle", "found", "missed", "connect", "add", "key"})]
  <2>1. Idle \in Thread({"idle", "found", "missed", "connect", "add", "key"})
    BY <1>0 DEF Idle, Thread
  <2>2. Linked(n, Nodes) =>
          [pc |-> "add", c |-> made + 1, p |-> 0]
            \in Thread({"idle", "found", "missed", "connect", "add", "key"})
    BY <1>0 DEF Thread, Linked, Conns
  <2>3. QED
    BY <1>0, <1>4, <2>1, <2>2
<1>6. ConnTypes'
  BY <1>1, <1>3, <1>5 DEF ConnTypes, IsTable
<1>7. OthersKeep(n)
  BY <1>0, <1>1, <1>4 DEF OthersKeep
<1>8. QED
  BY <1>0, <1>4, <1>6, <1>7

\* peer_addtoset and peer_updateset keep to the connections.
LEMMA SetTypes ==
  ASSUME ConnTypes, NEW n \in Nodes, NEW e \in PeerEntry,
         NEW r \in SUBSET Conns, NEW w \in SUBSET Conns, AddToSet(n, e, r, w)
  PROVE  /\ rset' \in [Nodes -> SUBSET Conns] /\ wset' \in [Nodes -> SUBSET Conns]
         /\ \A m \in Nodes : m # n => rset'[m] = rset[m] /\ wset'[m] = wset[m]
         /\ e.osock < 0 /\ e.isock < 0 => rset'[n] = r /\ wset'[n] = w
         /\ e.osock >= 0 \/ e.isock >= 0 =>
              rset'[n] = AddToRead(r, e) /\ wset'[n] = AddToWrite(w, e)
<1>0. /\ rset \in [Nodes -> SUBSET Conns] /\ wset \in [Nodes -> SUBSET Conns]
      /\ MaxConns \in Nat
  BY BoundsAssumption DEF ConnTypes
<1>1. /\ e.osock \in Int /\ e.isock \in Int
      /\ e.osock >= 0 => e.osock \in Conns
      /\ e.isock >= 0 => e.isock \in Conns
  BY <1>0 DEF PeerEntry, Sockets, Conns, NoSocket, Oneway
<1>2. CASE e.osock < 0 /\ e.isock < 0
  BY <1>0, <1>1, <1>2 DEF AddToSet
<1>3. CASE ~(e.osock < 0 /\ e.isock < 0)
  <2>1. AddToRead(r, e) \in SUBSET Conns /\ AddToWrite(w, e) \in SUBSET Conns
    BY <1>1, <1>3 DEF AddToRead, AddToWrite
  <2>2. /\ rset' = [rset EXCEPT ![n] = AddToRead(r, e)]
        /\ wset' = [wset EXCEPT ![n] = AddToWrite(w, e)]
    BY <1>3 DEF AddToSet
  <2>3. QED
    BY <1>0, <1>1, <1>3, <2>1, <2>2
<1>4. QED
  BY <1>2, <1>3

\* The dialled entry.
LEMMA DialAddEffect ==
  ASSUME ConnTypes, NEW n \in Nodes, DialShape(n), Numbers(n), DialAdd(n)
  PROVE  /\ ConnTypes' /\ OthersKeep(n)
         /\ DOMAIN entries[n] = {} /\ DOMAIN entries'[n] = {1}
         /\ entries'[n][1] = [NewEntry EXCEPT !.osock = dial[n].c, !.isock = Oneway]
         /\ rset'[n] = rset[n] \cup {dial[n].c} /\ wset'[n] = wset[n] \cup {dial[n].c}
         /\ dial'[n] = [dial[n] EXCEPT !.pc = "key", !.p = 1]
         /\ dial[n].c \in Conns
<1> DEFINE e == [NewEntry EXCEPT !.osock = dial[n].c, !.isock = Oneway]
<1>0. /\ DOMAIN entries = Nodes /\ \A m \in Nodes : IsTable(entries[m])
      /\ dial \in [Nodes -> Thread({"idle", "found", "missed", "connect", "add", "key"})]
      /\ rset \in [Nodes -> SUBSET Conns] /\ wset \in [Nodes -> SUBSET Conns]
      /\ MaxConns \in Nat /\ made \in Nat /\ made <= MaxConns
  BY BoundsAssumption DEF ConnTypes
<1>1. DOMAIN entries[n] = {} /\ dial[n].c \in Conns
  BY <1>0 DEF DialShape, Numbers, DialAdd, DialAt, Conns
<1>2. NewId(n) = 1 /\ 1 \in Ids
  BY <1>1, NewPlace, Places
<1>3. /\ entries' = With(n, 1, e) /\ AddToSet(n, e, rset[n], wset[n])
      /\ dial' = [dial EXCEPT ![n].pc = "key", ![n].p = 1]
      /\ UNCHANGED <<acc, leaving, netVars, worldVars, mishaps>>
  BY <1>2 DEF DialAdd
<1>4. e \in PeerEntry /\ e.osock = dial[n].c /\ e.isock = Oneway
  BY <1>1 DEF NewEntry, PeerEntry, Sockets, NoSocket, Oneway
<1> HIDE DEF e
<1>5. /\ DOMAIN entries' = Nodes
      /\ \A m \in Nodes : m # n => entries'[m] = entries[m]
      /\ IsTable(entries'[n])
      /\ DOMAIN entries'[n] = DOMAIN entries[n] \cup {1}
      /\ entries'[n][1] = e
  BY <1>0, <1>2, <1>3, <1>4, PutEntry
<1>6. /\ rset' \in [Nodes -> SUBSET Conns] /\ wset' \in [Nodes -> SUBSET Conns]
      /\ \A m \in Nodes : m # n => rset'[m] = rset[m] /\ wset'[m] = wset[m]
      /\ e.osock >= 0 \/ e.isock >= 0 =>
           rset'[n] = AddToRead(rset[n], e) /\ wset'[n] = AddToWrite(wset[n], e)
  <2>1. rset[n] \in SUBSET Conns /\ wset[n] \in SUBSET Conns
    BY <1>0
  <2>2. QED
    BY <1>3, <1>4, <2>1, SetTypes
<1>7. rset'[n] = rset[n] \cup {dial[n].c} /\ wset'[n] = wset[n] \cup {dial[n].c}
  BY <1>0, <1>1, <1>4, <1>6 DEF AddToRead, AddToWrite, Conns, Oneway
<1>8. /\ dial' \in [Nodes -> Thread({"idle", "found", "missed", "connect", "add", "key"})]
      /\ dial'[n] = [dial[n] EXCEPT !.pc = "key", !.p = 1]
      /\ \A m \in Nodes : m # n => dial'[m] = dial[m]
  <2>1. [dial[n] EXCEPT !.pc = "key", !.p = 1]
          \in Thread({"idle", "found", "missed", "connect", "add", "key"})
    <3>1. dial[n] \in Thread({"idle", "found", "missed", "connect", "add", "key"})
      BY <1>0
    <3>2. QED
      BY <1>2, <3>1 DEF Thread
  <2>2. dial' = [dial EXCEPT ![n] = [dial[n] EXCEPT !.pc = "key", !.p = 1]]
    BY <1>0, <1>3
  <2>3. QED
    BY <1>0, <2>1, <2>2
<1>9. ConnTypes'
  BY <1>0, <1>3, <1>5, <1>6, <1>8 DEF ConnTypes, netVars, worldVars, IsTable
<1>10. OthersKeep(n)
  BY <1>3, <1>5, <1>6, <1>8 DEF OthersKeep
<1>11. DOMAIN entries'[n] = {1}
  BY <1>1, <1>5
<1>12. QED
  BY <1>1, <1>5, <1>7, <1>8, <1>9, <1>10, <1>11 DEF e


\* check_peer_key for the dialled entry.
LEMMA DialKeyEffect ==
  ASSUME ConnTypes, NEW n \in Nodes, DialShape(n), DialKey(n)
  PROVE  /\ ConnTypes' /\ OthersKeep(n)
         /\ DOMAIN entries'[n] = DOMAIN entries[n]
         /\ \A q \in DOMAIN entries[n] : q # 1 => entries'[n][q] = entries[n][q]
         /\ Has(n) => entries'[n][1] = IF n \in keyed
              THEN [entries[n][1] EXCEPT !.isock = Oneway, !.keyok = TRUE]
              ELSE entries[n][1]
         /\ mishaps \subseteq mishaps' /\ (n \notin keyed => "keyless" \in mishaps')
         /\ dial'[n] = Idle
<1>0. /\ DOMAIN entries = Nodes /\ \A m \in Nodes : IsTable(entries[m])
      /\ dial \in [Nodes -> Thread({"idle", "found", "missed", "connect", "add", "key"})]
      /\ mishaps \subseteq {"overlap", "stale", "keyless"}
      /\ MaxConns \in Nat
  BY BoundsAssumption DEF ConnTypes
<1>1. dial[n].p = 1
  BY DEF DialShape, DialKey, DialAt
<1> DEFINE e == [At(n, 1) EXCEPT !.isock = Oneway, !.keyok = TRUE]
<1>2. /\ entries' = IF n \in keyed THEN Set(n, 1, e) ELSE entries
      /\ Mishap("keyless", n \notin keyed)
      /\ dial' = [dial EXCEPT ![n] = Idle]
      /\ UNCHANGED <<rset, wset, acc, leaving, netVars, worldVars>>
  BY <1>1 DEF DialKey
<1>3. /\ mishaps' \subseteq {"overlap", "stale", "keyless"} /\ mishaps \subseteq mishaps'
      /\ n \notin keyed => "keyless" \in mishaps'
  BY <1>0, <1>2 DEF Mishap
<1>4. e \in PeerEntry
  <2>1. At(n, 1) \in PeerEntry
    BY <1>0, AtIsEntry
  <2>2. QED
    BY <2>1 DEF PeerEntry, Sockets, Oneway
<1>5. Has(n) => e = [entries[n][1] EXCEPT !.isock = Oneway, !.keyok = TRUE]
  BY DEF Has, At, There
<1> HIDE DEF e
<1>6. /\ DOMAIN entries' = Nodes
      /\ \A m \in Nodes : m # n => entries'[m] = entries[m]
      /\ IsTable(entries'[n])
      /\ DOMAIN entries'[n] = DOMAIN entries[n]
      /\ \A q \in DOMAIN entries[n] : q # 1 => entries'[n][q] = entries[n][q]
      /\ Has(n) => entries'[n][1] = IF n \in keyed THEN e ELSE entries[n][1]
  <2>1. CASE n \in keyed
    <3>1. entries' = Set(n, 1, e)
      BY <1>2, <2>1
    <3>2. Has(n) => There(n, 1)
      BY DEF Has, There
    <3>3. QED
      BY <1>0, <1>4, <2>1, <3>1, <3>2, ChangeEntry
  <2>2. CASE n \notin keyed
    BY <1>0, <1>2, <2>2
  <2>3. QED
    BY <2>1, <2>2
<1>7. dial' \in [Nodes -> Thread({"idle", "found", "missed", "connect", "add", "key"})]
  BY <1>0, <1>2 DEF Thread, Idle
<1>8. \A m \in Nodes : IsTable(entries'[m])
  BY <1>0, <1>6
<1>9. ConnTypes'
  BY <1>2, <1>3, <1>6, <1>7, <1>8 DEF ConnTypes, netVars, worldVars, IsTable
<1>10. OthersKeep(n)
  BY <1>0, <1>2, <1>6 DEF OthersKeep
<1>11. QED
  BY <1>0, <1>2, <1>3, <1>5, <1>6, <1>9, <1>10

\* accept, and the entry that the connection is for.
LEMMA TakeEffect ==
  ASSUME ConnTypes, NEW n \in Nodes, One(n), AcceptTake(n)
  PROVE  /\ ConnTypes' /\ OthersKeep(n)
         /\ queue[n] # <<>> /\ queue'[n] = Tail(queue[n])
         /\ queue[n] \in Seq(Conns) /\ Head(queue[n]) \in Conns
         /\ \A m \in Nodes : m # n => queue'[m] = queue[m]
         /\ acc'[n].c = Head(queue[n])
         /\ \/ /\ DOMAIN entries[n] # {} /\ entries' = entries
               /\ acc'[n].pc = "upgrade" /\ acc'[n].p \in DOMAIN entries[n]
               /\ Has(n) => acc'[n].p = 1
            \/ /\ DOMAIN entries[n] = {} /\ DOMAIN entries'[n] = {1}
               /\ entries'[n][1] = NewEntry
               /\ acc'[n].pc = "key" /\ acc'[n].p = 1
         /\ mishaps \subseteq mishaps'
         /\ dial[n].pc \in {"missed", "connect", "add", "key"} => "overlap" \in mishaps'
<1>0. /\ DOMAIN entries = Nodes /\ \A m \in Nodes : IsTable(entries[m])
      /\ acc \in [Nodes -> Thread({"idle", "upgrade", "key", "connect", "add"})]
      /\ queue \in [Nodes -> Seq(Conns)]
      /\ \A m \in Nodes : \A i \in 1..Len(queue[m]) : m \in ends[queue[m][i]]
      /\ mishaps \subseteq {"overlap", "stale", "keyless"}
      /\ MaxConns \in Nat
  BY BoundsAssumption DEF ConnTypes
<1>1. /\ queue[n] # <<>> /\ queue' = [queue EXCEPT ![n] = Tail(@)]
      /\ Mishap("overlap", dial[n].pc \in {"missed", "connect", "add", "key"})
      /\ UNCHANGED <<rset, wset, dial, leaving, ends, made, worldVars>>
  BY DEF AcceptTake
<1>2. queue[n] \in Seq(Conns) /\ Head(queue[n]) \in Conns /\ Tail(queue[n]) \in Seq(Conns)
  <2>1. queue[n] \in Seq(Conns)
    BY <1>0
  <2>2. QED
    BY <1>1, <2>1
<1>3. /\ mishaps' \subseteq {"overlap", "stale", "keyless"} /\ mishaps \subseteq mishaps'
      /\ dial[n].pc \in {"missed", "connect", "add", "key"} => "overlap" \in mishaps'
  BY <1>0, <1>1 DEF Mishap
<1>4. /\ queue' \in [Nodes -> Seq(Conns)] /\ queue'[n] = Tail(queue[n])
      /\ \A m \in Nodes : m # n => queue'[m] = queue[m]
  BY <1>0, <1>1, <1>2
<1>5. ASSUME NEW m \in Nodes, NEW i \in 1..Len(queue'[m])
      PROVE  m \in ends[queue'[m][i]]
  <2>1. CASE m = n
    <3>1. i + 1 \in 1..Len(queue[n]) /\ Tail(queue[n])[i] = queue[n][i + 1]
      BY <1>1, <1>2, <1>4, <1>5, <2>1
    <3>2. QED
      BY <1>0, <1>4, <2>1, <3>1
  <2>2. CASE m # n
    BY <1>0, <1>4, <1>5, <2>2
  <2>3. QED
    BY <2>1, <2>2
<1>6. /\ DOMAIN entries' = Nodes
      /\ \A m \in Nodes : m # n => entries'[m] = entries[m]
      /\ IsTable(entries'[n])
      /\ \E p \in Ids : \E pc \in {"upgrade", "key"} :
           acc' = [acc EXCEPT ![n] = [pc |-> pc, c |-> Head(queue[n]), p |-> p]]
      /\ \/ /\ DOMAIN entries[n] # {} /\ entries' = entries
            /\ acc'[n].pc = "upgrade" /\ acc'[n].p \in DOMAIN entries[n]
            /\ Has(n) => acc'[n].p = 1
         \/ /\ DOMAIN entries[n] = {} /\ DOMAIN entries'[n] = {1}
            /\ entries'[n][1] = NewEntry
            /\ acc'[n].pc = "key" /\ acc'[n].p = 1
  <2>1. CASE Exists(n)
    <3>1. DOMAIN entries[n] # {} /\ DOMAIN entries[n] \in SUBSET {1, 2}
      BY <1>0, <2>1, NoPlaces DEF One
    <3>2. /\ Least(DOMAIN entries[n]) \in DOMAIN entries[n]
          /\ Has(n) => Least(DOMAIN entries[n]) = 1
      BY <3>1, FirstPlace DEF Has
    <3>3. Least(DOMAIN entries[n]) \in Ids
      BY <1>0, <3>2 DEF IsTable
    <3>4. /\ acc' = [acc EXCEPT ![n] = [pc |-> "upgrade", c |-> Head(queue[n]),
                                        p |-> Least(DOMAIN entries[n])]]
          /\ UNCHANGED entries
      BY <2>1 DEF AcceptTake
    <3>5. /\ acc'[n].pc = "upgrade" /\ acc'[n].p = Least(DOMAIN entries[n])
      BY <1>0, <3>4
    <3>6. QED
      BY <1>0, <3>1, <3>2, <3>3, <3>4, <3>5
  <2>2. CASE ~Exists(n)
    <3>1. DOMAIN entries[n] = {}
      BY <1>0, <2>2, NoPlaces
    <3>2. NewId(n) = 1 /\ 1 \in Ids
      BY <3>1, NewPlace, Places
    <3>3. /\ acc' = [acc EXCEPT ![n] = [pc |-> "key", c |-> Head(queue[n]), p |-> 1]]
          /\ entries' = With(n, 1, NewEntry)
      BY <2>2, <3>2 DEF AcceptTake
    <3>4. /\ DOMAIN entries' = Nodes
          /\ \A m \in Nodes : m # n => entries'[m] = entries[m]
          /\ IsTable(entries'[n])
          /\ DOMAIN entries'[n] = DOMAIN entries[n] \cup {1}
          /\ entries'[n][1] = NewEntry
      BY <1>0, <3>2, <3>3, NewIsEntry, PutEntry
    <3>5. acc'[n].pc = "key" /\ acc'[n].p = 1
      BY <1>0, <3>3
    <3>6. QED
      BY <3>1, <3>2, <3>3, <3>4, <3>5
  <2>3. QED
    BY <2>1, <2>2
<1>7. PICK p \in Ids, pc \in {"upgrade", "key"} :
        acc' = [acc EXCEPT ![n] = [pc |-> pc, c |-> Head(queue[n]), p |-> p]]
  BY <1>6
<1>8. /\ acc' \in [Nodes -> Thread({"idle", "upgrade", "key", "connect", "add"})]
      /\ acc'[n].c = Head(queue[n])
      /\ \A m \in Nodes : m # n => acc'[m] = acc[m]
  <2>1. [pc |-> pc, c |-> Head(queue[n]), p |-> p]
          \in Thread({"idle", "upgrade", "key", "connect", "add"})
    BY <1>0, <1>2 DEF Thread, Conns
  <2>2. QED
    BY <1>0, <1>7, <2>1
<1>9. \A m \in Nodes : IsTable(entries'[m])
  BY <1>0, <1>6
<1>10. ConnTypes'
  BY <1>1, <1>3, <1>4, <1>5, <1>6, <1>8, <1>9 DEF ConnTypes, worldVars, IsTable
<1>11. OthersKeep(n)
  BY <1>1, <1>6, <1>8 DEF OthersKeep
<1>12. QED
  BY <1>1, <1>2, <1>3, <1>4, <1>6, <1>8, <1>10, <1>11


(***************************************************************************)
(* "check if we have oneway connection with the old one": the places stay   *)
(* as they are, and where no mishap is noticed the entry was a dialled one  *)
(* with a connection that is still there.                                   *)
(***************************************************************************)
LEMMA UpgradeEffect ==
  ASSUME ConnTypes, NEW n \in Nodes, One(n), DialShape(n), Numbers(n),
         AcceptUpgrade(n)
  PROVE  /\ ConnTypes' /\ OthersKeep(n)
         /\ DOMAIN entries'[n] = DOMAIN entries[n]
         /\ mishaps \subseteq mishaps' /\ (n \notin keyed => "keyless" \in mishaps')
         /\ acc[n].c \in Conns /\ acc'[n] = Idle
         /\ Orderly' =>
              /\ Has(n) /\ leaving[n] # 1 /\ dial[n].pc # "key"
              /\ entries[n][1].isock = Oneway /\ ~Dead(entries[n][1].osock)
              /\ \A q \in DOMAIN entries[n] : q # 1 => entries'[n][q] = entries[n][q]
              /\ IF n \in keyed
                 THEN LET new == Upgraded(entries[n][1], acc[n].c)
                      IN  /\ entries'[n][1] = new
                          /\ rset'[n] = AddToRead(rset[n] \ {new.osock}, new)
                          /\ wset'[n] = AddToWrite(wset[n] \ {new.osock}, new)
                 ELSE /\ entries'[n][1] = [entries[n][1] EXCEPT !.keyok = FALSE]
                      /\ rset'[n] = rset[n] /\ wset'[n] = wset[n]
<1> DEFINE p == acc[n].p
           old == At(n, p)
           new == Upgraded(old, acc[n].c)
           bad == [old EXCEPT !.keyok = FALSE]
<1>0. /\ DOMAIN entries = Nodes /\ \A m \in Nodes : IsTable(entries[m])
      /\ acc \in [Nodes -> Thread({"idle", "upgrade", "key", "connect", "add"})]
      /\ rset \in [Nodes -> SUBSET Conns] /\ wset \in [Nodes -> SUBSET Conns]
      /\ mishaps \subseteq {"overlap", "stale", "keyless"}
      /\ MaxConns \in Nat /\ made \in 0..MaxConns
  BY BoundsAssumption DEF ConnTypes
<1>1. /\ n \in keyed => entries' = Set(n, p, new) /\ UpdateSet(n, new)
      /\ n \notin keyed => entries' = Set(n, p, bad) /\ UNCHANGED <<rset, wset>>
      /\ mishaps' = mishaps
           \cup (IF n \in keyed THEN {} ELSE {"keyless"})
           \cup (IF dial[n].pc = "key" THEN {"overlap"} ELSE {})
           \cup (IF \/ ~There(n, p) \/ leaving[n] = p
                    \/ old.isock # Oneway \/ Dead(old.osock)
                 THEN {"stale"} ELSE {})
      /\ acc' = [acc EXCEPT ![n] = Idle]
      /\ UNCHANGED <<dial, leaving, netVars, worldVars>>
  BY DEF AcceptUpgrade
<1>2. acc[n].c \in Conns
  BY <1>0 DEF Numbers, AcceptUpgrade, AccAt, Conns
<1>3. old \in PeerEntry /\ (There(n, p) => old = entries[n][p])
  BY <1>0, AtIsEntry
<1> HIDE DEF old
<1>4. new \in PeerEntry /\ bad \in PeerEntry
  BY <1>2, <1>3 DEF Upgraded, PeerEntry, Sockets
<1>5. new = Upgraded(old, acc[n].c) /\ bad = [old EXCEPT !.keyok = FALSE] /\ new.isock = acc[n].c
  BY <1>3 DEF Upgraded, PeerEntry
<1> HIDE DEF new, bad, p
<1>6. /\ DOMAIN entries' = Nodes
      /\ \A m \in Nodes : m # n => entries'[m] = entries[m]
      /\ IsTable(entries'[n])
      /\ DOMAIN entries'[n] = DOMAIN entries[n]
      /\ There(n, p) => entries'[n][p] = IF n \in keyed THEN new ELSE bad
      /\ \A q \in DOMAIN entries[n] : q # p => entries'[n][q] = entries[n][q]
  BY <1>0, <1>1, <1>4, ChangeEntry
<1>7. /\ rset' \in [Nodes -> SUBSET Conns] /\ wset' \in [Nodes -> SUBSET Conns]
      /\ \A m \in Nodes : m # n => rset'[m] = rset[m] /\ wset'[m] = wset[m]
      /\ n \in keyed => /\ rset'[n] = AddToRead(rset[n] \ {new.osock}, new)
                        /\ wset'[n] = AddToWrite(wset[n] \ {new.osock}, new)
      /\ n \notin keyed => rset'[n] = rset[n] /\ wset'[n] = wset[n]
  <2>1. CASE n \in keyed
    <3>1. AddToSet(n, new, rset[n] \ {new.osock}, wset[n] \ {new.osock})
      BY <1>1, <2>1 DEF UpdateSet
    <3>2. /\ rset[n] \ {new.osock} \in SUBSET Conns
          /\ wset[n] \ {new.osock} \in SUBSET Conns
      BY <1>0
    <3>3. new.isock >= 0
      BY <1>0, <1>2, <1>5 DEF Conns
    <3>4. QED
      BY <1>4, <2>1, <3>1, <3>2, <3>3, SetTypes
  <2>2. CASE n \notin keyed
    BY <1>0, <1>1, <2>2
  <2>3. QED
    BY <2>1, <2>2
<1>8. /\ acc' \in [Nodes -> Thread({"idle", "upgrade", "key", "connect", "add"})]
      /\ acc'[n] = Idle /\ \A m \in Nodes : m # n => acc'[m] = acc[m]
  BY <1>0, <1>1 DEF Thread, Idle
<1>9. /\ mishaps \subseteq mishaps' /\ mishaps' \subseteq {"overlap", "stale", "keyless"}
      /\ n \notin keyed => "keyless" \in mishaps'
      /\ Orderly' => /\ There(n, p) /\ leaving[n] # p /\ old.isock = Oneway
                     /\ ~Dead(old.osock) /\ dial[n].pc # "key"
  BY <1>0, <1>1 DEF Orderly
<1>10. \A m \in Nodes : IsTable(entries'[m])
  BY <1>0, <1>6
<1>11. ConnTypes'
  BY <1>1, <1>6, <1>7, <1>8, <1>9, <1>10 DEF ConnTypes, netVars, worldVars, IsTable
<1>12. OthersKeep(n)
  BY <1>1, <1>6, <1>7, <1>8 DEF OthersKeep
<1>13. ASSUME Orderly'
       PROVE  p = 1
  <2>1. p \in {1, 2} /\ old = entries[n][p]
    BY <1>3, <1>9, <1>13 DEF One, There
  <2>2. ASSUME p = 2
        PROVE  FALSE
    <3>1. entries[n][2] = NewEntry
      BY <1>9, <1>13, <2>2 DEF One, There, Probing, DialShape
    <3>2. QED
      BY <1>9, <1>13, <2>1, <2>2, <3>1 DEF NewEntry, NoSocket, Oneway
  <2>3. QED
    BY <2>1, <2>2
<1>14. ASSUME Orderly'
       PROVE  Has(n) /\ old = entries[n][1]
  BY <1>3, <1>9, <1>13, <1>14 DEF There, Has
<1>15. QED
  BY <1>2, <1>5, <1>6, <1>7, <1>8, <1>9, <1>11, <1>12, <1>13, <1>14 DEF Has

\* A new peer's key.
LEMMA AcceptKeyEffect ==
  ASSUME ConnTypes, NEW n \in Nodes, AccShape(n), Numbers(n), AcceptKey(n)
  PROVE  /\ ConnTypes' /\ OthersKeep(n)
         /\ Has(n) /\ entries[n][1] = NewEntry
         /\ acc[n].c \in Conns
         /\ DOMAIN entries'[n] = DOMAIN entries[n]
         /\ \A q \in DOMAIN entries[n] : q # 1 => entries'[n][q] = entries[n][q]
         /\ mishaps \subseteq mishaps' /\ (n \notin keyed => "keyless" \in mishaps')
         /\ IF n \in keyed
            THEN /\ entries'[n][1] = [NewEntry EXCEPT !.isock = acc[n].c, !.keyok = TRUE]
                 /\ acc'[n] = [acc[n] EXCEPT !.pc = "connect"]
            ELSE entries'[n][1] = NewEntry /\ acc'[n] = Idle
<1> DEFINE e == [NewEntry EXCEPT !.isock = acc[n].c, !.keyok = TRUE]
<1>0. /\ DOMAIN entries = Nodes /\ \A m \in Nodes : IsTable(entries[m])
      /\ acc \in [Nodes -> Thread({"idle", "upgrade", "key", "connect", "add"})]
      /\ mishaps \subseteq {"overlap", "stale", "keyless"}
      /\ MaxConns \in Nat /\ made \in 0..MaxConns
  BY BoundsAssumption DEF ConnTypes
<1>1. /\ acc[n].p = 1 /\ Has(n) /\ entries[n][1] = NewEntry /\ acc[n].c \in Conns
      /\ acc[n].pc = "key"
  BY <1>0 DEF AccShape, Numbers, AcceptKey, AccAt, Mine, Conns
<1>2. At(n, 1) = NewEntry /\ There(n, 1)
  BY <1>1 DEF At, There, Has
<1>3. /\ n \in keyed => /\ entries' = Set(n, 1, e)
                        /\ acc' = [acc EXCEPT ![n].pc = "connect"]
      /\ n \notin keyed => acc' = [acc EXCEPT ![n] = Idle] /\ entries' = entries
      /\ Mishap("keyless", n \notin keyed)
      /\ UNCHANGED <<rset, wset, dial, leaving, netVars, worldVars>>
  BY <1>1, <1>2 DEF AcceptKey
<1>4. e \in PeerEntry
  BY <1>1 DEF NewEntry, PeerEntry, Sockets, NoSocket
<1> HIDE DEF e
<1>5. /\ DOMAIN entries' = Nodes
      /\ \A m \in Nodes : m # n => entries'[m] = entries[m]
      /\ IsTable(entries'[n])
      /\ DOMAIN entries'[n] = DOMAIN entries[n]
      /\ entries'[n][1] = IF n \in keyed THEN e ELSE NewEntry
      /\ \A q \in DOMAIN entries[n] : q # 1 => entries'[n][q] = entries[n][q]
  <2>1. CASE n \in keyed
    BY <1>0, <1>2, <1>3, <1>4, <2>1, ChangeEntry
  <2>2. CASE n \notin keyed
    BY <1>0, <1>1, <1>3, <2>2
  <2>3. QED
    BY <2>1, <2>2
<1>6. /\ acc' \in [Nodes -> Thread({"idle", "upgrade", "key", "connect", "add"})]
      /\ acc'[n] = IF n \in keyed THEN [acc[n] EXCEPT !.pc = "connect"] ELSE Idle
      /\ \A m \in Nodes : m # n => acc'[m] = acc[m]
  <2>1. /\ [acc[n] EXCEPT !.pc = "connect"]
             \in Thread({"idle", "upgrade", "key", "connect", "add"})
        /\ Idle \in Thread({"idle", "upgrade", "key", "connect", "add"})
    <3>1. acc[n] \in Thread({"idle", "upgrade", "key", "connect", "add"})
      BY <1>0
    <3>2. QED
      BY <1>0, <3>1 DEF Thread, Idle
  <2>2. QED
    BY <1>0, <1>3, <2>1
<1>7. /\ mishaps' \subseteq {"overlap", "stale", "keyless"} /\ mishaps \subseteq mishaps'
      /\ n \notin keyed => "keyless" \in mishaps'
  BY <1>0, <1>3 DEF Mishap
<1>8. \A m \in Nodes : IsTable(entries'[m])
  BY <1>0, <1>5
<1>9. ConnTypes'
  BY <1>3, <1>5, <1>6, <1>7, <1>8 DEF ConnTypes, netVars, worldVars, IsTable
<1>10. OthersKeep(n)
  BY <1>3, <1>5, <1>6 DEF OthersKeep
<1>11. QED
  BY <1>1, <1>5, <1>6, <1>7, <1>9, <1>10 DEF e


\* The connection back to a new peer.
LEMMA AcceptConnectEffect ==
  ASSUME ConnTypes, NEW n \in Nodes, AccShape(n), AcceptConnect(n)
  PROVE  /\ ConnTypes' /\ OthersKeep(n)
         /\ Has(n) /\ Half(entries[n][1]) /\ entries[n][1].isock = acc[n].c
         /\ DOMAIN entries'[n] = DOMAIN entries[n]
         /\ \A q \in DOMAIN entries[n] : q # 1 => entries'[n][q] = entries[n][q]
         /\ acc'[n] = [acc[n] EXCEPT !.pc = "add"]
         /\ \/ /\ Linked(n, Nodes)
               /\ entries'[n][1] = [entries[n][1] EXCEPT !.osock = made + 1]
            \/ /\ \/ Linked(n, {Other(n)})
                  \/ UNCHANGED netVars /\ Other(n) \notin up \cap reach
               /\ entries'[n][1] = [entries[n][1] EXCEPT !.osock = Oneway,
                                                         !.connectable = FALSE]
<1> DEFINE both == [entries[n][1] EXCEPT !.osock = made + 1]
           oneway == [entries[n][1] EXCEPT !.osock = Oneway, !.connectable = FALSE]
<1>0. /\ DOMAIN entries = Nodes /\ \A m \in Nodes : IsTable(entries[m])
      /\ acc \in [Nodes -> Thread({"idle", "upgrade", "key", "connect", "add"})]
      /\ MaxConns \in Nat /\ made \in Nat
  BY BoundsAssumption DEF ConnTypes
<1>1. /\ acc[n].p = 1 /\ Has(n) /\ Half(entries[n][1])
      /\ entries[n][1].isock = acc[n].c
  BY DEF AccShape, AcceptConnect, AccAt, Mine
<1>2. At(n, 1) = entries[n][1] /\ There(n, 1)
  BY <1>1 DEF At, There, Has
<1>3. /\ \/ Connected(n) /\ entries' = Set(n, 1, both)
         \/ (Refused(n) \/ TooLate(n)) /\ entries' = Set(n, 1, oneway)
      /\ acc' = [acc EXCEPT ![n].pc = "add"]
      /\ UNCHANGED <<rset, wset, dial, leaving, up, reach, keyed, mishaps>>
  BY <1>1, <1>2 DEF AcceptConnect
<1>4. /\ queue' \in [Nodes -> Seq(Conns)]
      /\ made' \in 0..MaxConns /\ ends' \in [Conns -> SUBSET Nodes]
      /\ \A m \in Nodes : \A i \in 1..Len(queue'[m]) : m \in ends'[queue'[m][i]]
      /\ \A c \in Conns : c > made' => ends'[c] = {}
      /\ troubles' \in 0..MaxTroubles
  BY <1>3, NetTypes
<1>5. \/ Linked(n, Nodes) /\ entries' = Set(n, 1, both)
      \/ /\ \/ Linked(n, {Other(n)})
            \/ UNCHANGED netVars /\ Other(n) \notin up \cap reach
         /\ entries' = Set(n, 1, oneway)
  BY <1>3, ConnectEffect
<1>6. oneway \in PeerEntry /\ (Linked(n, Nodes) => both \in PeerEntry)
  <2>1. entries[n][1] \in PeerEntry
    BY <1>0, <1>1 DEF Has, IsTable
  <2>2. QED
    BY <2>1 DEF PeerEntry, Sockets, Linked
<1> HIDE DEF both, oneway
<1>7. /\ DOMAIN entries' = Nodes
      /\ \A m \in Nodes : m # n => entries'[m] = entries[m]
      /\ IsTable(entries'[n])
      /\ DOMAIN entries'[n] = DOMAIN entries[n]
      /\ \A q \in DOMAIN entries[n] : q # 1 => entries'[n][q] = entries[n][q]
      /\ \/ Linked(n, Nodes) /\ entries'[n][1] = both
         \/ /\ \/ Linked(n, {Other(n)})
               \/ UNCHANGED netVars /\ Other(n) \notin up \cap reach
            /\ entries'[n][1] = oneway
  <2>1. CASE Linked(n, Nodes) /\ entries' = Set(n, 1, both)
    BY <1>0, <1>2, <1>6, <2>1, ChangeEntry
  <2>2. CASE /\ \/ Linked(n, {Other(n)})
                \/ UNCHANGED netVars /\ Other(n) \notin up \cap reach
             /\ entries' = Set(n, 1, oneway)
    <3>1. /\ DOMAIN entries' = Nodes
          /\ \A m \in Nodes : m # n => entries'[m] = entries[m]
          /\ IsTable(entries'[n])
          /\ DOMAIN entries'[n] = DOMAIN entries[n]
          /\ \A q \in DOMAIN entries[n] : q # 1 => entries'[n][q] = entries[n][q]
          /\ entries'[n][1] = oneway
      BY <1>0, <1>2, <1>6, <2>2, ChangeEntry
    <3>2. QED
      BY <2>2, <3>1
  <2>3. QED
    BY <1>5, <2>1, <2>2
<1>8. /\ acc' \in [Nodes -> Thread({"idle", "upgrade", "key", "connect", "add"})]
      /\ acc'[n] = [acc[n] EXCEPT !.pc = "add"]
      /\ \A m \in Nodes : m # n => acc'[m] = acc[m]
  <2>1. [acc[n] EXCEPT !.pc = "add"]
          \in Thread({"idle", "upgrade", "key", "connect", "add"})
    <3>1. acc[n] \in Thread({"idle", "upgrade", "key", "connect", "add"})
      BY <1>0
    <3>2. QED
      BY <3>1 DEF Thread
  <2>2. QED
    BY <1>0, <1>3, <2>1
<1>9. \A m \in Nodes : IsTable(entries'[m])
  BY <1>0, <1>7
<1>10. ConnTypes'
  BY <1>3, <1>4, <1>7, <1>8, <1>9 DEF ConnTypes, IsTable
<1>11. OthersKeep(n)
  BY <1>3, <1>7, <1>8 DEF OthersKeep
<1>12. QED
  BY <1>1, <1>7, <1>8, <1>10, <1>11 DEF both, oneway

\* The new peer is put into the sets.
LEMMA AcceptAddEffect ==
  ASSUME ConnTypes, NEW n \in Nodes, AccShape(n), Numbers(n), AcceptAdd(n)
  PROVE  /\ ConnTypes' /\ OthersKeep(n)
         /\ Has(n) /\ (Double(entries[n][1]) \/ Single(entries[n][1]))
         /\ entries[n][1].isock = acc[n].c
         /\ acc'[n] = Idle
         /\ rset'[n] = AddToRead(rset[n], entries[n][1])
         /\ wset'[n] = AddToWrite(wset[n], entries[n][1])
<1>0. /\ DOMAIN entries = Nodes /\ \A m \in Nodes : IsTable(entries[m])
      /\ acc \in [Nodes -> Thread({"idle", "upgrade", "key", "connect", "add"})]
      /\ rset \in [Nodes -> SUBSET Conns] /\ wset \in [Nodes -> SUBSET Conns]
      /\ MaxConns \in Nat /\ made \in Nat
  BY BoundsAssumption DEF ConnTypes
<1>1. /\ acc[n].p = 1 /\ Has(n) /\ (Double(entries[n][1]) \/ Single(entries[n][1]))
      /\ entries[n][1].isock = acc[n].c
  BY DEF AccShape, AcceptAdd, AccAt, Mine
<1>2. At(n, 1) = entries[n][1] /\ entries[n][1] \in PeerEntry
  BY <1>0, <1>1 DEF At, There, Has, IsTable
<1>3. /\ AddToSet(n, entries[n][1], rset[n], wset[n])
      /\ acc' = [acc EXCEPT ![n] = Idle]
      /\ UNCHANGED <<entries, dial, leaving, netVars, worldVars, mishaps>>
  BY <1>1, <1>2 DEF AcceptAdd
<1>4. entries[n][1].isock >= 0
  BY <1>0, <1>1 DEF Double, Single, Conns
<1>5. rset[n] \in SUBSET Conns /\ wset[n] \in SUBSET Conns
  BY <1>0
<1>6. /\ rset' \in [Nodes -> SUBSET Conns] /\ wset' \in [Nodes -> SUBSET Conns]
      /\ \A m \in Nodes : m # n => rset'[m] = rset[m] /\ wset'[m] = wset[m]
      /\ rset'[n] = AddToRead(rset[n], entries[n][1])
      /\ wset'[n] = AddToWrite(wset[n], entries[n][1])
  <2> DEFINE e == entries[n][1]
  <2>1. e \in PeerEntry /\ AddToSet(n, e, rset[n], wset[n]) /\ e.isock >= 0
    BY <1>2, <1>3, <1>4
  <2> HIDE DEF e
  <2>2. /\ rset' \in [Nodes -> SUBSET Conns] /\ wset' \in [Nodes -> SUBSET Conns]
        /\ \A k \in Nodes : k # n => rset'[k] = rset[k] /\ wset'[k] = wset[k]
        /\ rset'[n] = AddToRead(rset[n], e) /\ wset'[n] = AddToWrite(wset[n], e)
    BY <1>5, <2>1, SetTypes
  <2>3. QED
    BY <2>2 DEF e
<1>7. /\ acc' \in [Nodes -> Thread({"idle", "upgrade", "key", "connect", "add"})]
      /\ acc'[n] = Idle /\ \A m \in Nodes : m # n => acc'[m] = acc[m]
  BY <1>0, <1>3 DEF Thread, Idle
<1>8. ConnTypes'
  BY <1>3, <1>6, <1>7 DEF ConnTypes, netVars, worldVars, IsTable
<1>9. OthersKeep(n)
  BY <1>3, <1>6, <1>7 DEF OthersKeep
<1>10. QED
  BY <1>1, <1>6, <1>7, <1>8, <1>9

\* A connection ended: only the entry in the first place is found.
LEMMA ReadEndsEffect ==
  ASSUME ConnTypes, NEW n \in Nodes, One(n), Local(n), ReadEnds(n)
  PROVE  /\ ConnTypes' /\ OthersKeep(n)
         /\ Has(n) /\ leaving[n] = 0 /\ leaving'[n] = 1
         /\ Dead(RecvSock(entries[n][1]))
         /\ acc[n].pc \notin {"key", "connect", "add"}
         /\ rset'[n] \subseteq rset[n]
<1>0. /\ DOMAIN entries = Nodes /\ \A m \in Nodes : IsTable(entries[m])
      /\ rset \in [Nodes -> SUBSET Conns] /\ wset \in [Nodes -> SUBSET Conns]
      /\ leaving \in [Nodes -> Ids \cup {0}]
  BY DEF ConnTypes
<1>1. PICK p \in DOMAIN entries[n] :
        /\ RecvSock(entries[n][p]) \in rset[n] /\ Dead(RecvSock(entries[n][p]))
        /\ RemoveFromSet(n, entries[n][p])
        /\ leaving' = [leaving EXCEPT ![n] = p]
  BY DEF ReadEnds
<1>2. /\ leaving[n] = 0
      /\ UNCHANGED <<entries, acc, dial, netVars, worldVars, mishaps>>
  BY DEF ReadEnds
<1>3. RecvSock(entries[n][p]) \in Conns
  BY <1>1 DEF Dead
<1>4. p = 1
  <2>1. p \in {1, 2}
    BY DEF One
  <2>2. ASSUME p = 2
        PROVE  FALSE
    <3>1. entries[n][2] = NewEntry
      BY <2>2 DEF One, Probing, Local, DialShape
    <3>2. RecvSock(NewEntry) = NoSocket
      BY DEF RecvSock, NewEntry, NoSocket, Oneway
    <3>3. QED
      BY <1>3, <2>2, <3>1, <3>2 DEF Conns, NoSocket
  <2>3. QED
    BY <2>1, <2>2
<1>5. Has(n) /\ Dead(RecvSock(entries[n][1])) /\ RecvSock(entries[n][1]) \in rset[n]
  BY <1>1, <1>4 DEF Has
<1>6. acc[n].pc \notin {"key", "connect", "add"}
  <2>1. CASE acc[n].pc = "key"
    <3>1. entries[n][1] = NewEntry
      BY <2>1 DEF Local, AccShape, Mine
    <3>2. RecvSock(NewEntry) = NoSocket
      BY DEF RecvSock, NewEntry, NoSocket, Oneway
    <3>3. QED
      BY <1>3, <1>4, <3>1, <3>2 DEF Conns, NoSocket
  <2>2. CASE acc[n].pc \in {"connect", "add"}
    <3>1. entries[n][1].isock = acc[n].c /\ acc[n].c \in Conns
      BY <2>2 DEF Local, AccShape, Mine, Half, Double, Single
    <3>2. RecvSock(entries[n][1]) = acc[n].c
      BY <3>1 DEF RecvSock, Conns, Oneway
    <3>3. Pending(n, acc[n].c)
      BY <2>2 DEF Pending
    <3>4. acc[n].c \notin rset[n]
      BY <3>1, <3>3 DEF Local, Numbers
    <3>5. QED
      BY <1>5, <3>2, <3>4
  <2>3. QED
    BY <2>1, <2>2
<1>7. /\ rset' \in [Nodes -> SUBSET Conns] /\ wset' \in [Nodes -> SUBSET Conns]
      /\ \A m \in Nodes : m # n => rset'[m] = rset[m] /\ wset'[m] = wset[m]
      /\ rset'[n] \subseteq rset[n]
  BY <1>0, <1>1 DEF RemoveFromSet
<1>8. leaving' \in [Nodes -> Ids \cup {0}] /\ leaving'[n] = 1
      /\ \A m \in Nodes : m # n => leaving'[m] = leaving[m]
  BY <1>0, <1>1, <1>4, Places
<1>9. ConnTypes'
  BY <1>2, <1>7, <1>8 DEF ConnTypes, netVars, worldVars, IsTable
<1>10. OthersKeep(n)
  BY <1>2, <1>7, <1>8 DEF OthersKeep
<1>11. QED
  BY <1>2, <1>5, <1>6, <1>7, <1>8, <1>9, <1>10

\* The peer is removed.
LEMMA ReadRemovesEffect ==
  ASSUME ConnTypes, NEW n \in Nodes, EntryShape(n), ReadRemoves(n)
  PROVE  /\ ConnTypes' /\ OthersKeep(n)
         /\ leaving[n] = 1 /\ leaving'[n] = 0
         /\ DOMAIN entries'[n] = DOMAIN entries[n] \ {1}
         /\ \A q \in DOMAIN entries[n] : q # 1 => entries'[n][q] = entries[n][q]
<1>0. /\ DOMAIN entries = Nodes /\ \A m \in Nodes : IsTable(entries[m])
      /\ leaving \in [Nodes -> Ids \cup {0}]
  BY DEF ConnTypes
<1>1. leaving[n] = 1
  BY DEF EntryShape, ReadRemoves
<1>2. /\ entries' = Without(n, 1) /\ leaving' = [leaving EXCEPT ![n] = 0]
      /\ UNCHANGED <<rset, wset, acc, dial, netVars, worldVars, mishaps>>
  BY <1>1 DEF ReadRemoves
<1>3. /\ DOMAIN entries' = Nodes
      /\ \A m \in Nodes : m # n => entries'[m] = entries[m]
      /\ IsTable(entries'[n])
      /\ DOMAIN entries'[n] = DOMAIN entries[n] \ {1}
      /\ \A q \in DOMAIN entries[n] : q # 1 => entries'[n][q] = entries[n][q]
  BY <1>0, <1>2, TakeEntry
<1>4. \A m \in Nodes : IsTable(entries'[m])
  BY <1>0, <1>3
<1>5. ConnTypes'
  BY <1>0, <1>2, <1>3, <1>4 DEF ConnTypes, netVars, worldVars, IsTable
<1>6. OthersKeep(n)
  BY <1>0, <1>2, <1>3 DEF OthersKeep
<1>7. QED
  BY <1>0, <1>1, <1>2, <1>3, <1>5, <1>6

\* A core that goes away has nothing left, and no connection is open at both
\* ends any more.
LEMMA CrashEffect ==
  ASSUME ConnTypes, NEW n \in Nodes, Crash(n)
  PROVE  /\ ConnTypes' /\ OthersKeep(n)
         /\ up' = up \ {n} /\ UNCHANGED <<made, reach, keyed, mishaps>>
         /\ DOMAIN entries'[n] = {} /\ rset'[n] = {} /\ wset'[n] = {}
         /\ acc'[n] = Idle /\ dial'[n] = Idle /\ leaving'[n] = 0
         /\ queue'[n] = <<>> /\ \A m \in Nodes : m # n => queue'[m] = queue[m]
         /\ \A c \in Conns : ends'[c] # Nodes
<1>0. /\ up \subseteq Nodes /\ DOMAIN entries = Nodes
      /\ \A m \in Nodes : IsTable(entries[m])
      /\ rset \in [Nodes -> SUBSET Conns] /\ wset \in [Nodes -> SUBSET Conns]
      /\ acc \in [Nodes -> Thread({"idle", "upgrade", "key", "connect", "add"})]
      /\ dial \in [Nodes -> Thread({"idle", "found", "missed", "connect", "add", "key"})]
      /\ leaving \in [Nodes -> Ids \cup {0}]
      /\ queue \in [Nodes -> Seq(Conns)]
      /\ made \in 0..MaxConns /\ ends \in [Conns -> SUBSET Nodes]
      /\ \A m \in Nodes : \A i \in 1..Len(queue[m]) : m \in ends[queue[m][i]]
      /\ \A c \in Conns : c > made => ends[c] = {}
      /\ troubles \in 0..MaxTroubles
      /\ MaxConns \in Nat /\ MaxTroubles \in Nat
  BY BoundsAssumption DEF ConnTypes
<1>1. /\ troubles < MaxTroubles /\ up' = up \ {n} /\ troubles' = troubles + 1
      /\ ends' = [c \in Conns |-> ends[c] \ {n}]
      /\ queue' = [queue EXCEPT ![n] = <<>>]
      /\ entries' = [entries EXCEPT ![n] = EmptyTable]
      /\ rset' = [rset EXCEPT ![n] = {}] /\ wset' = [wset EXCEPT ![n] = {}]
      /\ acc' = [acc EXCEPT ![n] = Idle] /\ dial' = [dial EXCEPT ![n] = Idle]
      /\ leaving' = [leaving EXCEPT ![n] = 0]
      /\ UNCHANGED <<made, reach, keyed, mishaps>>
  BY DEF Crash
<1>2. /\ DOMAIN entries' = Nodes /\ \A m \in Nodes : IsTable(entries'[m])
      /\ DOMAIN entries'[n] = {} /\ \A m \in Nodes : m # n => entries'[m] = entries[m]
  <2>1. entries'[n] = EmptyTable /\ \A m \in Nodes : m # n => entries'[m] = entries[m]
    BY <1>0, <1>1
  <2>2. IsTable(EmptyTable) /\ DOMAIN EmptyTable = {}
    BY DEF IsTable, EmptyTable
  <2>3. QED
    BY <1>0, <1>1, <2>1, <2>2
<1>3. /\ acc' \in [Nodes -> Thread({"idle", "upgrade", "key", "connect", "add"})]
      /\ dial' \in [Nodes -> Thread({"idle", "found", "missed", "connect", "add", "key"})]
      /\ acc'[n] = Idle /\ dial'[n] = Idle
      /\ \A m \in Nodes : m # n => acc'[m] = acc[m] /\ dial'[m] = dial[m]
  <2>1. /\ Idle \in Thread({"idle", "upgrade", "key", "connect", "add"})
        /\ Idle \in Thread({"idle", "found", "missed", "connect", "add", "key"})
    BY <1>0 DEF Idle, Thread
  <2>2. QED
    BY <1>0, <1>1, <2>1
<1>4. /\ rset' \in [Nodes -> SUBSET Conns] /\ wset' \in [Nodes -> SUBSET Conns]
      /\ rset'[n] = {} /\ wset'[n] = {}
      /\ \A m \in Nodes : m # n => rset'[m] = rset[m] /\ wset'[m] = wset[m]
  BY <1>0, <1>1
<1>5. /\ leaving' \in [Nodes -> Ids \cup {0}] /\ leaving'[n] = 0
      /\ \A m \in Nodes : m # n => leaving'[m] = leaving[m]
  BY <1>0, <1>1
<1>6. /\ queue' \in [Nodes -> Seq(Conns)] /\ queue'[n] = <<>>
      /\ \A m \in Nodes : m # n => queue'[m] = queue[m]
  <2>1. <<>> \in Seq(Conns)
    OBVIOUS
  <2>2. QED
    BY <1>0, <1>1, <2>1
<1>7. /\ ends' \in [Conns -> SUBSET Nodes]
      /\ \A c \in Conns : ends'[c] = ends[c] \ {n}
  BY <1>0, <1>1
<1>8. \A c \in Conns : ends'[c] # Nodes /\ (c > made' => ends'[c] = {})
  BY <1>0, <1>1, <1>7
<1>9. ASSUME NEW m \in Nodes, NEW i \in 1..Len(queue'[m])
      PROVE  m \in ends'[queue'[m][i]]
  <2>1. CASE m = n
    BY <1>6, <1>9, <2>1
  <2>2. CASE m # n
    <3>1. queue[m] \in Seq(Conns) /\ queue'[m] = queue[m]
      BY <1>0, <1>6, <2>2
    <3>2. queue[m][i] \in Conns /\ m \in ends[queue[m][i]]
      BY <1>0, <1>9, <3>1
    <3>3. QED
      BY <1>7, <2>2, <3>1, <3>2
  <2>3. QED
    BY <2>1, <2>2
<1>10. troubles' \in 0..MaxTroubles
  BY <1>0, <1>1
<1>11. ConnTypes'
  <2>1. /\ up' \subseteq Nodes /\ reach' \subseteq Nodes /\ keyed' \subseteq Nodes
        /\ mishaps' \subseteq {"overlap", "stale", "keyless"} /\ made' \in 0..MaxConns
    BY <1>1 DEF ConnTypes
  <2>2. QED
    BY <1>2, <1>3, <1>4, <1>5, <1>6, <1>7, <1>8, <1>9, <1>10, <2>1
       DEF ConnTypes, IsTable
<1>12. OthersKeep(n)
  BY <1>2, <1>3, <1>4, <1>5 DEF OthersKeep
<1>13. QED
  BY <1>1, <1>2, <1>3, <1>4, <1>5, <1>6, <1>8, <1>11, <1>12


-----------------------------------------------------------------------------
\* The steps of a core, and what it keeps in order by itself

\* What the pieces of the invariant say of numbers.
LEMMA Numerals ==
  ASSUME ConnTypes
  PROVE  /\ MaxConns \in Nat /\ made \in Nat /\ made <= MaxConns
         /\ NoSocket \notin Conns /\ Oneway \notin Conns /\ NoSocket # Oneway
         /\ \A c \in Conns : c \in Nat /\ c > 0
         /\ RecvSock(NewEntry) = NoSocket
         /\ NewEntry.osock = NoSocket /\ NewEntry.isock = NoSocket
         /\ ~NewEntry.keyok /\ NewEntry.connectable
BY BoundsAssumption DEF ConnTypes, Conns, NoSocket, Oneway, RecvSock, NewEntry

\* The search of connect_to_peers.
LEMMA ProbeLocal ==
  ASSUME ConnTypes, NEW n \in Nodes, One(n), Local(n), DialProbe(n)
  PROVE  One(n)' /\ Local(n)' /\ (InSets(n) => InSets(n)')
<1>0. /\ UNCHANGED <<rset, wset, acc, leaving, queue, ends, made, up, reach>>
      /\ n \in up /\ dial[n].pc = "idle"
  BY DEF DialProbe, DialAt, netVars, worldVars
<1>1. dial[n] = [pc |-> dial[n].pc, c |-> dial[n].c, p |-> dial[n].p]
  BY DEF ConnTypes, Thread
<1>2. CASE /\ DOMAIN entries[n] = {} /\ DOMAIN entries'[n] = {1}
           /\ entries'[n][1] = NewEntry
           /\ dial'[n] = [dial[n] EXCEPT !.pc = "missed", !.p = 1]
  <2>1. dial'[n].pc = "missed" /\ dial'[n].p = 1
    BY <1>1, <1>2
  <2>2. One(n)' /\ Down(n)' /\ DialShape(n)'
    BY <1>0, <1>2, <2>1 DEF One, Down, DialShape, Mine
  <2>3. AccShape(n)' /\ EntryShape(n)'
    BY <1>0, <1>2, <2>1 DEF Local, AccShape, EntryShape, Mine, Has
  <2>4. Numbers(n)' /\ NoWay(n)' /\ Paired(n)'
    BY <1>0, <1>2, <2>1, Numerals
       DEF Local, Numbers, NoWay, Paired, Mine, Has, Pending, Queued, Double
  <2>5. InSets(n)'
    BY <1>0, <1>2, <2>1 DEF InSets, InHand, Probing
  <2>6. QED
    BY <2>2, <2>3, <2>4, <2>5 DEF Local
<1>3. CASE /\ DOMAIN entries[n] = {1} /\ DOMAIN entries'[n] = {1, 2}
           /\ entries'[n][1] = entries[n][1] /\ entries'[n][2] = NewEntry
           /\ dial'[n] = [dial[n] EXCEPT !.pc = "found", !.p = 2]
  <2>1. dial'[n].pc = "found" /\ dial'[n].p = 2
    BY <1>1, <1>3
  <2>2. One(n)' /\ Down(n)' /\ DialShape(n)'
    BY <1>0, <1>3, <2>1 DEF One, Down, DialShape, Mine, Probing
  <2>3. AccShape(n)' /\ EntryShape(n)'
    BY <1>0, <1>3, <2>1 DEF Local, AccShape, EntryShape, Mine, Has, Dead
  <2>4. Numbers(n)' /\ NoWay(n)' /\ Paired(n)'
    BY <1>0, <1>3, <2>1
       DEF Local, Numbers, NoWay, Paired, Mine, Has, Pending, Queued, Dead
  <2>5. InSets(n) => InSets(n)'
    BY <1>0, <1>3, <2>1 DEF InSets, InHand, Probing, Has, Mine
  <2>6. QED
    BY <2>2, <2>3, <2>4, <2>5 DEF Local
<1>4. QED
  BY <1>2, <1>3, ProbeEffect

\* Its end.
LEMMA UnprobeLocal ==
  ASSUME ConnTypes, NEW n \in Nodes, One(n), Local(n), DialUnprobe(n)
  PROVE  One(n)' /\ Local(n)' /\ (InSets(n) => InSets(n)')
<1>0. /\ UNCHANGED <<rset, wset, acc, leaving, queue, ends, made, up, reach>>
      /\ n \in up
  BY DEF DialUnprobe, DialAt, netVars, worldVars
<1>1. CASE dial[n].pc = "found" /\ dial'[n] = Idle
  <2>1. /\ dial'[n].pc = "idle" /\ dial[n].p = 2
        /\ DOMAIN entries'[n] = DOMAIN entries[n] \ {2}
        /\ Has(n) => entries'[n][1] = entries[n][1]
    BY <1>1, UnprobeEffect DEF Idle, Local, DialShape, Has
  <2>2. One(n)' /\ Down(n)' /\ DialShape(n)'
    BY <1>0, <2>1 DEF One, Down, DialShape
  <2>3. AccShape(n)' /\ EntryShape(n)'
    BY <1>0, <2>1 DEF Local, AccShape, EntryShape, Mine, Has, Dead
  <2>4. Numbers(n)' /\ NoWay(n)' /\ Paired(n)'
    BY <1>0, <2>1
       DEF Local, Numbers, NoWay, Paired, Mine, Has, Pending, Queued, Dead
  <2>5. InSets(n) => InSets(n)'
    BY <1>0, <1>1, <2>1 DEF InSets, InHand, Probing, Has, Mine
  <2>6. QED
    BY <2>2, <2>3, <2>4, <2>5 DEF Local
<1>2. CASE dial[n].pc = "missed" /\ dial'[n] = [Idle EXCEPT !.pc = "connect"]
  <2>1. /\ dial'[n].pc = "connect" /\ dial[n].p = 1
        /\ DOMAIN entries[n] = {1} /\ DOMAIN entries'[n] = {}
        /\ entries[n][1] = NewEntry
    BY <1>2, UnprobeEffect DEF Idle, Local, DialShape, Mine
  <2>2. One(n)' /\ Down(n)' /\ DialShape(n)'
    BY <1>0, <2>1 DEF One, Down, DialShape
  <2>3. leaving[n] = 0 /\ acc[n].pc \notin {"key", "connect", "add"}
    BY <1>2, <2>1, Numerals DEF Local, AccShape, EntryShape, Mine, Dead
  <2>4. AccShape(n)' /\ EntryShape(n)'
    BY <1>0, <2>1, <2>3 DEF AccShape, EntryShape, Has
  <2>5. Numbers(n)' /\ NoWay(n)' /\ Paired(n)' /\ InSets(n)'
    BY <1>0, <2>1
       DEF Local, Numbers, NoWay, Paired, Has, Pending, Queued, InSets
  <2>6. QED
    BY <2>2, <2>4, <2>5 DEF Local
<1>3. QED
  BY <1>1, <1>2, UnprobeEffect


\* The connection of connect_to_peers.
LEMMA DialConnectLocal ==
  ASSUME ConnTypes, NEW n \in Nodes, One(n), Local(n), DialConnect(n)
  PROVE  One(n)' /\ Local(n)' /\ InSets(n)'
<1>0. /\ UNCHANGED <<entries, rset, wset, acc, leaving, up, reach>>
      /\ n \in up /\ dial[n].pc = "connect"
  BY DEF DialConnect, DialAt
<1>1. DOMAIN entries[n] = {} /\ ~Has(n) /\ ~Has(n)' /\ leaving[n] = 0
  BY <1>0 DEF Local, DialShape, EntryShape, Has
<1>2. /\ queue'[n] = queue[n] /\ made' \in {made, made + 1}
      /\ \/ dial'[n].pc = "add" /\ dial'[n].c = made + 1 /\ made' = made + 1
         \/ dial'[n].pc = "idle"
  BY DialConnectEffect DEF Linked, netVars, Idle
<1>3. One(n)' /\ Down(n)' /\ DialShape(n)'
  BY <1>0, <1>1, <1>2 DEF One, Down, DialShape
<1>4. AccShape(n)' /\ EntryShape(n)' /\ InSets(n)'
  BY <1>0, <1>1 DEF Local, AccShape, EntryShape, InSets
<1>5. Numbers(n)'
  <2>1. \A c \in Conns : (Pending(n, c)' <=> Pending(n, c)) /\ (Queued(n, c)' <=> Queued(n, c))
    BY <1>0, <1>2 DEF Pending, Queued
  <2>2. /\ \A c \in Conns : Pending(n, c) => c <= made /\ c \notin rset[n]
        /\ acc[n].pc # "idle" => acc[n].c \in 1..made /\ ~Queued(n, acc[n].c)
        /\ \A i, j \in 1..Len(queue[n]) : queue[n][i] = queue[n][j] => i = j
        /\ \A c \in rset[n] : c <= made
    BY DEF Local, Numbers
  <2>3. rset[n] \subseteq Conns
    BY DEF ConnTypes
  <2>4. \A c \in Conns : Pending(n, c)' => c <= made' /\ c \notin rset'[n]
    BY <1>0, <1>2, <2>1, <2>2, Numerals
  <2>5. acc'[n].pc # "idle" => acc'[n].c \in 1..made' /\ ~Queued(n, acc[n].c)'
    <3>1. Queued(n, acc[n].c)' <=> Queued(n, acc[n].c)
      BY <1>0, <1>2 DEF Queued
    <3>2. QED
      BY <1>0, <1>2, <2>2, <3>1, Numerals
  <2>6. dial'[n].pc = "add" => dial'[n].c \in 1..made' /\ ~Pending(n, dial[n].c)'
    <3>1. ASSUME dial'[n].pc = "add"
          PROVE  dial'[n].c = made + 1 /\ made' = made + 1
      BY <1>2, <3>1
    <3>2. ASSUME dial'[n].pc = "add", Pending(n, dial[n].c)'
          PROVE  FALSE
      <4>1. Pending(n, made + 1)
        BY <1>0, <1>2, <3>1, <3>2 DEF Pending, Queued
      <4>2. made + 1 \in Conns
        BY <3>1, <3>2, DialConnectEffect, Numerals DEF Linked, netVars
      <4>3. QED
        BY <2>2, <4>1, <4>2, Numerals
    <3>3. QED
      BY <3>1, <3>2, Numerals
  <2>7. \A c \in rset'[n] : c <= made'
    BY <1>0, <1>2, <2>2, <2>3, Numerals
  <2>8. \A i, j \in 1..Len(queue'[n]) : queue'[n][i] = queue'[n][j] => i = j
    BY <1>2, <2>2
  <2>9. QED
    BY <1>1, <2>4, <2>5, <2>6, <2>7, <2>8 DEF Numbers
<1>6. NoWay(n)' /\ Paired(n)'
  BY <1>0, <1>1, <1>2 DEF Local, NoWay, Paired
<1>7. QED
  BY <1>3, <1>4, <1>5, <1>6 DEF Local

\* The dialled entry.
LEMMA DialAddLocal ==
  ASSUME ConnTypes, NEW n \in Nodes, One(n), Local(n), DialAdd(n)
  PROVE  One(n)' /\ Local(n)' /\ InSets(n)'
<1>0. /\ UNCHANGED <<acc, leaving, queue, ends, made, up, reach>>
      /\ n \in up /\ dial[n].pc = "add"
  BY DEF DialAdd, DialAt, netVars, worldVars
<1> DEFINE c == dial[n].c
<1>1. /\ DOMAIN entries[n] = {} /\ DOMAIN entries'[n] = {1}
      /\ entries'[n][1] = [NewEntry EXCEPT !.osock = c, !.isock = Oneway]
      /\ rset'[n] = rset[n] \cup {c} /\ wset'[n] = wset[n] \cup {c}
      /\ dial'[n] = [dial[n] EXCEPT !.pc = "key", !.p = 1]
      /\ c \in Conns
  BY DialAddEffect DEF Local
<1>2. /\ Mine(n)'.osock = c /\ Mine(n)'.isock = Oneway /\ Mine(n)'.connectable
      /\ Has(n)' /\ ~Has(n)
  BY <1>1 DEF Mine, NewEntry, Has
<1>3. dial'[n].pc = "key" /\ dial'[n].p = 1
  <2>1. dial[n] = [pc |-> dial[n].pc, c |-> dial[n].c, p |-> dial[n].p]
    BY DEF ConnTypes, Thread
  <2>2. QED
    BY <1>1, <2>1
<1>4. leaving[n] = 0 /\ acc[n].pc \notin {"key", "connect", "add"}
  BY <1>0, <1>2 DEF Local, EntryShape, AccShape
<1>5. c <= made /\ ~Pending(n, c)
  BY <1>0 DEF Local, Numbers
<1> HIDE DEF c
<1>6. Dialled(Mine(n))'
  BY <1>1, <1>2 DEF Dialled
<1>7. One(n)' /\ Down(n)' /\ DialShape(n)'
  BY <1>0, <1>1, <1>2, <1>3, <1>6 DEF One, Down, DialShape
<1>8. AccShape(n)' /\ EntryShape(n)'
  BY <1>0, <1>2, <1>4, <1>6 DEF AccShape, EntryShape
<1>9. Numbers(n)'
  <2>1. \A d \in Conns : (Pending(n, d)' <=> Pending(n, d)) /\ (Queued(n, d)' <=> Queued(n, d))
    BY <1>0 DEF Pending, Queued
  <2>2. QED
    BY <1>0, <1>1, <1>2, <1>3, <1>5, <2>1, Numerals DEF Local, Numbers, Queued
<1>10. NoWay(n)' /\ Paired(n)'
  BY <1>0, <1>2, Numerals DEF Local, NoWay, Paired, Double
<1>11. InSets(n)'
  <2>1. RecvSock(Mine(n))' = c /\ SendSock(Mine(n))' = c
    BY <1>1, <1>2, Numerals DEF RecvSock, SendSock
  <2>2. QED
    BY <1>1, <2>1 DEF InSets
<1>12. QED
  BY <1>7, <1>8, <1>9, <1>10, <1>11 DEF Local

\* The key of the dialled entry.
LEMMA DialKeyLocal ==
  ASSUME ConnTypes, NEW n \in Nodes, One(n), Local(n), DialKey(n)
  PROVE  One(n)' /\ Local(n)' /\ (InSets(n) => InSets(n)')
<1>0. /\ UNCHANGED <<rset, wset, acc, leaving, queue, ends, made, up, reach>>
      /\ n \in up /\ dial[n].pc = "key"
  BY DEF DialKey, DialAt, netVars, worldVars
<1>1. /\ DOMAIN entries'[n] = DOMAIN entries[n]
      /\ Has(n) => entries'[n][1] = IF n \in keyed
              THEN [entries[n][1] EXCEPT !.isock = Oneway, !.keyok = TRUE]
              ELSE entries[n][1]
      /\ dial'[n] = Idle
  BY DialKeyEffect DEF Local
<1>2. Has(n)' <=> Has(n)
  BY <1>1 DEF Has
<1>3. Has(n) => Mine(n) \in PeerEntry /\ Dialled(Mine(n))
  BY <1>0 DEF ConnTypes, IsTable, Has, Mine, Local, DialShape
<1>4. Has(n) => /\ Mine(n)'.osock = Mine(n).osock /\ Mine(n)'.isock = Oneway
                /\ Mine(n)'.connectable
  <2>1. CASE n \in keyed
    <3>1. Has(n) => entries'[n][1] = [entries[n][1] EXCEPT !.isock = Oneway, !.keyok = TRUE]
      BY <1>1, <2>1
    <3>2. QED
      BY <1>3, <3>1 DEF Mine, PeerEntry, Dialled
  <2>2. CASE n \notin keyed
    <3>1. Has(n) => entries'[n][1] = entries[n][1]
      BY <1>1, <2>2
    <3>2. QED
      BY <1>3, <3>1 DEF Mine, Dialled
  <2>3. QED
    BY <2>1, <2>2
<1>5. dial'[n].pc = "idle"
  BY <1>1 DEF Idle
<1>6. Has(n) => Dialled(Mine(n))'
  BY <1>3, <1>4 DEF Dialled
<1>7. Has(n) => RecvSock(Mine(n))' = RecvSock(Mine(n)) /\ SendSock(Mine(n))' = SendSock(Mine(n))
  BY <1>3, <1>4, Numerals DEF RecvSock, SendSock, Dialled
<1>8. One(n)' /\ Down(n)' /\ DialShape(n)'
  BY <1>0, <1>1, <1>5 DEF One, Down, DialShape, Probing
<1>9. acc[n].pc \notin {"key", "connect", "add"}
  BY <1>0 DEF Local, AccShape
<1>10. AccShape(n)' /\ EntryShape(n)'
  BY <1>0, <1>2, <1>6, <1>7, <1>9 DEF Local, AccShape, EntryShape, Dead
<1>11. Numbers(n)'
  <2>1. \A d \in Conns : (Pending(n, d)' <=> Pending(n, d)) /\ (Queued(n, d)' <=> Queued(n, d))
    BY <1>0 DEF Pending, Queued
  <2>2. QED
    BY <1>0, <1>2, <1>4, <1>5, <2>1, Numerals DEF Local, Numbers, Queued
<1>12. NoWay(n)' /\ Paired(n)'
  BY <1>0, <1>2, <1>4, Numerals DEF Local, NoWay, Paired, Double
<1>13. InSets(n) => InSets(n)'
  BY <1>0, <1>2, <1>5, <1>7, <1>9 DEF InSets, InHand, Probing
<1>14. QED
  BY <1>8, <1>10, <1>11, <1>12, <1>13 DEF Local


\* Taking the head off a queue without repetitions.
LEMMA TakeHead ==
  ASSUME NEW q \in Seq(Conns), q # <<>>,
         \A i, j \in 1..Len(q) : q[i] = q[j] => i = j
  PROVE  /\ \A c : (\E i \in 1..Len(q) : q[i] = c)
                     <=> (c = Head(q) \/ \E i \in 1..Len(Tail(q)) : Tail(q)[i] = c)
         /\ ~\E i \in 1..Len(Tail(q)) : Tail(q)[i] = Head(q)
         /\ \A i, j \in 1..Len(Tail(q)) : Tail(q)[i] = Tail(q)[j] => i = j
         /\ Tail(q) # <<>> => Tail(q)[Len(Tail(q))] = q[Len(q)]
         /\ Tail(q) = <<>> => Head(q) = q[Len(q)]
<1>1. /\ Len(q) \in Nat /\ Len(q) >= 1 /\ Len(Tail(q)) = Len(q) - 1
      /\ Head(q) = q[1] /\ Tail(q) \in Seq(Conns)
      /\ \A i \in 1..Len(Tail(q)) : Tail(q)[i] = q[i + 1]
  OBVIOUS
<1>2. \A i \in 1..Len(Tail(q)) : i + 1 \in 1..Len(q) /\ i + 1 # 1
  BY <1>1
<1>3. \A i \in 1..Len(q) : i = 1 \/ (i - 1 \in 1..Len(Tail(q)) /\ (i - 1) + 1 = i)
  BY <1>1
<1>4. \A c : (\E i \in 1..Len(q) : q[i] = c)
               <=> (c = Head(q) \/ \E i \in 1..Len(Tail(q)) : Tail(q)[i] = c)
  <2>1. ASSUME NEW c, NEW i \in 1..Len(q), q[i] = c
        PROVE  c = Head(q) \/ \E k \in 1..Len(Tail(q)) : Tail(q)[k] = c
    <3>1. CASE i = 1
      BY <1>1, <2>1, <3>1
    <3>2. CASE i # 1
      <4>1. i - 1 \in 1..Len(Tail(q)) /\ (i - 1) + 1 = i
        BY <1>3, <3>2
      <4>2. Tail(q)[i - 1] = c
        BY <1>1, <2>1, <4>1
      <4>3. QED
        BY <4>1, <4>2
    <3>3. QED
      BY <3>1, <3>2
  <2>2. ASSUME NEW c, c = Head(q) \/ \E i \in 1..Len(Tail(q)) : Tail(q)[i] = c
        PROVE  \E i \in 1..Len(q) : q[i] = c
    BY <1>1, <1>2, <2>2
  <2>3. QED
    BY <2>1, <2>2
<1>5. ~\E i \in 1..Len(Tail(q)) : Tail(q)[i] = Head(q)
  <2>1. 1 \in 1..Len(q)
    BY <1>1
  <2>2. QED
    BY <1>1, <1>2, <2>1
<1>6. \A i, j \in 1..Len(Tail(q)) : Tail(q)[i] = Tail(q)[j] => i = j
  BY <1>1, <1>2
<1>7. Tail(q) # <<>> => Tail(q)[Len(Tail(q))] = q[Len(q)]
  <2>1. Tail(q) # <<>> => Len(Tail(q)) \in 1..Len(Tail(q))
    BY <1>1
  <2>2. QED
    BY <1>1, <2>1
<1>8. Tail(q) = <<>> => Head(q) = q[Len(q)]
  <2>1. Tail(q) = <<>> => Len(q) = 1
    BY <1>1
  <2>2. QED
    BY <1>1, <2>1
<1>9. QED
  BY <1>4, <1>5, <1>6, <1>7, <1>8

\* accept
LEMMA TakeLocal ==
  ASSUME ConnTypes, NEW n \in Nodes, One(n), Local(n), AcceptTake(n)
  PROVE  One(n)' /\ (Orderly' => Local(n)') /\ (InSets(n) => InSets(n)')
<1>0. /\ UNCHANGED <<rset, wset, dial, leaving, ends, made, up, reach>>
      /\ n \in up /\ acc[n].pc = "idle"
  BY DEF AcceptTake, AccAt, worldVars
<1> DEFINE q == queue[n]
<1>1. /\ q # <<>> /\ queue'[n] = Tail(q) /\ q \in Seq(Conns) /\ Head(q) \in Conns
      /\ acc'[n].c = Head(q) /\ acc'[n].pc # "idle"
      /\ Orderly' => dial[n].pc \notin {"missed", "connect", "add", "key"}
  BY TakeEffect DEF Orderly
<1>2. \A i, j \in 1..Len(q) : q[i] = q[j] => i = j
  BY DEF Local, Numbers
<1>3. /\ \A c : (\E i \in 1..Len(q) : q[i] = c)
                  <=> (c = Head(q) \/ \E i \in 1..Len(Tail(q)) : Tail(q)[i] = c)
      /\ ~\E i \in 1..Len(Tail(q)) : Tail(q)[i] = Head(q)
      /\ \A i, j \in 1..Len(Tail(q)) : Tail(q)[i] = Tail(q)[j] => i = j
  BY <1>1, <1>2, TakeHead
<1>4. \A c : Pending(n, c)' <=> Pending(n, c)
  <2>1. \A c : Queued(n, c) <=> \E i \in 1..Len(q) : q[i] = c
    BY DEF Queued
  <2>2. \A c : Queued(n, c)' <=> \E i \in 1..Len(Tail(q)) : Tail(q)[i] = c
    BY <1>1 DEF Queued
  <2>3. \A c : Queued(n, c) <=> (c = Head(q) \/ Queued(n, c)')
    BY <1>3, <2>1, <2>2
  <2>4. QED
    BY <1>0, <1>1, <2>3 DEF Pending
<1>5. /\ ~Queued(n, acc[n].c)'
      /\ \A i, j \in 1..Len(queue'[n]) : queue'[n][i] = queue'[n][j] => i = j
  BY <1>1, <1>3 DEF Queued
<1>6. Head(q) <= made
  <2>1. Pending(n, Head(q))
    BY <1>3 DEF Pending, Queued
  <2>2. QED
    BY <1>1, <2>1 DEF Local, Numbers
<1>7. CASE /\ DOMAIN entries[n] # {} /\ entries' = entries
           /\ acc'[n].pc = "upgrade"
  <2>1. One(n)'
    BY <1>0, <1>7 DEF One, Probing
  <2>2. Down(n)' /\ DialShape(n)' /\ AccShape(n)' /\ EntryShape(n)'
    BY <1>0, <1>7
       DEF Local, Down, DialShape, AccShape, EntryShape, Has, Mine, Dead
  <2>3. Numbers(n)'
    BY <1>0, <1>1, <1>4, <1>5, <1>6, <1>7, Numerals DEF Local, Numbers, Has, Mine
  <2>4. n \in reach
    BY <1>1 DEF Local, NoWay
  <2>5. NoWay(n)' /\ Paired(n)'
    BY <1>0, <1>7, <2>4 DEF Local, NoWay, Paired, Has, Mine, Dead
  <2>6. InSets(n) => InSets(n)'
    BY <1>0, <1>7 DEF InSets, InHand, Probing, Has, Mine
  <2>7. QED
    BY <2>1, <2>2, <2>3, <2>5, <2>6 DEF Local
<1>8. CASE /\ DOMAIN entries[n] = {} /\ DOMAIN entries'[n] = {1}
           /\ entries'[n][1] = NewEntry
           /\ acc'[n].pc = "key" /\ acc'[n].p = 1
  <2>1. One(n)'
    BY <1>8 DEF One
  <2>2. leaving[n] = 0
    BY <1>8 DEF Local, EntryShape, Has
  <2>3. Orderly' => dial[n].pc = "idle"
    <3>1. dial[n].pc \in {"idle", "found", "missed", "connect", "add", "key"}
      BY DEF ConnTypes, Thread
    <3>2. dial[n].pc # "found"
      BY <1>8 DEF Local, DialShape
    <3>3. QED
      BY <1>1, <3>1, <3>2
  <2>4. Orderly' => Down(n)' /\ DialShape(n)' /\ AccShape(n)' /\ EntryShape(n)'
    BY <1>0, <1>8, <2>2, <2>3 DEF Down, DialShape, AccShape, EntryShape, Has, Mine
  <2>5. Orderly' => Numbers(n)'
    BY <1>0, <1>1, <1>4, <1>5, <1>6, <1>8, <2>3, Numerals DEF Local, Numbers, Has, Mine
  <2>6. n \in reach
    BY <1>1 DEF Local, NoWay
  <2>7. NoWay(n)' /\ Paired(n)'
    BY <1>0, <1>8, <2>6, Numerals DEF NoWay, Paired, Has, Mine, Double
  <2>8. InSets(n)'
    BY <1>8 DEF InSets, InHand
  <2>9. QED
    BY <2>1, <2>4, <2>5, <2>7, <2>8 DEF Local
<1>9. QED
  BY <1>7, <1>8, TakeEffect

\* The upgrade.
LEMMA UpgradeLocal ==
  ASSUME ConnTypes, NEW n \in Nodes, One(n), Local(n), AcceptUpgrade(n)
  PROVE  One(n)' /\ (Orderly' => Local(n)') /\ (mishaps' = {} => InSets(n)')
<1>0. /\ UNCHANGED <<dial, leaving, queue, ends, made, up, reach>>
      /\ n \in up /\ acc[n].pc = "upgrade"
  BY DEF AcceptUpgrade, AccAt, worldVars, netVars
<1>1. One(n)'
  BY <1>0, UpgradeEffect DEF One, Probing, Local
<1>2. SUFFICES ASSUME Orderly'
               PROVE  Local(n)' /\ (mishaps' = {} => InSets(n)')
  BY <1>1 DEF Orderly
<1> DEFINE c == acc[n].c
           e == entries[n][1]
           new == Upgraded(e, c)
<1>3. /\ c \in Conns /\ acc'[n] = Idle
      /\ DOMAIN entries'[n] = DOMAIN entries[n]
      /\ Has(n) /\ leaving[n] # 1 /\ dial[n].pc # "key"
      /\ e.isock = Oneway /\ ~Dead(e.osock)
      /\ \A q \in DOMAIN entries[n] : q # 1 => entries'[n][q] = entries[n][q]
      /\ n \notin keyed => "keyless" \in mishaps'
      /\ n \in keyed => /\ entries'[n][1] = new
                        /\ rset'[n] = AddToRead(rset[n] \ {new.osock}, new)
                        /\ wset'[n] = AddToWrite(wset[n] \ {new.osock}, new)
      /\ n \notin keyed => /\ entries'[n][1] = [e EXCEPT !.keyok = FALSE]
                           /\ rset'[n] = rset[n] /\ wset'[n] = wset[n]
  BY <1>2, UpgradeEffect DEF Local
<1>4. Dialled(e) /\ e \in PeerEntry
  <2>1. e \in PeerEntry
    BY <1>3 DEF ConnTypes, IsTable, Has
  <2>2. QED
    BY <1>3, <2>1, Numerals
       DEF Local, EntryShape, Mine, Dialled, Double, Single, Half
<1>5. e.osock # c /\ e.osock <= made /\ c <= made /\ ~Queued(n, c)
  BY <1>0, <1>3, <1>4 DEF Local, Numbers, Mine, Pending, Dialled
<1>6. /\ new.osock = e.osock /\ new.isock = c /\ new.connectable
      /\ [e EXCEPT !.keyok = FALSE].osock = e.osock
      /\ [e EXCEPT !.keyok = FALSE].isock = e.isock
      /\ [e EXCEPT !.keyok = FALSE].connectable
  BY <1>4 DEF Upgraded, PeerEntry, Dialled
<1>7. /\ Has(n)' /\ Mine(n)'.osock = e.osock /\ Mine(n)'.connectable
      /\ n \in keyed => Mine(n)'.isock = c
      /\ n \notin keyed => Mine(n)'.isock = Oneway
  BY <1>3, <1>6 DEF Has, Mine
<1>8. IF n \in keyed THEN Double(Mine(n))' ELSE Dialled(Mine(n))'
  BY <1>3, <1>4, <1>5, <1>7 DEF Double, Dialled
<1>9. dial[n].pc \in {"idle", "found"} /\ leaving[n] = 0 /\ acc'[n].pc = "idle"
  <2>1. dial[n].pc \in {"idle", "found", "missed", "connect", "add", "key"}
    BY DEF ConnTypes, Thread
  <2>2. dial[n].pc # "missed"
    BY <1>3, Numerals DEF Local, DialShape, Mine
  <2>3. dial[n].pc \notin {"connect", "add"}
    BY <1>3 DEF Local, DialShape, Has
  <2>4. QED
    BY <1>3, <2>1, <2>2, <2>3 DEF Local, EntryShape, Idle
<1>10. Down(n)' /\ DialShape(n)' /\ AccShape(n)' /\ EntryShape(n)'
  BY <1>0, <1>3, <1>7, <1>8, <1>9
     DEF Local, Down, DialShape, AccShape, EntryShape, Has
<1>11. rset'[n] \subseteq rset[n] \cup {c}
  BY <1>3, <1>6, Numerals DEF AddToRead
<1>12. \A d \in Conns : /\ Pending(n, d)' => Queued(n, d)
                        /\ Queued(n, d)' <=> Queued(n, d)
  BY <1>0, <1>9 DEF Pending, Queued
<1>13. Numbers(n)'
  <2>1. \A d \in Conns : Queued(n, d) => Pending(n, d) /\ d # c
    BY <1>5 DEF Pending
  <2>2. ~Pending(n, e.osock)
    BY <1>3, <1>4 DEF Local, Numbers, Mine, Dialled
  <2>3. QED
    BY <1>0, <1>3, <1>4, <1>5, <1>7, <1>9, <1>11, <1>12, <2>1, <2>2, Numerals
       DEF Local, Numbers, Dialled
<1>14. n \in reach
  BY <1>0 DEF Local, NoWay
<1>15. NoWay(n)' /\ Paired(n)'
  BY <1>0, <1>3, <1>7, <1>14 DEF NoWay, Paired, Dead
<1>16. mishaps' = {} => InSets(n)'
  <2>1. ASSUME n \in keyed
        PROVE  RecvSock(Mine(n))' = c /\ SendSock(Mine(n))' = e.osock
    BY <1>3, <1>4, <1>7, <2>1, Numerals DEF RecvSock, SendSock, Dialled
  <2>2. ASSUME n \in keyed
        PROVE  c \in rset'[n] /\ e.osock \in wset'[n]
    BY <1>3, <1>4, <1>6, <2>2, Numerals DEF AddToRead, AddToWrite, Dialled
  <2>3. QED
    BY <1>3, <2>1, <2>2 DEF InSets
<1>17. QED
  BY <1>10, <1>13, <1>15, <1>16 DEF Local


\* A new peer's key.
LEMMA AcceptKeyLocal ==
  ASSUME ConnTypes, NEW n \in Nodes, One(n), Local(n), AcceptKey(n)
  PROVE  One(n)' /\ Local(n)' /\ (mishaps' = {} => InSets(n)')
<1>0. /\ UNCHANGED <<rset, wset, dial, leaving, queue, ends, made, up, reach>>
      /\ n \in up /\ acc[n].pc = "key"
  BY DEF AcceptKey, AccAt, worldVars, netVars
<1> DEFINE c == acc[n].c
<1>1. /\ Has(n) /\ c \in Conns
      /\ DOMAIN entries'[n] = DOMAIN entries[n]
      /\ \A q \in DOMAIN entries[n] : q # 1 => entries'[n][q] = entries[n][q]
      /\ n \notin keyed => "keyless" \in mishaps'
      /\ n \in keyed =>
            /\ entries'[n][1] = [NewEntry EXCEPT !.isock = c, !.keyok = TRUE]
            /\ acc'[n] = [acc[n] EXCEPT !.pc = "connect"]
      /\ n \notin keyed => entries'[n][1] = NewEntry /\ acc'[n] = Idle
  BY AcceptKeyEffect DEF Local
<1>2. /\ Has(n)' /\ Mine(n)'.osock = NoSocket /\ Mine(n)'.connectable
      /\ n \in keyed => Mine(n)'.isock = c
      /\ n \notin keyed => Mine(n)' = NewEntry /\ Mine(n)'.isock = NoSocket
  <2>1. CASE n \in keyed
    <3>1. entries'[n][1] = [NewEntry EXCEPT !.isock = c, !.keyok = TRUE]
      BY <1>1, <2>1
    <3>2. QED
      BY <1>1, <2>1, <3>1 DEF Has, Mine, NewEntry
  <2>2. CASE n \notin keyed
    BY <1>1, <2>2, Numerals DEF Has, Mine
  <2>3. QED
    BY <2>1, <2>2
<1>3. /\ n \in keyed => acc'[n].pc = "connect" /\ acc'[n].c = c /\ acc'[n].p = 1
      /\ n \notin keyed => acc'[n].pc = "idle"
  <2>1. acc[n] = [pc |-> acc[n].pc, c |-> acc[n].c, p |-> acc[n].p] /\ acc[n].p = 1
    BY <1>0 DEF ConnTypes, Thread, Local, AccShape
  <2>2. QED
    BY <1>1, <2>1 DEF Idle
<1>4. leaving[n] = 0 /\ dial[n].pc \in {"idle", "found"} /\ c <= made /\ ~Queued(n, c)
  BY <1>0, Numerals DEF Local, AccShape, Numbers
<1>5. n \in keyed => Half(Mine(n))'
  BY <1>1, <1>2 DEF Half
<1>6. n \in reach
  BY <1>0 DEF Local, NoWay
<1>7. One(n)'
  BY <1>0, <1>1 DEF One, Probing
<1>8. Down(n)' /\ DialShape(n)'
  BY <1>0, <1>1, <1>4 DEF Local, Down, DialShape
<1>9. AccShape(n)' /\ EntryShape(n)'
  BY <1>0, <1>2, <1>3, <1>4, <1>5 DEF AccShape, EntryShape
<1>10. \A d \in Conns : /\ Pending(n, d)' => Pending(n, d)
                        /\ Queued(n, d)' <=> Queued(n, d)
  BY <1>0, <1>3 DEF Pending, Queued
<1>11. Numbers(n)'
  BY <1>0, <1>1, <1>2, <1>3, <1>4, <1>10, Numerals DEF Local, Numbers
<1>12. NoWay(n)' /\ Paired(n)'
  BY <1>0, <1>2, <1>6, Numerals DEF NoWay, Paired, Double
<1>13. mishaps' = {} => InSets(n)'
  BY <1>1, <1>3 DEF InSets, InHand
<1>14. QED
  BY <1>7, <1>8, <1>9, <1>11, <1>12, <1>13 DEF Local

\* The connection back.
LEMMA AcceptConnectLocal ==
  ASSUME ConnTypes, NEW n \in Nodes, One(n), Local(n), AcceptConnect(n)
  PROVE  One(n)' /\ Local(n)' /\ InSets(n)'
<1>0. /\ UNCHANGED <<rset, wset, dial, leaving, up, reach>>
      /\ n \in up /\ acc[n].pc = "connect"
  BY DEF AcceptConnect, AccAt
<1> DEFINE e == entries[n][1]
<1>1. /\ Has(n) /\ Half(e) /\ e.isock = acc[n].c
      /\ DOMAIN entries'[n] = DOMAIN entries[n]
      /\ \A q \in DOMAIN entries[n] : q # 1 => entries'[n][q] = entries[n][q]
      /\ acc'[n] = [acc[n] EXCEPT !.pc = "add"]
      /\ \/ Linked(n, Nodes) /\ entries'[n][1] = [e EXCEPT !.osock = made + 1]
         \/ /\ \/ Linked(n, {Other(n)})
               \/ UNCHANGED netVars
            /\ entries'[n][1] = [e EXCEPT !.osock = Oneway, !.connectable = FALSE]
  BY AcceptConnectEffect DEF Local
<1>2. e \in PeerEntry /\ e.isock \in Conns /\ e.connectable /\ e.osock = NoSocket
  BY <1>1 DEF ConnTypes, IsTable, Has, Half
<1>3. /\ Has(n)' /\ Mine(n)'.isock = acc[n].c
      /\ \/ /\ Linked(n, Nodes) /\ Mine(n)'.osock = made + 1 /\ Mine(n)'.connectable
         \/ /\ Mine(n)'.osock = Oneway /\ ~Mine(n)'.connectable
  <2>1. /\ [e EXCEPT !.osock = made + 1].osock = made + 1
        /\ [e EXCEPT !.osock = made + 1].isock = e.isock
        /\ [e EXCEPT !.osock = made + 1].connectable
    BY <1>2 DEF PeerEntry
  <2>2. /\ [e EXCEPT !.osock = Oneway, !.connectable = FALSE].osock = Oneway
        /\ [e EXCEPT !.osock = Oneway, !.connectable = FALSE].isock = e.isock
        /\ ~[e EXCEPT !.osock = Oneway, !.connectable = FALSE].connectable
    BY <1>2 DEF PeerEntry
  <2> HIDE DEF e
  <2>3. Has(n)' /\ Mine(n)' = entries'[n][1]
    BY <1>1 DEF Has, Mine
  <2>4. CASE Linked(n, Nodes) /\ entries'[n][1] = [e EXCEPT !.osock = made + 1]
    BY <1>1, <2>1, <2>3, <2>4
  <2>5. CASE entries'[n][1] = [e EXCEPT !.osock = Oneway, !.connectable = FALSE]
    BY <1>1, <2>2, <2>3, <2>5
  <2>6. QED
    BY <1>1, <2>4, <2>5
<1>4. acc'[n].pc = "add" /\ acc'[n].c = acc[n].c /\ acc'[n].p = 1
  <2>1. acc[n] = [pc |-> acc[n].pc, c |-> acc[n].c, p |-> acc[n].p] /\ acc[n].p = 1
    BY <1>0 DEF ConnTypes, Thread, Local, AccShape
  <2>2. QED
    BY <1>1, <2>1
<1>5. /\ leaving[n] = 0 /\ dial[n].pc \in {"idle", "found"}
      /\ acc[n].c <= made /\ ~Queued(n, acc[n].c) /\ acc[n].c \in 1..made
  BY <1>0, Numerals DEF Local, AccShape, Numbers
<1>6. /\ queue'[n] = queue[n] /\ made' \in {made, made + 1}
      /\ Linked(n, Nodes) => made' = made + 1 /\ made + 1 \in Conns
  BY <1>1 DEF Linked, netVars
<1>7. Double(Mine(n))' \/ Single(Mine(n))'
  BY <1>1, <1>2, <1>3, <1>5, <1>6, Numerals DEF Double, Single
<1>8. n \in reach
  BY <1>0 DEF Local, NoWay
<1>9. One(n)'
  BY <1>0, <1>1 DEF One, Probing
<1>10. Down(n)' /\ DialShape(n)'
  BY <1>0, <1>1, <1>5 DEF Down, DialShape, Local
<1>11. AccShape(n)' /\ EntryShape(n)'
  BY <1>0, <1>3, <1>4, <1>5, <1>7 DEF AccShape, EntryShape
<1>12. \A d : /\ Pending(n, d)' <=> Pending(n, d)
              /\ Queued(n, d)' <=> Queued(n, d)
  BY <1>0, <1>4, <1>6 DEF Pending, Queued
<1>13. Numbers(n)'
  <2>1. /\ \A c \in Conns : Pending(n, c) => c <= made /\ c \notin rset[n]
        /\ \A i, j \in 1..Len(queue[n]) : queue[n][i] = queue[n][j] => i = j
        /\ \A c \in rset[n] : c <= made
    BY DEF Local, Numbers
  <2>2. rset[n] \subseteq Conns
    BY DEF ConnTypes
  <2>3. \A c \in Conns : Pending(n, c)' => c <= made' /\ c \notin rset'[n]
    BY <1>0, <1>6, <1>12, <2>1, Numerals
  <2>4. \A c \in rset'[n] : c <= made'
    BY <1>0, <1>6, <2>1, <2>2, Numerals
  <2>5. acc'[n].c \in 1..made' /\ ~Queued(n, acc[n].c)'
    <3>1. ~Queued(n, acc[n].c)'
      BY <1>4, <1>5, <1>6 DEF Queued
    <3>2. QED
      BY <1>4, <1>5, <1>6, <3>1, Numerals
  <2>6. Mine(n)'.osock \in Conns =>
          Mine(n)'.osock <= made' /\ ~Pending(n, Mine(n).osock)'
    <3>1. ASSUME Mine(n)'.osock \in Conns
          PROVE  Linked(n, Nodes) /\ Mine(n)'.osock = made + 1
      BY <1>3, <3>1, Numerals
    <3>2. ASSUME Mine(n)'.osock \in Conns, Pending(n, Mine(n).osock)'
          PROVE  FALSE
      <4>1. Pending(n, made + 1)
        BY <1>0, <1>4, <1>6, <3>1, <3>2 DEF Pending, Queued
      <4>2. QED
        BY <1>6, <2>1, <3>1, <3>2, <4>1, Numerals
    <3>3. QED
      BY <1>6, <3>1, <3>2, Numerals
  <2>7. Mine(n)'.isock <= made'
    BY <1>3, <1>5, <1>6, Numerals
  <2>8. QED
    BY <1>0, <1>5, <1>6, <2>1, <2>3, <2>4, <2>5, <2>6, <2>7 DEF Numbers
<1>14. NoWay(n)' /\ Paired(n)'
  <2>1. Linked(n, Nodes) => ends'[made + 1] = Nodes
    BY DEF Linked
  <2>2. Double(Mine(n))' => Mine(n)'.osock = made + 1 /\ Linked(n, Nodes)
    BY <1>3, Numerals DEF Double
  <2>3. QED
    BY <1>0, <1>8, <2>1, <2>2 DEF NoWay, Paired, Dead
<1>15. InSets(n)'
  BY <1>4 DEF InSets, InHand
<1>16. QED
  BY <1>9, <1>10, <1>11, <1>13, <1>14, <1>15 DEF Local

\* The new peer is put into the sets.
LEMMA AcceptAddLocal ==
  ASSUME ConnTypes, NEW n \in Nodes, One(n), Local(n), AcceptAdd(n)
  PROVE  One(n)' /\ Local(n)' /\ InSets(n)'
<1>0. /\ UNCHANGED <<entries, dial, leaving, queue, ends, made, up, reach>>
      /\ n \in up /\ acc[n].pc = "add"
  BY DEF AcceptAdd, AccAt, worldVars, netVars
<1> DEFINE e == entries[n][1]
<1>1. /\ Has(n) /\ (Double(e) \/ Single(e)) /\ e.isock = acc[n].c
      /\ acc'[n].pc = "idle"
      /\ rset'[n] = AddToRead(rset[n], e) /\ wset'[n] = AddToWrite(wset[n], e)
  BY AcceptAddEffect DEF Local, Idle
<1>2. /\ Mine(n)' = e /\ Mine(n) = e /\ e.isock \in Conns
  BY <1>0, <1>1 DEF Mine, Double, Single
<1>3. rset'[n] = rset[n] \cup {e.isock}
  BY <1>1, <1>2, Numerals DEF AddToRead
<1>4. One(n)' /\ Down(n)' /\ DialShape(n)'
  BY <1>0 DEF Local, One, Down, DialShape, Mine, Has, Probing
<1>5. AccShape(n)' /\ EntryShape(n)'
  BY <1>0, <1>1, <1>2 DEF Local, AccShape, EntryShape, Has, Dead
<1>6. \A d : /\ Pending(n, d)' => Queued(n, d)
             /\ Queued(n, d)' <=> Queued(n, d)
  BY <1>0, <1>1 DEF Pending, Queued
<1>7. Numbers(n)'
  <2>1. e.isock <= made /\ ~Queued(n, e.isock)
    BY <1>0, <1>1, Numerals DEF Local, Numbers
  <2>2. \A d : Queued(n, d) => Pending(n, d) /\ d # e.isock
    BY <2>1 DEF Pending
  <2>3. QED
    BY <1>0, <1>1, <1>2, <1>3, <1>6, <2>1, <2>2, Numerals DEF Local, Numbers, Has
<1>8. n \in reach
  BY <1>0 DEF Local, NoWay
<1>9. NoWay(n)' /\ Paired(n)'
  BY <1>0, <1>2, <1>8 DEF Local, NoWay, Paired, Has, Dead
<1>10. InSets(n)'
  <2>1. RecvSock(e) = e.isock
    BY <1>2, Numerals DEF RecvSock
  <2>2. e.isock \in rset'[n]
    BY <1>3
  <2>3. SendSock(e) \in wset'[n]
    <3>1. CASE Double(e)
      BY <1>1, <3>1, Numerals DEF Double, SendSock, AddToWrite
    <3>2. CASE Single(e)
      BY <1>1, <3>2, Numerals DEF Single, SendSock, AddToWrite, Oneway
    <3>3. QED
      BY <1>1, <3>1, <3>2
  <2>4. QED
    BY <1>2, <2>1, <2>2, <2>3 DEF InSets
<1>11. QED
  BY <1>4, <1>5, <1>7, <1>9, <1>10 DEF Local

\* A connection ended.
LEMMA ReadEndsLocal ==
  ASSUME ConnTypes, NEW n \in Nodes, One(n), Local(n), ReadEnds(n)
  PROVE  One(n)' /\ Local(n)' /\ InSets(n)'
<1>0. /\ UNCHANGED <<entries, acc, dial, queue, ends, made, up, reach>>
      /\ n \in up
  BY DEF ReadEnds, worldVars, netVars
<1>1. /\ Has(n) /\ leaving'[n] = 1 /\ Dead(RecvSock(entries[n][1]))
      /\ acc[n].pc \notin {"key", "connect", "add"} /\ rset'[n] \subseteq rset[n]
  BY ReadEndsEffect
<1>2. One(n)' /\ Down(n)' /\ DialShape(n)'
  BY <1>0 DEF Local, One, Down, DialShape, Mine, Has, Probing
<1>3. AccShape(n)' /\ EntryShape(n)'
  BY <1>0, <1>1 DEF Local, AccShape, EntryShape, Has, Mine, Dead
<1>4. Numbers(n)'
  BY <1>0, <1>1 DEF Local, Numbers, Pending, Queued, Has, Mine
<1>5. NoWay(n)' /\ Paired(n)'
  BY <1>0 DEF Local, NoWay, Paired, Has, Mine, Dead
<1>6. InSets(n)'
  BY <1>1 DEF InSets, InHand
<1>7. QED
  BY <1>2, <1>3, <1>4, <1>5, <1>6 DEF Local

\* The peer is removed.
LEMMA ReadRemovesLocal ==
  ASSUME ConnTypes, NEW n \in Nodes, One(n), Local(n), ReadRemoves(n)
  PROVE  One(n)' /\ Local(n)' /\ InSets(n)'
<1>0. /\ UNCHANGED <<rset, acc, dial, queue, ends, made, up, reach>>
      /\ n \in up
  BY DEF ReadRemoves, worldVars, netVars
<1>1. /\ leaving[n] = 1 /\ leaving'[n] = 0
      /\ DOMAIN entries'[n] = DOMAIN entries[n] \ {1}
      /\ \A q \in DOMAIN entries[n] : q # 1 => entries'[n][q] = entries[n][q]
  BY ReadRemovesEffect DEF Local
<1>2. ~Has(n)' /\ Has(n)
  BY <1>1 DEF Has, Local, EntryShape
<1>3. dial[n].pc # "missed" /\ acc[n].pc \notin {"key", "connect", "add"}
  BY <1>1, Numerals DEF Local, DialShape, EntryShape, AccShape, Dead
<1>4. One(n)' /\ Down(n)' /\ DialShape(n)'
  BY <1>0, <1>1, <1>2, <1>3 DEF Local, One, Down, DialShape, Probing
<1>5. AccShape(n)' /\ EntryShape(n)' /\ InSets(n)'
  BY <1>0, <1>1, <1>2, <1>3 DEF AccShape, EntryShape, InSets
<1>6. Numbers(n)' /\ NoWay(n)' /\ Paired(n)'
  BY <1>0, <1>2 DEF Local, Numbers, NoWay, Paired, Pending, Queued
<1>7. QED
  BY <1>4, <1>5, <1>6 DEF Local

\* A core that goes away.
LEMMA CrashLocal ==
  ASSUME ConnTypes, NEW n \in Nodes, Crash(n)
  PROVE  One(n)' /\ Local(n)' /\ InSets(n)'
<1>1. /\ DOMAIN entries'[n] = {} /\ rset'[n] = {}
      /\ acc'[n].pc = "idle" /\ dial'[n].pc = "idle" /\ leaving'[n] = 0
      /\ queue'[n] = <<>>
  BY CrashEffect DEF Idle
<1>2. ~Has(n)' /\ \A c : ~Queued(n, c)' /\ ~Pending(n, c)'
  BY <1>1 DEF Has, Queued, Pending
<1>3. One(n)' /\ Down(n)' /\ DialShape(n)' /\ AccShape(n)' /\ EntryShape(n)'
  BY <1>1, <1>2 DEF One, Down, DialShape, AccShape, EntryShape
<1>4. Numbers(n)'
  BY <1>1, <1>2 DEF Numbers
<1>5. NoWay(n)' /\ Paired(n)' /\ InSets(n)'
  BY <1>1, <1>2 DEF NoWay, Paired, InSets
<1>6. QED
  BY <1>3, <1>4, <1>5 DEF Local


-----------------------------------------------------------------------------
\* What a step of one core is to the other one

\* A connection may come in, and connections end only all at once.
Beside(n, m) ==
  /\ reach' = reach /\ (m \in up' <=> m \in up)
  /\ made' \in {made, made + 1}
  /\ \/ queue'[m] = queue[m]
     \/ /\ queue'[m] = Append(queue[m], made + 1) /\ made' = made + 1
        /\ made + 1 \in Conns /\ m \in up /\ m \in reach
  /\ \/ \A c \in Conns : c <= made => ends'[c] = ends[c]
     \/ \A c \in Conns : ends'[c] # Nodes

\* Every step of a core is like this for the other one.
LEMMA StepBeside ==
  ASSUME ConnTypes, NEW n \in Nodes, NEW m \in Nodes, m = Other(n),
         \/ Dialling(n) \/ Accepting(n) \/ Reading(n)
         \/ Crash(n) \/ Restart(n) \/ ImportKey(n)
  PROVE  Beside(n, m)
<1>0. m # n
  BY OtherCore
<1>1. ASSUME UNCHANGED netVars, UNCHANGED <<up, reach>>
      PROVE  Beside(n, m)
  BY <1>1 DEF Beside, netVars
<1>2. ASSUME NEW open, Linked(n, open), UNCHANGED <<up, reach>>
      PROVE  Beside(n, m)
  BY <1>2, Numerals DEF Beside, Linked
<1>3. CASE DialConnect(n)
  <2>1. UNCHANGED <<up, reach>>
    BY <1>3 DEF DialConnect
  <2>2. QED
    BY <1>1, <1>2, <1>3, <2>1, DialConnectEffect
<1>4. CASE AcceptConnect(n)
  <2>1. UNCHANGED <<up, reach>>
    BY <1>4 DEF AcceptConnect
  <2>2. Connected(n) \/ Refused(n) \/ TooLate(n)
    BY <1>4 DEF AcceptConnect
  <2>3. QED
    BY <1>1, <1>2, <2>1, <2>2, ConnectEffect
<1>5. CASE AcceptTake(n)
  <2>1. queue'[m] = queue[m] /\ UNCHANGED <<ends, made, up, reach>>
    BY <1>0, <1>5 DEF AcceptTake, worldVars, ConnTypes
  <2>2. QED
    BY <2>1 DEF Beside
<1>6. CASE Crash(n)
  BY <1>0, <1>6, CrashEffect DEF Beside
<1>7. CASE Restart(n)
  BY <1>0, <1>7 DEF Beside, Restart, netVars
<1>8. CASE ImportKey(n)
  BY <1>1, <1>8 DEF ImportKey
<1>9. CASE DialProbe(n) \/ DialUnprobe(n) \/ DialAdd(n) \/ DialKey(n)
  BY <1>1, <1>9 DEF DialProbe, DialUnprobe, DialAdd, DialKey, worldVars
<1>10. CASE AcceptUpgrade(n) \/ AcceptKey(n) \/ AcceptAdd(n) \/ Reading(n)
  BY <1>1, <1>10
     DEF AcceptUpgrade, AcceptKey, AcceptAdd, Reading, ReadEnds, ReadRemoves, worldVars
<1>11. QED
  BY <1>3, <1>4, <1>5, <1>6, <1>7, <1>8, <1>9, <1>10 DEF Dialling, Accepting

\* A connection that ended stays so, and as long as not all of them end,
\* the others go on.
LEMMA EndsStay ==
  ASSUME ConnTypes, NEW n, NEW m, Beside(n, m)
  PROVE  \A s : (s \in Conns => s <= made) =>
           /\ Dead(s) => Dead(s)'
           /\ Dead(s)' => Dead(s) \/ \A c \in Conns : Dead(c)'
BY DEF Beside, Dead

\* So the other core keeps its own things in order.
LEMMA OtherLocal ==
  ASSUME ConnTypes, NEW n \in Nodes, NEW m \in Nodes, m # n,
         One(m), Local(m), OthersKeep(n), Beside(n, m)
  PROVE  One(m)' /\ Local(m)' /\ (InSets(m) => InSets(m)')
<1>0. /\ entries'[m] = entries[m] /\ rset'[m] = rset[m] /\ wset'[m] = wset[m]
      /\ acc'[m] = acc[m] /\ dial'[m] = dial[m] /\ leaving'[m] = leaving[m]
  BY DEF OthersKeep
<1>1. /\ Has(m)' <=> Has(m)
      /\ Mine(m)' = Mine(m)
  BY <1>0 DEF Has, Mine
<1>2. One(m)' /\ DialShape(m)' /\ AccShape(m)' /\ (InSets(m) => InSets(m)')
  BY <1>0, <1>1
     DEF Local, One, DialShape, AccShape, InSets, InHand, Probing
<1>3. Down(m)'
  BY <1>0 DEF Beside, Down, Local
<1>4. Has(m) => /\ Mine(m).osock \in Conns => Mine(m).osock <= made
                /\ Mine(m).isock \in Conns => Mine(m).isock <= made
  BY DEF Local, Numbers
<1>5. Has(m) => (RecvSock(Mine(m)) \in Conns => RecvSock(Mine(m)) <= made)
  BY <1>4 DEF RecvSock
<1>6. EntryShape(m)'
  <2>1. leaving[m] = 1 => Has(m) /\ Dead(RecvSock(Mine(m)))
    BY DEF Local, EntryShape
  <2>2. leaving[m] = 1 => Dead(RecvSock(Mine(m)))'
    <3>1. RecvSock(Mine(m))' = RecvSock(Mine(m))
      BY <1>1 DEF RecvSock
    <3>2. leaving[m] = 1 => ends'[RecvSock(Mine(m))] # Nodes
      BY <1>5, <2>1 DEF Beside, Dead
    <3>3. QED
      BY <2>1, <3>1, <3>2 DEF Dead
  <2>3. QED
    BY <1>0, <1>1, <2>2 DEF Local, EntryShape
<1>7. Paired(m)'
  <2>1. SUFFICES ASSUME Has(m), Double(Mine(m)), Dead(Mine(m).osock)'
                 PROVE  Dead(Mine(m).isock)'
    BY <1>1 DEF Paired, Double
  <2>2. /\ Mine(m)'.osock = Mine(m).osock /\ Mine(m)'.isock = Mine(m).isock
        /\ Mine(m).osock \in Conns /\ Mine(m).isock \in Conns
        /\ Mine(m).osock <= made /\ Mine(m).isock <= made
    BY <1>1, <1>4, <2>1 DEF Double
  <2>3. ends'[Mine(m).osock] # Nodes
    BY <2>1, <2>2 DEF Dead
  <2>4. ends[Mine(m).osock] # Nodes => ends[Mine(m).isock] # Nodes
    BY <2>1, <2>2 DEF Local, Paired, Dead
  <2>5. ends'[Mine(m).isock] # Nodes
    BY <2>2, <2>3, <2>4 DEF Beside
  <2>6. QED
    BY <2>2, <2>5 DEF Dead
<1>8. Numbers(m)' /\ NoWay(m)'
  <2>1. CASE queue'[m] = queue[m]
    <3>1. \A c : (Pending(m, c)' <=> Pending(m, c)) /\ (Queued(m, c)' <=> Queued(m, c))
      BY <1>0, <2>1 DEF Pending, Queued
    <3>2. made' >= made /\ made' \in Nat
      BY Numerals DEF Beside
    <3>3. NoWay(m)'
      BY <1>0, <1>1, <2>1 DEF Local, NoWay, Beside
    <3>4. rset[m] \subseteq Conns
      BY DEF ConnTypes
    <3>5. Numbers(m)'
      <4>1. /\ \A c \in Conns : Pending(m, c) => c <= made /\ c \notin rset[m]
            /\ acc[m].pc # "idle" => acc[m].c \in 1..made /\ ~Queued(m, acc[m].c)
            /\ \A i, j \in 1..Len(queue[m]) : queue[m][i] = queue[m][j] => i = j
            /\ dial[m].pc = "add" => dial[m].c \in 1..made /\ ~Pending(m, dial[m].c)
            /\ Has(m) =>
                 /\ Mine(m).osock \in Conns =>
                      Mine(m).osock <= made /\ ~Pending(m, Mine(m).osock)
                 /\ Mine(m).isock \in Conns => Mine(m).isock <= made
            /\ \A c \in rset[m] : c <= made
        BY DEF Local, Numbers
      <4>2. \A c \in Conns : c <= made => c <= made'
        BY <3>2, Numerals
      <4>3. \A c \in 1..made : c \in 1..made'
        BY <3>2, Numerals
      <4>4. acc[m].pc # "idle" => acc'[m].c \in 1..made' /\ ~Queued(m, acc[m].c)'
        BY <1>0, <2>1, <4>1, <4>3 DEF Queued
      <4>5. dial[m].pc = "add" => dial'[m].c \in 1..made' /\ ~Pending(m, dial[m].c)'
        BY <1>0, <2>1, <4>1, <4>3 DEF Queued, Pending
      <4>6. Has(m) => (Mine(m)'.osock \in Conns =>
                         Mine(m)'.osock <= made' /\ ~Pending(m, Mine(m).osock)')
        BY <1>0, <1>1, <2>1, <4>1, <4>2 DEF Queued, Pending
      <4>7. QED
        BY <1>0, <1>1, <2>1, <3>1, <3>4, <4>1, <4>2, <4>4, <4>5, <4>6 DEF Numbers
    <3>6. QED
      BY <3>3, <3>5
  <2>2. CASE /\ queue'[m] = Append(queue[m], made + 1) /\ made' = made + 1
             /\ made + 1 \in Conns /\ m \in reach
    <3>0. queue[m] \in Seq(Conns)
      BY DEF ConnTypes
    <3>1. /\ Len(queue[m]) \in Nat /\ Len(queue'[m]) = Len(queue[m]) + 1
          /\ queue'[m][Len(queue[m]) + 1] = made + 1
          /\ \A i \in 1..Len(queue[m]) : queue'[m][i] = queue[m][i]
      BY <2>2, <3>0
    <3>2. \A c : Queued(m, c)' <=> (Queued(m, c) \/ c = made + 1)
      <4>1. ASSUME NEW c, NEW i \in 1..Len(queue'[m]), queue'[m][i] = c
            PROVE  Queued(m, c) \/ c = made + 1
        <5>1. i \in 1..Len(queue[m]) \/ i = Len(queue[m]) + 1
          BY <3>1, <4>1
        <5>2. QED
          BY <3>1, <4>1, <5>1 DEF Queued
      <4>2. ASSUME NEW c, Queued(m, c) \/ c = made + 1
            PROVE  \E i \in 1..Len(queue'[m]) : queue'[m][i] = c
        <5>1. Len(queue[m]) + 1 \in 1..Len(queue'[m])
          BY <3>1
        <5>2. \A i \in 1..Len(queue[m]) : i \in 1..Len(queue'[m])
          BY <3>1
        <5>3. QED
          BY <3>1, <4>2, <5>1, <5>2 DEF Queued
      <4>3. QED
        BY <4>1, <4>2 DEF Queued
    <3>3. \A c : Pending(m, c)' <=> (Pending(m, c) \/ c = made + 1)
      BY <1>0, <3>2 DEF Pending
    <3>4. /\ \A c \in Conns : Pending(m, c) => c <= made /\ c \notin rset[m]
          /\ acc[m].pc # "idle" => acc[m].c \in 1..made /\ ~Queued(m, acc[m].c)
          /\ \A i, j \in 1..Len(queue[m]) : queue[m][i] = queue[m][j] => i = j
          /\ dial[m].pc = "add" => dial[m].c \in 1..made /\ ~Pending(m, dial[m].c)
          /\ Has(m) =>
               /\ Mine(m).osock \in Conns =>
                    Mine(m).osock <= made /\ ~Pending(m, Mine(m).osock)
               /\ Mine(m).isock \in Conns => Mine(m).isock <= made
          /\ \A c \in rset[m] : c <= made
      BY DEF Local, Numbers
    <3>5. \A c \in Conns : c <= made => c <= made' /\ c # made + 1
      BY <2>2, Numerals
    <3>6. rset[m] \subseteq Conns
      BY DEF ConnTypes
    <3>7. \A c \in Conns : Pending(m, c)' => c <= made' /\ c \notin rset'[m]
      BY <1>0, <2>2, <3>3, <3>4, <3>5, <3>6, Numerals
    <3>8. acc'[m].pc # "idle" => acc'[m].c \in 1..made' /\ ~Queued(m, acc[m].c)'
      <4>1. Queued(m, acc[m].c)' <=> (Queued(m, acc[m].c) \/ acc[m].c = made + 1)
        <5>1. DEFINE d == acc[m].c
        <5>2. acc'[m].c = d
          BY <1>0
        <5> HIDE DEF d
        <5>3. (\E i \in 1..Len(queue'[m]) : queue'[m][i] = d) <=> (Queued(m, d) \/ d = made + 1)
          BY <3>2 DEF Queued
        <5>4. QED
          BY <5>2, <5>3 DEF Queued, d
      <4>2. QED
        BY <1>0, <2>2, <3>4, <4>1, Numerals
    <3>9. \A i, j \in 1..Len(queue'[m]) : queue'[m][i] = queue'[m][j] => i = j
      <4>1. \A i \in 1..Len(queue[m]) : queue[m][i] # made + 1
        <5>1. ASSUME NEW i \in 1..Len(queue[m]), queue[m][i] = made + 1
              PROVE  FALSE
          <6>1. Pending(m, made + 1)
            BY <5>1 DEF Pending, Queued
          <6>2. QED
            BY <2>2, <3>4, <6>1, Numerals
        <5>2. QED
          BY <5>1
      <4>2. \A i \in 1..Len(queue'[m]) : i \in 1..Len(queue[m]) \/ i = Len(queue[m]) + 1
        BY <3>1
      <4>3. QED
        BY <3>1, <3>4, <4>1, <4>2
    <3>10. dial'[m].pc = "add" => dial'[m].c \in 1..made' /\ ~Pending(m, dial[m].c)'
      <4>1. Pending(m, dial[m].c)' <=> (Pending(m, dial[m].c) \/ dial[m].c = made + 1)
        <5>1. DEFINE d == dial[m].c
        <5>2. dial'[m].c = d
          BY <1>0
        <5> HIDE DEF d
        <5>3. ((\E i \in 1..Len(queue'[m]) : queue'[m][i] = d)
                 \/ (acc'[m].pc # "idle" /\ acc'[m].c = d))
                <=> (Pending(m, d) \/ d = made + 1)
          BY <3>3 DEF Pending, Queued
        <5>4. QED
          BY <5>2, <5>3 DEF Pending, Queued, d
      <4>2. QED
        BY <1>0, <2>2, <3>4, <4>1, Numerals
    <3>11. Has(m)' => (Mine(m)'.osock \in Conns =>
                         Mine(m)'.osock <= made' /\ ~Pending(m, Mine(m).osock)')
      <4>1. Pending(m, Mine(m).osock)'
              <=> (Pending(m, Mine(m).osock) \/ Mine(m).osock = made + 1)
        <5>1. DEFINE d == Mine(m).osock
        <5>2. Mine(m)'.osock = d
          BY <1>1
        <5> HIDE DEF d
        <5>3. ((\E i \in 1..Len(queue'[m]) : queue'[m][i] = d)
                 \/ (acc'[m].pc # "idle" /\ acc'[m].c = d))
                <=> (Pending(m, d) \/ d = made + 1)
          BY <3>3 DEF Pending, Queued
        <5>4. QED
          BY <5>2, <5>3 DEF Pending, Queued, d
      <4>2. QED
        BY <1>1, <3>4, <3>5, <4>1
    <3>12. Numbers(m)'
      BY <1>0, <1>1, <3>4, <3>5, <3>6, <3>7, <3>8, <3>9, <3>10, <3>11 DEF Numbers
    <3>13. NoWay(m)'
      BY <2>2 DEF NoWay, Beside
    <3>14. QED
      BY <3>12, <3>13
  <2>3. QED
    BY <2>1, <2>2 DEF Beside
<1>9. QED
  BY <1>2, <1>3, <1>6, <1>7, <1>8 DEF Local


-----------------------------------------------------------------------------
\* Connections that were delivered

\* A connection that core n has is one it had, or the one it just made, which
\* is the last in the other core's queue.
LEMMA OutStep ==
  ASSUME ConnTypes, NEW n \in Nodes, NEW m \in Nodes, m = Other(n),
         One(n), Local(n), Orderly',
         \/ Dialling(n) \/ Accepting(n) \/ Reading(n)
         \/ Crash(n) \/ Restart(n) \/ ImportKey(n)
  PROVE  \A c \in Conns : Out(n, c)' =>
           \/ Out(n, c) /\ queue'[m] = queue[m]
           \/ c = made + 1 /\ queue'[m] = Append(queue[m], made + 1)
<1>0. /\ m # n /\ queue \in [Nodes -> Seq(Conns)]
      /\ DialShape(n) /\ AccShape(n) /\ Numbers(n) /\ EntryShape(n)
      /\ IsTable(entries[n])
  BY OtherCore DEF ConnTypes, Local
<1>1. CASE DialProbe(n)
  <2>1. queue' = queue
    BY <1>1 DEF DialProbe, netVars
  <2>2. dial'[n].pc # "add"
    <3>1. dial[n] = [pc |-> dial[n].pc, c |-> dial[n].c, p |-> dial[n].p]
      BY DEF ConnTypes, Thread
    <3>2. \/ dial'[n] = [dial[n] EXCEPT !.pc = "missed", !.p = 1]
          \/ dial'[n] = [dial[n] EXCEPT !.pc = "found", !.p = 2]
      BY <1>1, ProbeEffect
    <3>3. QED
      BY <3>1, <3>2
  <2>3. Has(n)' => entries'[n][1] = NewEntry \/ (Has(n) /\ entries'[n][1] = entries[n][1])
    BY <1>1, ProbeEffect DEF Has
  <2>4. QED
    BY <2>1, <2>2, <2>3, Numerals DEF Out, Has, Mine
<1>2. CASE DialUnprobe(n)
  <2>1. queue' = queue
    BY <1>2 DEF DialUnprobe, netVars
  <2>2. dial'[n].pc # "add"
    BY <1>2, UnprobeEffect DEF Idle
  <2>3. Has(n)' => Has(n) /\ entries'[n][1] = entries[n][1]
    BY <1>2, UnprobeEffect DEF Has
  <2>4. QED
    BY <2>1, <2>2, <2>3 DEF Out, Has, Mine
<1>3. CASE DialConnect(n)
  <2>1. ~Has(n)'
    BY <1>3 DEF DialConnect, DialAt, Has, Local, DialShape
  <2>2. CASE /\ Linked(n, Nodes)
             /\ dial'[n] = [pc |-> "add", c |-> made + 1, p |-> 0]
    BY <2>1, <2>2 DEF Out, Linked
  <2>3. CASE dial'[n] = Idle
    BY <2>1, <2>3 DEF Out, Idle
  <2>4. QED
    BY <1>3, <2>2, <2>3, DialConnectEffect
<1>4. CASE DialAdd(n)
  <2>1. queue' = queue /\ dial[n].pc = "add"
    BY <1>4 DEF DialAdd, netVars, DialAt
  <2>2. dial'[n].pc # "add"
    <3>1. dial[n] = [pc |-> dial[n].pc, c |-> dial[n].c, p |-> dial[n].p]
      BY DEF ConnTypes, Thread
    <3>2. QED
      BY <1>4, <3>1, DialAddEffect DEF Local
  <2>3. Mine(n)'.osock = dial[n].c
    BY <1>4, DialAddEffect DEF Local, Mine, NewEntry
  <2>4. QED
    BY <2>1, <2>2, <2>3 DEF Out
<1>5. CASE DialKey(n)
  <2>1. queue' = queue
    BY <1>5 DEF DialKey, netVars
  <2>2. dial'[n].pc # "add"
    <3>1. dial'[n] = Idle
      BY <1>0, <1>5, DialKeyEffect
    <3>2. QED
      BY <3>1 DEF Idle
  <2>3. Has(n) => entries[n][1] \in PeerEntry
    BY DEF ConnTypes, IsTable, Has
  <2>4. Has(n)' => /\ Has(n)
                   /\ \/ entries'[n][1] = [entries[n][1] EXCEPT !.isock = Oneway, !.keyok = TRUE]
                      \/ entries'[n][1] = entries[n][1]
    BY <1>0, <1>5, DialKeyEffect DEF Has
  <2>5. Has(n)' => Has(n) /\ Mine(n)'.osock = Mine(n).osock
    BY <2>3, <2>4 DEF PeerEntry, Mine
  <2>6. QED
    BY <2>1, <2>2, <2>5 DEF Out
<1>6. CASE AcceptTake(n)
  <2>1. dial' = dial /\ queue'[m] = queue[m]
    BY <1>0, <1>6, TakeEffect DEF AcceptTake
  <2>2. Has(n)' => entries'[n][1] = NewEntry \/ (Has(n) /\ entries'[n][1] = entries[n][1])
    BY <1>6, TakeEffect DEF Has
  <2>3. QED
    BY <2>1, <2>2, Numerals DEF Out, Has, Mine
<1>7. CASE AcceptUpgrade(n)
  <2>1. dial' = dial /\ queue' = queue
    BY <1>7 DEF AcceptUpgrade, netVars
  <2>2. Has(n) => entries[n][1] \in PeerEntry
    BY DEF ConnTypes, IsTable, Has
  <2>3. /\ Has(n)
        /\ \/ entries'[n][1] = Upgraded(entries[n][1], acc[n].c)
           \/ entries'[n][1] = [entries[n][1] EXCEPT !.keyok = FALSE]
    BY <1>7, UpgradeEffect DEF Local
  <2>4. Mine(n)'.osock = Mine(n).osock
    BY <2>2, <2>3 DEF PeerEntry, Mine, Upgraded
  <2>5. QED
    BY <2>1, <2>3, <2>4 DEF Out
<1>8. CASE AcceptKey(n)
  <2>1. dial' = dial /\ queue' = queue
    BY <1>8 DEF AcceptKey, netVars
  <2>2. \/ entries'[n][1] = [NewEntry EXCEPT !.isock = acc[n].c, !.keyok = TRUE]
        \/ entries'[n][1] = NewEntry
    BY <1>8, AcceptKeyEffect DEF Local
  <2>3. Mine(n)'.osock = NoSocket
    <3>1. [NewEntry EXCEPT !.isock = acc[n].c, !.keyok = TRUE].osock = NoSocket
      BY DEF NewEntry
    <3>2. Mine(n)' = entries'[n][1]
      BY DEF Mine
    <3>3. QED
      BY <2>2, <3>1, <3>2, Numerals
  <2>4. QED
    BY <2>1, <2>3, Numerals DEF Out
<1>9. CASE AcceptConnect(n)
  <2>1. dial' = dial /\ dial[n].pc # "add"
    BY <1>9 DEF AcceptConnect, AccAt, Local, AccShape
  <2>2. Has(n) /\ entries[n][1] \in PeerEntry
    <3>1. Has(n)
      BY <1>0, <1>9, AcceptConnectEffect
    <3>2. QED
      BY <1>0, <3>1 DEF IsTable, Has
  <2>3. CASE /\ Linked(n, Nodes)
             /\ entries'[n][1] = [entries[n][1] EXCEPT !.osock = made + 1]
    <3>1. Mine(n)'.osock = made + 1
      BY <2>2, <2>3 DEF PeerEntry, Mine
    <3>2. QED
      BY <2>1, <2>3, <3>1 DEF Out, Linked
  <2>4. CASE entries'[n][1] = [entries[n][1] EXCEPT !.osock = Oneway,
                                                    !.connectable = FALSE]
    <3>1. Mine(n)'.osock = Oneway
      BY <2>2, <2>4 DEF PeerEntry, Mine
    <3>2. QED
      BY <2>1, <3>1, Numerals DEF Out
  <2>5. QED
    BY <1>9, <2>3, <2>4, AcceptConnectEffect DEF Local
<1>10. CASE AcceptAdd(n)
  BY <1>10 DEF AcceptAdd, netVars, Out, Has, Mine
<1>11. CASE ReadEnds(n)
  BY <1>11 DEF ReadEnds, netVars, Out, Has, Mine
<1>12. CASE ReadRemoves(n)
  <2>1. dial' = dial /\ queue' = queue
    BY <1>12 DEF ReadRemoves, netVars
  <2>2. ~Has(n)'
    BY <1>12, ReadRemovesEffect DEF Has, Local
  <2>3. QED
    BY <2>1, <2>2 DEF Out
<1>13. CASE Crash(n)
  BY <1>13, CrashEffect DEF Out, Has, Idle
<1>14. CASE Restart(n) \/ ImportKey(n)
  BY <1>14 DEF Restart, ImportKey, nodeVars, netVars, Out, Has, Mine
<1>15. QED
  BY <1>1, <1>2, <1>3, <1>4, <1>5, <1>6, <1>7, <1>8, <1>9, <1>10, <1>11, <1>12,
     <1>13, <1>14 DEF Dialling, Accepting, Reading

\* Where a connection out of a core ends is no news to the core.
LEMMA OutKnown ==
  ASSUME ConnTypes, NEW n \in Nodes, Local(n), NEW c \in Conns, Out(n, c)
  PROVE  c <= made
BY Numerals DEF Local, Numbers, Out

\* What arrived stays so while the other core steps, unless a core goes away.
LEMMA ArrivedStays ==
  ASSUME ConnTypes, NEW n \in Nodes, NEW m \in Nodes, m # n, Local(m),
         OthersKeep(n), Beside(n, m), queue'[m] = queue[m],
         NEW c \in Conns, ~Dead(c)', Arrived(m, c)
  PROVE  Arrived(m, c)'
<1>1. entries'[m] = entries[m] /\ acc'[m] = acc[m] /\ dial'[m] = dial[m]
  BY DEF OthersKeep
<1>2. ends'[c] = Nodes
  BY DEF Dead
<1>3. \A d \in Conns : d <= made => ends'[d] = ends[d]
  BY <1>2 DEF Beside
<1>4. Has(m) => (RecvSock(Mine(m)) \in Conns => RecvSock(Mine(m)) <= made)
  BY DEF Local, Numbers, RecvSock
<1>5. /\ Has(m)' <=> Has(m)
      /\ Mine(m)' = Mine(m)
      /\ RecvSock(Mine(m))' = RecvSock(Mine(m))
  BY <1>1 DEF Has, Mine, RecvSock
<1>6. Has(m) => (Dead(RecvSock(Mine(m)))' <=> Dead(RecvSock(Mine(m))))
  BY <1>3, <1>4, <1>5 DEF Dead
<1>7. QED
  BY <1>1, <1>5, <1>6 DEF Arrived

\* So what a core sends on is what the other one got, also after its steps.
LEMMA DeliveredByMe ==
  ASSUME ConnTypes, NEW n \in Nodes, NEW m \in Nodes, m = Other(n),
         One(n), Local(n), Local(m), Delivered(n), Orderly',
         OthersKeep(n), Beside(n, m),
         \/ Dialling(n) \/ Accepting(n) \/ Reading(n)
         \/ Crash(n) \/ Restart(n) \/ ImportKey(n)
  PROVE  Delivered(n)'
<1>0. m # n /\ queue[m] \in Seq(Conns)
  BY OtherCore DEF ConnTypes
<1>1. SUFFICES ASSUME NEW c \in Conns, Out(n, c)', ~Dead(c)'
               PROVE  Arrived(m, c)'
  BY DEF Delivered
<1>2. CASE Out(n, c) /\ queue'[m] = queue[m]
  <2>1. c <= made
    BY <1>2, OutKnown
  <2>2. ends'[c] = Nodes
    BY <1>1 DEF Dead
  <2>3. ~Dead(c)
    BY <2>1, <2>2 DEF Beside, Dead
  <2>4. Arrived(m, c)
    BY <1>2, <2>3 DEF Delivered
  <2>5. QED
    BY <1>0, <1>1, <1>2, <2>4, ArrivedStays
<1>3. CASE c = made + 1 /\ queue'[m] = Append(queue[m], made + 1)
  <2>1. queue'[m] # <<>> /\ queue'[m][Len(queue'[m])] = c
    BY <1>0, <1>3
  <2>2. QED
    BY <2>1 DEF Arrived
<1>4. QED
  BY <1>1, <1>2, <1>3, OutStep


(***************************************************************************)
(* A live connection that came to a core stays in its hands: it is at the   *)
(* end of the queue, with the accepting thread or the isock of the entry,   *)
(* or else the entry has no key.                                            *)
(***************************************************************************)
LEMMA ArrivedStep ==
  ASSUME ConnTypes, NEW n \in Nodes, One(n), Local(n), Orderly',
         \/ Dialling(n) \/ Accepting(n) \/ Reading(n)
         \/ Restart(n) \/ ImportKey(n),
         NEW c \in Conns, ~Dead(c), Arrived(n, c)
  PROVE  Arrived(n, c)'
<1>0. /\ DialShape(n) /\ AccShape(n) /\ Numbers(n) /\ EntryShape(n)
      /\ IsTable(entries[n]) /\ queue[n] \in Seq(Conns)
  BY DEF ConnTypes, Local
<1>1. ASSUME queue'[n] = queue[n], queue[n] # <<>>
      PROVE  Arrived(n, c)'
  BY <1>1 DEF Arrived
<1>2. ASSUME queue'[n] = queue[n], acc'[n].pc # "idle", acc'[n].c = acc[n].c,
             acc[n].pc # "idle"
      PROVE  Arrived(n, c)'
  BY <1>2 DEF Arrived
<1>3. CASE DialProbe(n)
  <2>1. queue' = queue /\ acc' = acc /\ ends' = ends /\ dial[n].pc = "idle"
    BY <1>3 DEF DialProbe, DialAt, netVars
  <2>2. CASE DOMAIN entries[n] = {}
    BY <2>1, <2>2 DEF Arrived, Has
  <2>3. CASE /\ DOMAIN entries[n] = {1} /\ DOMAIN entries'[n] = {1, 2}
             /\ entries'[n][1] = entries[n][1]
             /\ dial'[n] = [dial[n] EXCEPT !.pc = "found", !.p = 2]
    <3>1. dial'[n].pc = "found"
      <4>1. dial[n] = [pc |-> dial[n].pc, c |-> dial[n].c, p |-> dial[n].p]
        BY DEF ConnTypes, Thread
      <4>2. QED
        BY <2>3, <4>1
    <3>2. QED
      BY <2>1, <2>3, <3>1 DEF Arrived, Has, Mine, Dead
  <2>4. QED
    BY <1>3, <2>2, <2>3, ProbeEffect
<1>4. CASE DialUnprobe(n)
  <2>1. queue' = queue /\ acc' = acc /\ ends' = ends
    BY <1>4 DEF DialUnprobe, netVars
  <2>2. CASE dial[n].pc = "found" /\ dial'[n] = Idle
    <3>1. dial[n].p = 2 /\ dial'[n].pc = "idle"
      BY <1>0, <2>2 DEF DialShape, Idle
    <3>2. Has(n) => Has(n)' /\ Mine(n)' = Mine(n)
      BY <1>4, <3>1, UnprobeEffect DEF Has, Mine
    <3>3. QED
      BY <2>1, <3>1, <3>2 DEF Arrived, Dead
  <2>3. CASE dial[n].pc = "missed"
    <3>1. Mine(n) = NewEntry
      BY <1>0, <2>3 DEF DialShape
    <3>2. QED
      BY <2>1, <2>3, <3>1, Numerals DEF Arrived
  <2>4. QED
    BY <1>4, <2>2, <2>3, UnprobeEffect
<1>5. CASE DialConnect(n) \/ DialAdd(n)
  <2>1. queue'[n] = queue[n] /\ acc' = acc
    <3>1. CASE DialConnect(n)
      BY <3>1, DialConnectEffect DEF DialConnect, Linked, netVars
    <3>2. CASE DialAdd(n)
      BY <3>2 DEF DialAdd, netVars
    <3>3. QED
      BY <1>5, <3>1, <3>2
  <2>2. ~Has(n)
    BY <1>0, <1>5 DEF DialShape, DialConnect, DialAdd, DialAt, Has
  <2>3. QED
    BY <2>1, <2>2 DEF Arrived
<1>6. CASE DialKey(n)
  <2>1. queue' = queue /\ acc' = acc /\ dial[n].pc = "key"
    BY <1>6 DEF DialKey, netVars, DialAt
  <2>2. Has(n) => Mine(n).isock # c
    BY <1>0, <2>1, Numerals DEF DialShape, Dialled
  <2>3. QED
    BY <2>1, <2>2 DEF Arrived
<1>7. CASE AcceptTake(n)
  <2>1. /\ queue[n] # <<>> /\ queue'[n] = Tail(queue[n])
        /\ acc'[n].c = Head(queue[n]) /\ acc'[n].pc # "idle"
    BY <1>7, TakeEffect
  <2>2. /\ Tail(queue[n]) # <<>> =>
             Tail(queue[n])[Len(Tail(queue[n]))] = queue[n][Len(queue[n])]
        /\ Tail(queue[n]) = <<>> => Head(queue[n]) = queue[n][Len(queue[n])]
    BY <1>0, <2>1, TakeHead DEF Numbers
  <2>3. queue[n][Len(queue[n])] = c
    BY <2>1 DEF Arrived
  <2>4. QED
    BY <2>1, <2>2, <2>3 DEF Arrived
<1>8. CASE AcceptUpgrade(n)
  <2>1. /\ queue' = queue /\ ends' = ends /\ dial' = dial /\ acc[n].pc = "upgrade"
        /\ leaving' = leaving
    BY <1>8 DEF AcceptUpgrade, netVars, AccAt
  <2>2. /\ Has(n) /\ dial[n].pc # "key" /\ DOMAIN entries'[n] = DOMAIN entries[n]
        /\ entries[n][1].isock = Oneway /\ ~Dead(entries[n][1].osock)
        /\ n \in keyed => entries'[n][1] = Upgraded(entries[n][1], acc[n].c)
        /\ n \notin keyed => entries'[n][1] = [entries[n][1] EXCEPT !.keyok = FALSE]
        /\ acc'[n] = Idle
    BY <1>0, <1>8, UpgradeEffect
  <2>3. entries[n][1] \in PeerEntry
    BY <1>0, <2>2 DEF IsTable, Has
  <2>4. dial[n].pc # "missed"
    BY <1>0, <2>2, Numerals DEF DialShape, Mine
  <2>5. CASE queue[n] = <<>>
    <3>1. acc[n].c = c
      BY <2>1, <2>5 DEF Arrived
    <3>2. Has(n)' /\ acc'[n].pc = "idle"
      BY <2>2 DEF Has, Idle
    <3>3. CASE n \in keyed
      <4>1. Mine(n)'.isock = c
        BY <2>2, <2>3, <3>1, <3>3 DEF Mine, Upgraded, PeerEntry
      <4>2. RecvSock(Mine(n))' = c
        BY <4>1, Numerals DEF RecvSock
      <4>3. ~Dead(RecvSock(Mine(n)))'
        BY <2>1, <4>2 DEF Dead
      <4>4. QED
        BY <2>1, <2>5, <3>2, <4>1, <4>3 DEF Arrived
    <3>4. CASE n \notin keyed
      <4>1. /\ Mine(n)'.isock = Oneway /\ Mine(n)'.osock = entries[n][1].osock
            /\ ~Mine(n)'.keyok
        BY <2>2, <2>3, <3>4 DEF Mine, PeerEntry
      <4>2. RecvSock(Mine(n))' = entries[n][1].osock
        BY <4>1 DEF RecvSock
      <4>3. ~Dead(RecvSock(Mine(n)))'
        BY <2>1, <2>2, <4>2 DEF Dead
      <4>4. QED
        BY <2>1, <2>2, <2>4, <2>5, <3>2, <4>1, <4>3 DEF Arrived
    <3>5. QED
      BY <3>3, <3>4
  <2>6. QED
    BY <1>1, <2>1, <2>5
<1>9. CASE AcceptKey(n)
  <2>1. /\ queue' = queue /\ ends' = ends /\ dial' = dial /\ acc[n].pc = "key"
    BY <1>9 DEF AcceptKey, netVars, AccAt
  <2>2. /\ Has(n) /\ DOMAIN entries'[n] = DOMAIN entries[n]
        /\ n \in keyed => acc'[n] = [acc[n] EXCEPT !.pc = "connect"]
        /\ n \notin keyed => entries'[n][1] = NewEntry /\ acc'[n] = Idle
    BY <1>0, <1>9, AcceptKeyEffect
  <2>3. CASE n \in keyed
    <3>1. acc[n] = [pc |-> acc[n].pc, c |-> acc[n].c, p |-> acc[n].p]
      BY DEF ConnTypes, Thread
    <3>2. acc'[n].pc # "idle" /\ acc'[n].c = acc[n].c
      BY <2>2, <2>3, <3>1
    <3>3. QED
      BY <1>2, <2>1, <3>2
  <2>4. CASE n \notin keyed
    <3>1. Has(n)' /\ Mine(n)' = NewEntry /\ acc'[n].pc = "idle"
      BY <2>2, <2>4 DEF Has, Mine, Idle
    <3>2. RecvSock(Mine(n))' = NoSocket
      BY <3>1, Numerals DEF RecvSock
    <3>3. ~Dead(RecvSock(Mine(n)))'
      BY <3>2, Numerals DEF Dead
    <3>4. dial[n].pc \in {"idle", "found"}
      BY <1>0, <2>1 DEF AccShape
    <3>5. queue[n] = <<>> => Arrived(n, c)'
      BY <2>1, <3>1, <3>3, <3>4, Numerals DEF Arrived
    <3>6. QED
      BY <1>1, <2>1, <3>5
  <2>5. QED
    BY <2>3, <2>4
<1>10. CASE AcceptConnect(n)
  <2>1. /\ queue'[n] = queue[n] /\ acc[n].pc = "connect"
        /\ acc'[n] = [acc[n] EXCEPT !.pc = "add"]
    BY <1>0, <1>10, AcceptConnectEffect DEF Linked, netVars, AcceptConnect, AccAt
  <2>2. acc[n] = [pc |-> acc[n].pc, c |-> acc[n].c, p |-> acc[n].p]
    BY DEF ConnTypes, Thread
  <2>3. acc'[n].pc # "idle" /\ acc'[n].c = acc[n].c
    BY <2>1, <2>2
  <2>4. QED
    BY <1>2, <2>1, <2>3
<1>11. CASE AcceptAdd(n)
  <2>1. /\ queue' = queue /\ ends' = ends /\ entries' = entries /\ acc[n].pc = "add"
    BY <1>11 DEF AcceptAdd, netVars, AccAt
  <2>2. Has(n) /\ entries[n][1].isock = acc[n].c /\ acc'[n].pc = "idle"
    BY <1>0, <1>11, AcceptAddEffect DEF Idle
  <2>3. CASE queue[n] = <<>>
    <3>1. acc[n].c = c
      BY <2>1, <2>3 DEF Arrived
    <3>2. Has(n)' /\ Mine(n)'.isock = c
      BY <2>1, <2>2, <3>1 DEF Has, Mine
    <3>3. RecvSock(Mine(n))' = c
      BY <3>2, Numerals DEF RecvSock
    <3>4. ~Dead(RecvSock(Mine(n)))'
      BY <2>1, <3>3 DEF Dead
    <3>5. QED
      BY <2>1, <2>2, <2>3, <3>2, <3>4 DEF Arrived
  <2>4. QED
    BY <1>1, <2>1, <2>3
<1>12. CASE ReadEnds(n)
  BY <1>12 DEF ReadEnds, netVars, Arrived, Has, Mine, Dead
<1>13. CASE ReadRemoves(n)
  <2>1. queue' = queue /\ acc' = acc
    BY <1>13 DEF ReadRemoves, netVars
  <2>2. Dead(RecvSock(Mine(n)))
    BY <1>0, <1>13, ReadRemovesEffect DEF EntryShape
  <2>3. QED
    BY <2>1, <2>2 DEF Arrived
<1>14. CASE Restart(n) \/ ImportKey(n)
  BY <1>14 DEF Restart, ImportKey, nodeVars, netVars, Arrived, Has, Mine, Dead
<1>15. QED
  BY <1>3, <1>4, <1>5, <1>6, <1>7, <1>8, <1>9, <1>10, <1>11, <1>12, <1>13, <1>14
     DEF Dialling, Accepting, Reading

\* So what the other core sends on is what this one got.
LEMMA DeliveredToMe ==
  ASSUME ConnTypes, NEW n \in Nodes, NEW m \in Nodes, n = Other(m), m # n,
         One(n), Local(n), Local(m), Delivered(m), Orderly',
         OthersKeep(n), Beside(n, m),
         \/ Dialling(n) \/ Accepting(n) \/ Reading(n)
         \/ Crash(n) \/ Restart(n) \/ ImportKey(n)
  PROVE  Delivered(m)'
<1>1. SUFFICES ASSUME NEW c \in Conns, Out(m, c)', ~Dead(c)'
               PROVE  Arrived(n, c)'
  BY DEF Delivered
<1>2. Out(m, c)
  BY <1>1 DEF OthersKeep, Out, Has, Mine
<1>3. c <= made
  BY <1>2, OutKnown
<1>4. ends'[c] = Nodes
  BY <1>1 DEF Dead
<1>5. ~Dead(c)
  BY <1>3, <1>4 DEF Beside, Dead
<1>6. Arrived(n, c)
  BY <1>2, <1>5 DEF Delivered
<1>7. ~Crash(n)
  BY <1>4, CrashEffect
<1>8. QED
  BY <1>5, <1>6, <1>7, ArrivedStep


-----------------------------------------------------------------------------
\* Peers that could not be connected back

\* An entry is oneway because it was, or because the other core could not be
\* reached just now.
LEMMA OnewayStep ==
  ASSUME ConnTypes, NEW n \in Nodes, NEW m \in Nodes, m = Other(n),
         One(n), Local(n), Orderly', Has(n)', Mine(n)'.osock = Oneway,
         \/ Dialling(n) \/ Accepting(n) \/ Reading(n)
         \/ Crash(n) \/ Restart(n) \/ ImportKey(n)
  PROVE  \/ Has(n) /\ Mine(n).osock = Oneway /\ queue'[m] = queue[m]
         \/ Linked(n, {m}) \/ (UNCHANGED netVars /\ m \notin up \cap reach)
<1>0. /\ m # n /\ queue \in [Nodes -> Seq(Conns)]
      /\ DialShape(n) /\ AccShape(n) /\ Numbers(n) /\ EntryShape(n)
      /\ IsTable(entries[n])
  BY OtherCore DEF ConnTypes, Local
<1>1. CASE DialProbe(n)
  <2>1. queue' = queue
    BY <1>1 DEF DialProbe, netVars
  <2>2. entries'[n][1] = NewEntry \/ (Has(n) /\ entries'[n][1] = entries[n][1])
    BY <1>1, ProbeEffect DEF Has
  <2>3. QED
    BY <2>1, <2>2, Numerals DEF Mine
<1>2. CASE DialUnprobe(n)
  <2>1. queue' = queue
    BY <1>2 DEF DialUnprobe, netVars
  <2>2. Has(n) /\ entries'[n][1] = entries[n][1]
    BY <1>2, UnprobeEffect DEF Has
  <2>3. QED
    BY <2>1, <2>2 DEF Mine
<1>3. CASE DialConnect(n)
  BY <1>0, <1>3 DEF DialConnect, DialAt, Has, DialShape
<1>4. CASE DialAdd(n)
  <2>1. dial[n].c \in Conns /\ Mine(n)'.osock = dial[n].c
    BY <1>0, <1>4, DialAddEffect DEF Mine, NewEntry
  <2>2. QED
    BY <2>1, Numerals
<1>5. CASE DialKey(n)
  <2>1. queue' = queue
    BY <1>5 DEF DialKey, netVars
  <2>2. /\ Has(n)
        /\ \/ entries'[n][1] = [entries[n][1] EXCEPT !.isock = Oneway, !.keyok = TRUE]
           \/ entries'[n][1] = entries[n][1]
    BY <1>0, <1>5, DialKeyEffect DEF Has
  <2>3. entries[n][1] \in PeerEntry
    BY <1>0, <2>2 DEF IsTable, Has
  <2>4. Mine(n)'.osock = Mine(n).osock
    BY <2>2, <2>3 DEF PeerEntry, Mine
  <2>5. QED
    BY <2>1, <2>2, <2>4
<1>6. CASE AcceptTake(n)
  <2>1. queue'[m] = queue[m]
    BY <1>0, <1>6, TakeEffect
  <2>2. entries'[n][1] = NewEntry \/ (Has(n) /\ entries'[n][1] = entries[n][1])
    BY <1>6, TakeEffect DEF Has
  <2>3. QED
    BY <2>1, <2>2, Numerals DEF Mine
<1>7. CASE AcceptUpgrade(n)
  <2>1. queue' = queue
    BY <1>7 DEF AcceptUpgrade, netVars
  <2>2. /\ Has(n)
        /\ \/ entries'[n][1] = Upgraded(entries[n][1], acc[n].c)
           \/ entries'[n][1] = [entries[n][1] EXCEPT !.keyok = FALSE]
    BY <1>0, <1>7, UpgradeEffect
  <2>3. entries[n][1] \in PeerEntry
    BY <1>0, <2>2 DEF IsTable, Has
  <2>4. Mine(n)'.osock = Mine(n).osock
    BY <2>2, <2>3 DEF PeerEntry, Mine, Upgraded
  <2>5. QED
    BY <2>1, <2>2, <2>4
<1>8. CASE AcceptKey(n)
  <2>1. \/ entries'[n][1] = [NewEntry EXCEPT !.isock = acc[n].c, !.keyok = TRUE]
        \/ entries'[n][1] = NewEntry
    BY <1>0, <1>8, AcceptKeyEffect
  <2>2. [NewEntry EXCEPT !.isock = acc[n].c, !.keyok = TRUE].osock = NoSocket
    BY DEF NewEntry
  <2>3. Mine(n)' = entries'[n][1]
    BY DEF Mine
  <2>4. QED
    BY <2>1, <2>2, <2>3, Numerals
<1>9. CASE AcceptConnect(n)
  <2>1. CASE /\ Linked(n, Nodes)
             /\ entries'[n][1] = [entries[n][1] EXCEPT !.osock = made + 1]
    <3>1. Has(n)
      BY <1>0, <1>9, AcceptConnectEffect
    <3>2. entries[n][1] \in PeerEntry
      BY <1>0, <3>1 DEF IsTable, Has
    <3>3. Mine(n)'.osock = made + 1
      BY <2>1, <3>2 DEF PeerEntry, Mine
    <3>4. QED
      BY <2>1, <3>3, Numerals DEF Linked
  <2>2. QED
    BY <1>0, <1>9, <2>1, AcceptConnectEffect
<1>10. CASE AcceptAdd(n)
  BY <1>10 DEF AcceptAdd, netVars, Has, Mine
<1>11. CASE ReadEnds(n)
  BY <1>11 DEF ReadEnds, netVars, Has, Mine
<1>12. CASE ReadRemoves(n)
  BY <1>0, <1>12, ReadRemovesEffect DEF Has
<1>13. CASE Crash(n)
  BY <1>13, CrashEffect DEF Has
<1>14. CASE Restart(n) \/ ImportKey(n)
  BY <1>14 DEF Restart, ImportKey, nodeVars, netVars, Has, Mine
<1>15. QED
  BY <1>1, <1>2, <1>3, <1>4, <1>5, <1>6, <1>7, <1>8, <1>9, <1>10, <1>11, <1>12,
     <1>13, <1>14 DEF Dialling, Accepting, Reading

\* The connections to be accepted were made.
LEMMA PendingMade ==
  ASSUME ConnTypes, NEW m \in Nodes, Local(m)
  PROVE  /\ queue[m] # <<>> => /\ queue[m][Len(queue[m])] \in Conns
                               /\ queue[m][Len(queue[m])] <= made
         /\ acc[m].pc # "idle" => acc[m].c \in Conns /\ acc[m].c <= made
         /\ Has(m) /\ Mine(m).isock \in Conns => Mine(m).isock <= made
<1>1. queue[m] \in Seq(Conns)
  BY DEF ConnTypes
<1>2. queue[m] # <<>> => /\ Len(queue[m]) \in 1..Len(queue[m])
                         /\ queue[m][Len(queue[m])] \in Conns
  BY <1>1
<1>3. queue[m] # <<>> => Pending(m, queue[m][Len(queue[m])])
  BY <1>2 DEF Pending, Queued
<1>4. acc[m].pc # "idle" => acc[m].c \in Conns /\ acc[m].c <= made
  BY Numerals DEF Local, Numbers, Conns
<1>5. QED
  BY <1>2, <1>3, <1>4 DEF Local, Numbers

\* Steps of the other core leave the ended connections where they are.
LEMMA CutStays ==
  ASSUME ConnTypes, NEW n \in Nodes, NEW m \in Nodes, m # n, Local(m),
         OthersKeep(n), Beside(n, m), queue'[m] = queue[m], Cut(m)
  PROVE  Cut(m)'
<1>1. entries'[m] = entries[m] /\ acc'[m] = acc[m]
  BY DEF OthersKeep
<1>2. /\ Has(m)' <=> Has(m)
      /\ Mine(m)' = Mine(m)
  BY <1>1 DEF Has, Mine
<1>3. \A c \in Conns : c <= made /\ ends[c] # Nodes => ends'[c] # Nodes
  BY DEF Beside
<1>4. queue'[m] # <<>> => Dead(queue[m][Len(queue[m])])'
  <2>1. queue[m] # <<>> => ends'[queue[m][Len(queue[m])]] # Nodes
    BY <1>3, PendingMade DEF Cut, Dead
  <2>2. QED
    BY <2>1, PendingMade DEF Dead
<1>5. queue'[m] = <<>> /\ acc'[m].pc # "idle" => Dead(acc[m].c)'
  <2>1. queue[m] = <<>> /\ acc[m].pc # "idle" => ends'[acc[m].c] # Nodes
    BY <1>1, <1>3, PendingMade DEF Cut, Dead
  <2>2. QED
    BY <1>1, <2>1, PendingMade DEF Dead
<1>6. Has(m)' /\ Mine(m)'.isock \in Conns =>
        Dead(Mine(m).isock)' \/ queue'[m] # <<>> \/ acc'[m].pc = "upgrade"
  <2>1. Has(m) /\ Mine(m).isock \in Conns =>
          ends'[Mine(m).isock] # Nodes \/ queue[m] # <<>> \/ acc[m].pc = "upgrade"
    BY <1>3, PendingMade DEF Cut, Dead
  <2>2. QED
    BY <1>1, <1>2, <2>1 DEF Dead
<1>7. QED
  BY <1>4, <1>5, <1>6 DEF Cut

\* Nor does the core itself come by a live connection.
LEMMA CutStep ==
  ASSUME ConnTypes, NEW n \in Nodes, One(n), Local(n), Orderly', Cut(n),
         \/ Dialling(n) \/ Accepting(n) \/ Reading(n)
         \/ Crash(n) \/ Restart(n) \/ ImportKey(n)
  PROVE  Cut(n)'
<1>0. /\ DialShape(n) /\ AccShape(n) /\ Numbers(n) /\ EntryShape(n)
      /\ IsTable(entries[n]) /\ queue[n] \in Seq(Conns)
  BY DEF ConnTypes, Local
<1>1. ASSUME queue'[n] = queue[n], \A c \in Conns : c <= made => ends'[c] = ends[c],
             acc'[n].pc # "idle" => acc[n].pc # "idle" /\ acc'[n].c = acc[n].c,
             Has(n)' /\ Mine(n)'.isock \in Conns =>
               \/ acc[n].pc # "idle" /\ Mine(n)'.isock = acc[n].c
               \/ /\ Has(n) /\ Mine(n).isock = Mine(n)'.isock
                  /\ acc[n].pc = "upgrade" => acc'[n].pc = "upgrade"
      PROVE  Cut(n)'
  <2>1. queue'[n] # <<>> => Dead(queue[n][Len(queue[n])])'
    <3>1. queue[n] # <<>> => ends'[queue[n][Len(queue[n])]] # Nodes
      BY <1>1, PendingMade DEF Cut, Dead
    <3>2. QED
      BY <1>1, <3>1, PendingMade DEF Dead
  <2>2. queue'[n] = <<>> /\ acc[n].pc # "idle" => ends'[acc[n].c] # Nodes
    BY <1>1, PendingMade DEF Cut, Dead
  <2>3. queue'[n] = <<>> /\ acc'[n].pc # "idle" => Dead(acc[n].c)'
    BY <1>1, <2>2, PendingMade DEF Dead
  <2>4. ASSUME Has(n)', Mine(n)'.isock \in Conns, queue'[n] = <<>>,
               acc'[n].pc # "upgrade"
        PROVE  ends'[Mine(n)'.isock] # Nodes
    <3>1. CASE acc[n].pc # "idle" /\ Mine(n)'.isock = acc[n].c
      BY <2>2, <2>4, <3>1
    <3>2. CASE /\ Has(n) /\ Mine(n).isock = Mine(n)'.isock
               /\ acc[n].pc # "upgrade"
      <4>1. /\ Mine(n).isock \in Conns /\ Mine(n).isock <= made
            /\ ends[Mine(n).isock] # Nodes
        BY <1>1, <2>4, <3>2, PendingMade DEF Cut, Dead
      <4>2. QED
        BY <1>1, <3>2, <4>1
    <3>3. QED
      BY <1>1, <2>4, <3>1, <3>2
  <2>5. QED
    BY <2>1, <2>3, <2>4 DEF Cut, Dead
<1>2. ASSUME UNCHANGED netVars
      PROVE  queue'[n] = queue[n] /\ \A c \in Conns : c <= made => ends'[c] = ends[c]
  BY <1>2 DEF netVars
<1>3. ASSUME NEW open, Linked(n, open)
      PROVE  queue'[n] = queue[n] /\ \A c \in Conns : c <= made => ends'[c] = ends[c]
  BY <1>3, Numerals DEF Linked
<1>4. CASE DialProbe(n)
  <2>1. UNCHANGED netVars /\ acc' = acc
    BY <1>4 DEF DialProbe
  <2>2. Has(n)' => entries'[n][1] = NewEntry \/ (Has(n) /\ entries'[n][1] = entries[n][1])
    BY <1>4, ProbeEffect DEF Has
  <2>3. Has(n)' /\ Mine(n)'.isock \in Conns => Has(n) /\ Mine(n).isock = Mine(n)'.isock
    BY <2>2, Numerals DEF Mine
  <2>4. QED
    BY <1>1, <1>2, <2>1, <2>3
<1>5. CASE DialUnprobe(n)
  <2>1. UNCHANGED netVars /\ acc' = acc
    BY <1>5 DEF DialUnprobe
  <2>2. Has(n)' => Has(n) /\ entries'[n][1] = entries[n][1]
    BY <1>5, UnprobeEffect DEF Has
  <2>3. Has(n)' /\ Mine(n)'.isock \in Conns => Has(n) /\ Mine(n).isock = Mine(n)'.isock
    BY <2>2 DEF Mine
  <2>4. QED
    BY <1>1, <1>2, <2>1, <2>3
<1>6. CASE DialConnect(n)
  <2>1. /\ queue'[n] = queue[n]
        /\ \A c \in Conns : c <= made => ends'[c] = ends[c]
    BY <1>2, <1>3, <1>6, DialConnectEffect
  <2>2. acc' = acc /\ ~Has(n)'
    BY <1>0, <1>6 DEF DialConnect, DialAt, DialShape, Has
  <2>3. QED
    BY <1>1, <2>1, <2>2
<1>7. CASE DialAdd(n)
  <2>1. UNCHANGED netVars /\ acc' = acc
    BY <1>7 DEF DialAdd
  <2>2. Mine(n)'.isock = Oneway
    BY <1>0, <1>7, DialAddEffect DEF Mine, NewEntry
  <2>3. QED
    BY <1>1, <1>2, <2>1, <2>2, Numerals
<1>8. CASE DialKey(n)
  <2>1. UNCHANGED netVars /\ acc' = acc /\ dial[n].pc = "key"
    BY <1>8 DEF DialKey, DialAt
  <2>2. Has(n)' => /\ Has(n)
                   /\ \/ entries'[n][1] = [entries[n][1] EXCEPT !.isock = Oneway, !.keyok = TRUE]
                      \/ entries'[n][1] = entries[n][1]
    BY <1>0, <1>8, DialKeyEffect DEF Has
  <2>3. Has(n) => entries[n][1] \in PeerEntry /\ entries[n][1].isock = Oneway
    BY <1>0, <2>1 DEF IsTable, Has, DialShape, Dialled, Mine
  <2>4. Has(n)' => Mine(n)'.isock = Oneway
    BY <2>2, <2>3 DEF PeerEntry, Mine
  <2>5. QED
    BY <1>1, <1>2, <2>1, <2>4, Numerals
<1>9. CASE AcceptTake(n)
  <2>1. /\ queue[n] # <<>> /\ queue'[n] = Tail(queue[n])
        /\ acc'[n].c = Head(queue[n]) /\ acc[n].pc = "idle"
        /\ ends' = ends
    BY <1>9, TakeEffect DEF AcceptTake, AccAt
  <2>2. /\ Tail(queue[n]) # <<>> =>
             Tail(queue[n])[Len(Tail(queue[n]))] = queue[n][Len(queue[n])]
        /\ Tail(queue[n]) = <<>> => Head(queue[n]) = queue[n][Len(queue[n])]
    BY <1>0, <2>1, TakeHead DEF Numbers
  <2>3. Dead(queue[n][Len(queue[n])])
    BY <2>1 DEF Cut
  <2>4. queue'[n] # <<>> => Dead(queue[n][Len(queue[n])])'
    BY <2>1, <2>2, <2>3 DEF Dead
  <2>5. queue'[n] = <<>> => Dead(acc[n].c)'
    BY <2>1, <2>2, <2>3 DEF Dead
  <2>6. Has(n)' => acc'[n].pc = "upgrade" \/ entries'[n][1] = NewEntry
    BY <1>9, TakeEffect
  <2>7. Has(n)' /\ Mine(n)'.isock \in Conns => acc'[n].pc = "upgrade"
    BY <2>6, Numerals DEF Mine
  <2>8. QED
    BY <2>4, <2>5, <2>7 DEF Cut
<1>10. CASE AcceptUpgrade(n)
  <2>1. UNCHANGED netVars /\ acc[n].pc = "upgrade"
    BY <1>10 DEF AcceptUpgrade, AccAt
  <2>2. /\ Has(n) /\ entries[n][1].isock = Oneway /\ acc'[n] = Idle
        /\ \/ entries'[n][1] = Upgraded(entries[n][1], acc[n].c)
           \/ entries'[n][1] = [entries[n][1] EXCEPT !.keyok = FALSE]
    BY <1>0, <1>10, UpgradeEffect
  <2>3. entries[n][1] \in PeerEntry
    BY <1>0, <2>2 DEF IsTable, Has
  <2>4. Mine(n)'.isock = acc[n].c \/ Mine(n)'.isock = Oneway
    BY <2>2, <2>3 DEF PeerEntry, Mine, Upgraded
  <2>5. acc'[n].pc = "idle"
    BY <2>2 DEF Idle
  <2>6. QED
    BY <1>1, <1>2, <2>1, <2>4, <2>5, Numerals
<1>11. CASE AcceptKey(n)
  <2>1. UNCHANGED netVars /\ acc[n].pc = "key"
    BY <1>11 DEF AcceptKey, AccAt
  <2>2. /\ \/ /\ entries'[n][1] = [NewEntry EXCEPT !.isock = acc[n].c, !.keyok = TRUE]
              /\ acc'[n] = [acc[n] EXCEPT !.pc = "connect"]
           \/ entries'[n][1] = NewEntry /\ acc'[n] = Idle
    BY <1>0, <1>11, AcceptKeyEffect
  <2>3. [NewEntry EXCEPT !.isock = acc[n].c, !.keyok = TRUE].isock = acc[n].c
    BY DEF NewEntry
  <2>4. Mine(n)' = entries'[n][1]
    BY DEF Mine
  <2>5. Mine(n)'.isock = acc[n].c \/ Mine(n)'.isock = NoSocket
    BY <2>2, <2>3, <2>4, Numerals
  <2>6. acc'[n].pc # "idle" => acc'[n].c = acc[n].c
    <3>1. acc[n] = [pc |-> acc[n].pc, c |-> acc[n].c, p |-> acc[n].p]
      BY DEF ConnTypes, Thread
    <3>2. QED
      BY <2>2, <3>1 DEF Idle
  <2>7. QED
    BY <1>1, <1>2, <2>1, <2>5, <2>6, Numerals
<1>12. CASE AcceptConnect(n)
  <2>1. /\ queue'[n] = queue[n]
        /\ \A c \in Conns : c <= made => ends'[c] = ends[c]
    BY <1>0, <1>2, <1>3, <1>12, AcceptConnectEffect
  <2>2. /\ acc[n].pc = "connect" /\ Has(n) /\ entries[n][1].isock = acc[n].c
        /\ acc'[n] = [acc[n] EXCEPT !.pc = "add"]
        /\ \/ entries'[n][1] = [entries[n][1] EXCEPT !.osock = made + 1]
           \/ entries'[n][1] = [entries[n][1] EXCEPT !.osock = Oneway,
                                                     !.connectable = FALSE]
    BY <1>0, <1>12, AcceptConnectEffect DEF AcceptConnect, AccAt
  <2>3. entries[n][1] \in PeerEntry
    BY <1>0, <2>2 DEF IsTable, Has
  <2>4. Mine(n)'.isock = acc[n].c
    BY <2>2, <2>3 DEF PeerEntry, Mine
  <2>5. acc'[n].c = acc[n].c
    <3>1. acc[n] = [pc |-> acc[n].pc, c |-> acc[n].c, p |-> acc[n].p]
      BY DEF ConnTypes, Thread
    <3>2. QED
      BY <2>2, <3>1
  <2>6. QED
    BY <1>1, <2>1, <2>2, <2>4, <2>5
<1>13. CASE AcceptAdd(n)
  <2>1. UNCHANGED netVars /\ acc[n].pc = "add" /\ entries' = entries
    BY <1>13 DEF AcceptAdd, AccAt
  <2>2. acc'[n].pc = "idle"
    BY <1>0, <1>13, AcceptAddEffect DEF Idle
  <2>3. QED
    BY <1>1, <1>2, <2>1, <2>2 DEF Has, Mine
<1>14. CASE ReadEnds(n)
  <2>1. UNCHANGED netVars /\ acc' = acc /\ entries' = entries
    BY <1>14 DEF ReadEnds
  <2>2. QED
    BY <1>1, <1>2, <2>1 DEF Has, Mine
<1>15. CASE ReadRemoves(n)
  <2>1. UNCHANGED netVars /\ acc' = acc
    BY <1>15 DEF ReadRemoves
  <2>2. ~Has(n)'
    BY <1>0, <1>15, ReadRemovesEffect DEF Has
  <2>3. QED
    BY <1>1, <1>2, <2>1, <2>2
<1>16. CASE Crash(n)
  BY <1>16, CrashEffect DEF Cut, Has, Idle
<1>17. CASE Restart(n) \/ ImportKey(n)
  <2>1. UNCHANGED netVars /\ acc' = acc /\ entries' = entries
    BY <1>17 DEF Restart, ImportKey, nodeVars
  <2>2. QED
    BY <1>1, <1>2, <2>1 DEF Has, Mine
<1>18. QED
  BY <1>4, <1>5, <1>6, <1>7, <1>8, <1>9, <1>10, <1>11, <1>12, <1>13, <1>14,
     <1>15, <1>16, <1>17 DEF Dialling, Accepting, Reading

\* So a core with a oneway peer is cut off from its side.
LEMMA KeptByMe ==
  ASSUME ConnTypes, NEW n \in Nodes, NEW m \in Nodes, m = Other(n),
         One(n), Local(n), One(m), Local(m), Kept(n), Orderly',
         OthersKeep(n), Beside(n, m),
         \/ Dialling(n) \/ Accepting(n) \/ Reading(n)
         \/ Crash(n) \/ Restart(n) \/ ImportKey(n)
  PROVE  Kept(n)'
<1>0. m # n /\ queue[m] \in Seq(Conns)
  BY OtherCore DEF ConnTypes
<1>1. SUFFICES ASSUME Has(n)', Mine(n)'.osock = Oneway
               PROVE  Cut(m)'
  BY DEF Kept
<1>2. CASE Has(n) /\ Mine(n).osock = Oneway /\ queue'[m] = queue[m]
  <2>1. Cut(m)
    BY <1>2 DEF Kept
  <2>2. QED
    BY <1>0, <1>2, <2>1, CutStays
<1>3. CASE Linked(n, {m})
  <2>1. queue'[m] = Append(queue[m], made + 1) /\ made + 1 \in Conns
    BY <1>3 DEF Linked
  <2>2. queue'[m] # <<>> /\ queue'[m][Len(queue'[m])] = made + 1
    BY <1>0, <2>1
  <2>3. ends'[made + 1] # Nodes
    BY <1>0, <1>3 DEF Linked
  <2>4. Dead(queue[m][Len(queue[m])])'
    BY <2>1, <2>2, <2>3 DEF Dead
  <2>5. QED
    BY <2>2, <2>4 DEF Cut
<1>4. CASE UNCHANGED netVars /\ m \notin up \cap reach
  <2>1. queue[m] = <<>> /\ acc[m].pc = "idle" /\ (Has(m) => Mine(m).isock \notin Conns)
    BY <1>4 DEF Local, Down, NoWay, Has
  <2>2. queue'[m] = <<>> /\ acc'[m].pc = "idle"
    BY <1>0, <1>4, <2>1 DEF netVars, OthersKeep
  <2>3. Has(m)' => Mine(m)'.isock \notin Conns
    BY <1>0, <2>1 DEF OthersKeep, Has, Mine
  <2>4. QED
    BY <2>2, <2>3 DEF Cut
<1>5. QED
  BY <1>1, <1>2, <1>3, <1>4, OnewayStep

\* And this one from the other's.
LEMMA KeptToMe ==
  ASSUME ConnTypes, NEW n \in Nodes, NEW m \in Nodes, n = Other(m), m # n,
         One(n), Local(n), Kept(m), Orderly', OthersKeep(n),
         \/ Dialling(n) \/ Accepting(n) \/ Reading(n)
         \/ Crash(n) \/ Restart(n) \/ ImportKey(n)
  PROVE  Kept(m)'
<1>1. SUFFICES ASSUME Has(m)', Mine(m)'.osock = Oneway
               PROVE  Cut(n)'
  BY DEF Kept
<1>2. Has(m) /\ Mine(m).osock = Oneway
  BY <1>1 DEF OthersKeep, Has, Mine
<1>3. Cut(n)
  BY <1>2 DEF Kept
<1>4. QED
  BY <1>3, CutStep


-----------------------------------------------------------------------------
\* The inductive invariant holds

\* Nothing is connected at first.
LEMMA ConnStart == ConnInit => ConnIInv
<1> SUFFICES ASSUME ConnInit
             PROVE  ConnIInv
  OBVIOUS
<1>1. /\ \A n \in Nodes : /\ entries[n] = EmptyTable /\ DOMAIN entries[n] = {}
                          /\ rset[n] = {} /\ wset[n] = {} /\ queue[n] = <<>>
                          /\ acc[n].pc = "idle" /\ dial[n].pc = "idle"
                          /\ leaving[n] = 0
      /\ made = 0 /\ up = Nodes /\ mishaps = {}
  BY DEF ConnInit, EmptyTable, Idle
<1>2. ConnTypes
  <2>1. /\ reach \subseteq Nodes /\ keyed \subseteq Nodes
    BY SetupsAssumption DEF ConnInit
  <2>2. DOMAIN entries = Nodes /\ \A n \in Nodes : IsTable(entries[n])
    BY DEF ConnInit, IsTable, EmptyTable
  <2>3. /\ Idle \in Thread({"idle", "upgrade", "key", "connect", "add"})
        /\ Idle \in Thread({"idle", "found", "missed", "connect", "add", "key"})
    BY BoundsAssumption DEF Idle, Thread
  <2>4. /\ acc \in [Nodes -> Thread({"idle", "upgrade", "key", "connect", "add"})]
        /\ dial \in [Nodes -> Thread({"idle", "found", "missed", "connect", "add", "key"})]
    BY <2>3 DEF ConnInit
  <2>5. /\ rset \in [Nodes -> SUBSET Conns] /\ wset \in [Nodes -> SUBSET Conns]
        /\ leaving \in [Nodes -> Ids \cup {0}] /\ ends \in [Conns -> SUBSET Nodes]
        /\ queue \in [Nodes -> Seq(Conns)]
    BY DEF ConnInit
  <2>6. made \in 0..MaxConns /\ troubles \in 0..MaxTroubles
    BY BoundsAssumption DEF ConnInit
  <2>7. \A n \in Nodes : \A i \in 1..Len(queue[n]) : n \in ends[queue[n][i]]
    BY <1>1
  <2>8. \A c \in Conns : ends[c] = {}
    BY DEF ConnInit
  <2>9. QED
    BY <1>1, <2>1, <2>2, <2>4, <2>5, <2>6, <2>7, <2>8 DEF ConnTypes
<1>3. ASSUME NEW n \in Nodes
      PROVE  One(n) /\ Local(n) /\ Delivered(n) /\ Kept(n) /\ InSets(n)
  <2>1. ~Has(n) /\ \A c : ~Queued(n, c) /\ ~Pending(n, c)
    BY <1>1 DEF Has, Queued, Pending
  <2>2. One(n) /\ Down(n) /\ DialShape(n) /\ AccShape(n) /\ EntryShape(n)
    BY <1>1, <2>1 DEF One, Down, DialShape, AccShape, EntryShape
  <2>3. Numbers(n)
    BY <1>1, <2>1 DEF Numbers
  <2>4. NoWay(n) /\ Paired(n) /\ InSets(n) /\ Kept(n) /\ Delivered(n)
    BY <1>1, <2>1 DEF NoWay, Paired, InSets, Kept, Delivered, Out
  <2>5. QED
    BY <2>2, <2>3, <2>4 DEF Local
<1>4. QED
  BY <1>2, <1>3 DEF ConnIInv

\* A step of a core leaves the types and what the other core has alone.
LEMMA StepTypes ==
  ASSUME ConnTypes, NEW n \in Nodes, One(n), Local(n),
         \/ Dialling(n) \/ Accepting(n) \/ Reading(n)
         \/ Crash(n) \/ Restart(n) \/ ImportKey(n)
  PROVE  ConnTypes' /\ OthersKeep(n) /\ mishaps \subseteq mishaps'
<1>0. DialShape(n) /\ AccShape(n) /\ Numbers(n) /\ EntryShape(n)
  BY DEF Local
<1>1. CASE Dialling(n)
  <2>1. ConnTypes' /\ OthersKeep(n)
    BY <1>0, <1>1, ProbeEffect, UnprobeEffect, DialConnectEffect, DialAddEffect,
       DialKeyEffect DEF Dialling
  <2>2. mishaps \subseteq mishaps'
    BY <1>1 DEF Dialling, DialProbe, DialUnprobe, DialConnect, DialAdd, DialKey, Mishap
  <2>3. QED
    BY <2>1, <2>2
<1>2. CASE Accepting(n)
  <2>1. ConnTypes' /\ OthersKeep(n)
    BY <1>0, <1>2, TakeEffect, UpgradeEffect, AcceptKeyEffect, AcceptConnectEffect,
       AcceptAddEffect DEF Accepting
  <2>2. ASSUME AcceptConnect(n) \/ AcceptAdd(n)
        PROVE  mishaps \subseteq mishaps'
    BY <2>2 DEF AcceptConnect, AcceptAdd
  <2>3. mishaps \subseteq mishaps'
    BY <1>0, <1>2, <2>2, TakeEffect, UpgradeEffect, AcceptKeyEffect DEF Accepting
  <2>4. QED
    BY <2>1, <2>3
<1>3. CASE Reading(n)
  <2>1. mishaps \subseteq mishaps'
    BY <1>3 DEF Reading, ReadEnds, ReadRemoves
  <2>2. QED
    BY <1>0, <1>3, <2>1, ReadEndsEffect, ReadRemovesEffect DEF Reading
<1>4. CASE Crash(n)
  BY <1>4, CrashEffect
<1>5. CASE Restart(n)
  <2>1. /\ up' = up \cup {n}
        /\ UNCHANGED <<nodeVars, netVars, reach, keyed, troubles, mishaps>>
    BY <1>5 DEF Restart
  <2>2. QED
    BY <2>1 DEF nodeVars, netVars, ConnTypes, OthersKeep, IsTable
<1>6. CASE ImportKey(n)
  <2>1. /\ keyed' = keyed \cup {n}
        /\ UNCHANGED <<nodeVars, netVars, up, reach, troubles, mishaps>>
    BY <1>6 DEF ImportKey
  <2>2. QED
    BY <2>1 DEF nodeVars, netVars, ConnTypes, OthersKeep, IsTable
<1>7. QED
  BY <1>1, <1>2, <1>3, <1>4, <1>5, <1>6

\* A step of a core keeps its own things in order.
LEMMA StepLocal ==
  ASSUME ConnTypes, NEW n \in Nodes, One(n), Local(n),
         \/ Dialling(n) \/ Accepting(n) \/ Reading(n)
         \/ Crash(n) \/ Restart(n) \/ ImportKey(n)
  PROVE  /\ One(n)' /\ (Orderly' => Local(n)')
         /\ mishaps' = {} /\ InSets(n) => InSets(n)'
<1>1. CASE Dialling(n)
  BY <1>1, ProbeLocal, UnprobeLocal, DialConnectLocal, DialAddLocal, DialKeyLocal
     DEF Dialling
<1>2. CASE Accepting(n)
  BY <1>2, TakeLocal, UpgradeLocal, AcceptKeyLocal, AcceptConnectLocal, AcceptAddLocal
     DEF Accepting
<1>3. CASE Reading(n)
  BY <1>3, ReadEndsLocal, ReadRemovesLocal DEF Reading
<1>4. CASE Crash(n)
  BY <1>4, CrashLocal
<1>5. CASE Restart(n)
  <2>1. /\ up' = up \cup {n}
        /\ UNCHANGED <<nodeVars, netVars, reach, keyed, troubles, mishaps>>
    BY <1>5 DEF Restart
  <2>2. One(n)' /\ DialShape(n)' /\ AccShape(n)' /\ EntryShape(n)' /\ Down(n)'
    BY <2>1 DEF nodeVars, netVars, One, Probing, Local, DialShape, AccShape,
                EntryShape, Down, Has, Mine, Dead
  <2>3. Numbers(n)' /\ NoWay(n)' /\ Paired(n)' /\ (InSets(n) => InSets(n)')
    BY <2>1 DEF nodeVars, netVars, Local, Numbers, Pending, Queued, NoWay, Paired,
                InSets, InHand, Probing, Has, Mine, Dead
  <2>4. QED
    BY <2>2, <2>3 DEF Local
<1>6. CASE ImportKey(n)
  <2>1. UNCHANGED <<nodeVars, netVars, up, reach, troubles, mishaps>>
    BY <1>6 DEF ImportKey
  <2>2. One(n)' /\ DialShape(n)' /\ AccShape(n)' /\ EntryShape(n)' /\ Down(n)'
    BY <2>1 DEF nodeVars, netVars, One, Probing, Local, DialShape, AccShape,
                EntryShape, Down, Has, Mine, Dead
  <2>3. Numbers(n)' /\ NoWay(n)' /\ Paired(n)' /\ (InSets(n) => InSets(n)')
    BY <2>1 DEF nodeVars, netVars, Local, Numbers, Pending, Queued, NoWay, Paired,
                InSets, InHand, Probing, Has, Mine, Dead
  <2>4. QED
    BY <2>2, <2>3 DEF Local
<1>7. QED
  BY <1>1, <1>2, <1>3, <1>4, <1>5, <1>6

\* Every step of the two cores keeps the invariant.
LEMMA ConnStep ==
  ASSUME ConnIInv, ConnNext
  PROVE  ConnIInv'
<1>1. /\ Orderly /\ ConnTypes
      /\ \A k \in Nodes : One(k) /\ Local(k) /\ Delivered(k) /\ Kept(k)
  BY DEF ConnIInv, ConnNext, Orderly
<1>2. PICK n \in Nodes : \/ Dialling(n) \/ Accepting(n) \/ Reading(n)
                         \/ Crash(n) \/ Restart(n) \/ ImportKey(n)
  BY DEF ConnNext
<1> DEFINE m == Other(n)
<1>3. /\ m \in Nodes /\ m # n /\ Other(m) = n
      /\ \A k \in Nodes : k = n \/ k = m
  BY OtherCore
<1>4. ConnTypes' /\ OthersKeep(n) /\ mishaps \subseteq mishaps'
  BY <1>1, <1>2, StepTypes
<1>5. Beside(n, m)
  BY <1>1, <1>2, <1>3, StepBeside
<1>6. /\ One(n)' /\ (Orderly' => Local(n)')
      /\ mishaps' = {} /\ InSets(n) => InSets(n)'
  BY <1>1, <1>2, StepLocal
<1>7. One(m)' /\ Local(m)' /\ (InSets(m) => InSets(m)')
  BY <1>1, <1>3, <1>4, <1>5, OtherLocal
<1>8. ASSUME Orderly'
      PROVE  Delivered(n)' /\ Kept(n)'
  BY <1>1, <1>2, <1>3, <1>4, <1>5, <1>8, DeliveredByMe, KeptByMe
<1>9. ASSUME Orderly'
      PROVE  Delivered(m)' /\ Kept(m)'
  BY <1>1, <1>2, <1>3, <1>4, <1>5, <1>9, DeliveredToMe, KeptToMe
<1> HIDE DEF m
<1>10. \A k \in Nodes : One(k)'
  BY <1>3, <1>6, <1>7
<1>11. Orderly' => \A k \in Nodes : Local(k)' /\ Delivered(k)' /\ Kept(k)'
  BY <1>3, <1>6, <1>7, <1>8, <1>9
<1>12. mishaps' = {} => \A k \in Nodes : InSets(k)'
  <2>1. mishaps' = {} => mishaps = {}
    BY <1>4
  <2>2. mishaps' = {} => InSets(n) /\ InSets(m)
    BY <1>3, <2>1 DEF ConnIInv
  <2>3. QED
    BY <1>3, <1>6, <1>7, <2>2
<1>13. QED
  BY <1>4, <1>10, <1>11, <1>12 DEF ConnIInv

\* Stuttering does too.
LEMMA ConnStutter ==
  ASSUME ConnIInv, UNCHANGED connVars
  PROVE  ConnIInv'
<1>1. UNCHANGED <<entries, rset, wset, acc, dial, leaving, queue, ends, made,
                  up, reach, keyed, troubles, mishaps>>
  BY DEF connVars, nodeVars, netVars, worldVars
<1>2. ConnTypes'
  BY <1>1 DEF ConnIInv, ConnTypes, IsTable
<1>3. \A n \in Nodes : /\ One(n)' <=> One(n)
                       /\ InSets(n)' <=> InSets(n)
  BY <1>1 DEF One, Probing, InSets, InHand, Has, Mine
<1>4. \A n \in Nodes : Local(n) => Local(n)'
  BY <1>1 DEF Local, Down, DialShape, AccShape, EntryShape, Numbers, Pending, Queued,
              NoWay, Paired, Has, Mine, Dead
<1>5. \A n \in Nodes : /\ Delivered(n) => Delivered(n)'
                       /\ Kept(n) => Kept(n)'
  BY <1>1 DEF Delivered, Out, Arrived, Kept, Cut, Has, Mine, Dead
<1>6. QED
  BY <1>1, <1>2, <1>3, <1>4, <1>5 DEF ConnIInv, Orderly

-----------------------------------------------------------------------------
\* The properties

\* Only the entry in the first place can be anybody's peer.
LEMMA OnlyPeer ==
  ASSUME NEW n \in Nodes, One(n)
  PROVE  \A p \in Peers(n) : p = 1 /\ Has(n) /\ ~InHand(n, 1)
BY DEF One, Peers, InHand, Has

(***************************************************************************)
(* The inductive invariant holds in every state: where the entries, the     *)
(* three threads and the connections under way stand to each other.         *)
(***************************************************************************)
THEOREM ConnInductive == ConnSpec => []ConnIInv
<1>1. ConnIInv /\ [ConnNext]_connVars => ConnIInv'
  BY ConnStep, ConnStutter
<1>2. QED
  BY <1>1, ConnStart, PTL DEF ConnSpec

\* The tables hold entries of the program.
LEMMA ConnTypesOK ==
  ASSUME ConnIInv
  PROVE  EntriesTypeOK
<1>1. \A n \in Nodes : /\ DOMAIN entries[n] \subseteq Ids
                       /\ \A p \in DOMAIN entries[n] : entries[n][p] \in PeerEntry
  BY DEF ConnIInv, ConnTypes, IsTable
<1>2. QED
  BY <1>1 DEF ConnIInv, ConnTypes, EntriesTypeOK

\* There is one entry for the other core.
LEMMA ConnOneEntry ==
  ASSUME ConnIInv
  PROVE  OneEntry
<1>1. SUFFICES ASSUME "overlap" \notin mishaps, NEW n \in Nodes
               PROVE  Cardinality({p \in DOMAIN entries[n] : ~Probing(n, p)}) <= 1
  BY DEF OneEntry
<1> DEFINE S == {p \in DOMAIN entries[n] : ~Probing(n, p)}
<1>2. S = {} \/ S = {1}
  BY <1>1 DEF ConnIInv, One
<1>3. Cardinality({}) = 0 /\ Cardinality({1}) = 1
  BY FS_EmptySet, FS_Singleton
<1>4. QED
  BY <1>2, <1>3

\* What ListPeers shows of it is true.
LEMMA ConnStatus ==
  ASSUME ConnIInv
  PROVE  StatusHonest
<1>1. SUFFICES ASSUME Orderly, NEW n \in up, NEW p \in Peers(n),
                      Status(entries[n][p]) = "ok"
               PROVE  /\ {entries[n][p].osock, entries[n][p].isock} \subseteq Conns
                      /\ entries[n][p].osock # entries[n][p].isock
  BY DEF StatusHonest
<1>2. n \in Nodes /\ ConnTypes
  BY <1>1 DEF ConnIInv, ConnTypes
<1>3. One(n) /\ Local(n)
  BY <1>1, <1>2 DEF ConnIInv, Orderly
<1>4. p = 1 /\ Has(n) /\ ~InHand(n, 1)
  BY <1>1, <1>2, <1>3, OnlyPeer
<1>5. acc[n].pc # "connect"
  BY <1>3, <1>4 DEF InHand, Local, AccShape
<1>6. /\ Mine(n).keyok /\ Mine(n).connectable /\ Mine(n).isock > 0
  BY <1>1, <1>4 DEF Status, Mine
<1>7. Double(Mine(n))
  BY <1>2, <1>3, <1>4, <1>5, <1>6, Numerals
     DEF Local, EntryShape, Dialled, Single, Oneway
<1>8. QED
  BY <1>4, <1>7 DEF Double, Mine

(***************************************************************************)
(* However the accepting, the connecting and the reading thread of two      *)
(* cores interleave, and whichever of them goes away and comes back, a core *)
(* has one entry for the other one, and shows it as "ok" only if there is a *)
(* connection for each direction.                                           *)
(***************************************************************************)
THEOREM ConnEntries == ConnSpec => []EntriesInv
<1>1. ConnIInv => EntriesInv
  BY ConnTypesOK, ConnOneEntry, ConnStatus DEF EntriesInv
<1>2. QED
  BY <1>1, ConnInductive, PTL

\* Both sockets of a peer are in the sets that select is given.
LEMMA ConnWatched ==
  ASSUME ConnIInv
  PROVE  Watched
<1>1. SUFFICES ASSUME mishaps = {}, NEW n \in Nodes, NEW p \in Peers(n)
               PROVE  /\ RecvSock(entries[n][p]) \in rset[n]
                      /\ SendSock(entries[n][p]) \in wset[n]
  BY DEF Watched
<1>2. One(n) /\ InSets(n)
  BY <1>1 DEF ConnIInv
<1>3. p = 1 /\ Has(n) /\ ~InHand(n, 1)
  BY <1>1, <1>2, OnlyPeer
<1>4. QED
  BY <1>2, <1>3 DEF InSets, Mine

(***************************************************************************)
(* As long as no mishap happened, read_thread waits for data where the peer *)
(* sends it, and what is to be sent goes where select is asked about.       *)
(***************************************************************************)
THEOREM ConnSets == ConnSpec => []Watched
<1>1. ConnIInv => Watched
  BY ConnWatched
<1>2. QED
  BY <1>1, ConnInductive, PTL

(***************************************************************************)
(* When nothing is under way, what one core sends on is what the other one  *)
(* receives from.  A connection out of an entry is live if the one that     *)
(* data comes in from is (Paired); a live one has arrived (Delivered), which *)
(* here means that it is the isock of an entry with a key; and a oneway     *)
(* entry's only connection is the one its peer dialled, as the peer has no  *)
(* other live one (Kept).                                                   *)
(***************************************************************************)
LEMMA ConnAgree ==
  ASSUME ConnIInv
  PROVE  Agree
<1>1. SUFFICES ASSUME Orderly, Quiet, \A k \in Nodes : Alive(k),
                      NEW n \in Nodes, NEW p \in Peers(n), NEW q \in Peers(Other(n)),
                      entries[n][p].keyok, entries[Other(n)][q].keyok
               PROVE  SendSock(entries[n][p]) = RecvSock(entries[Other(n)][q])
  BY DEF Agree
<1> DEFINE m == Other(n)
<1>2. m \in Nodes /\ m # n /\ Other(m) = n /\ ConnTypes
  BY OtherCore DEF ConnIInv
<1>3. \A k \in Nodes : One(k) /\ Local(k) /\ Delivered(k) /\ Kept(k)
  BY <1>1 DEF ConnIInv, Orderly
<1>4. p = 1 /\ Has(n) /\ q = 1 /\ Has(m)
  BY <1>1, <1>2, <1>3, OnlyPeer
<1>5. /\ ~Dead(RecvSock(Mine(n))) /\ ~Dead(RecvSock(Mine(m)))
      /\ Mine(n).keyok /\ Mine(m).keyok
  BY <1>1, <1>2, <1>4 DEF Alive, Mine
<1> HIDE DEF m
<1>6. \A k \in Nodes : queue[k] = <<>> /\ acc[k].pc = "idle" /\ dial[k].pc = "idle"
  BY <1>1 DEF Quiet, Settled
<1>7. ASSUME NEW k \in Nodes, Has(k), Mine(k).keyok
      PROVE  Dialled(Mine(k)) \/ Double(Mine(k)) \/ Single(Mine(k))
  BY <1>2, <1>3, <1>6, <1>7, Numerals DEF Local, EntryShape
<1>8. ASSUME NEW k \in Nodes, Has(k), Has(Other(k)), Mine(Other(k)).keyok,
             Other(k) \in Nodes, Mine(k).osock \in Conns, ~Dead(Mine(k).osock)
      PROVE  Mine(Other(k)).isock = Mine(k).osock
  <2>1. Out(k, Mine(k).osock)
    BY <1>8 DEF Out
  <2>2. Arrived(Other(k), Mine(k).osock)
    BY <1>3, <1>8, <2>1 DEF Delivered
  <2>3. QED
    BY <1>6, <1>8, <2>2 DEF Arrived
<1>9. CASE Mine(n).osock \in Conns
  <2>1. ~Dead(Mine(n).osock)
    <3>1. CASE Dialled(Mine(n))
      BY <1>5, <3>1 DEF Dialled, RecvSock
    <3>2. CASE Double(Mine(n))
      <4>1. RecvSock(Mine(n)) = Mine(n).isock
        BY <1>2, <3>2, Numerals DEF Double, RecvSock
      <4>2. QED
        BY <1>3, <1>4, <1>5, <3>2, <4>1 DEF Local, Paired
    <3>3. CASE Single(Mine(n))
      BY <1>2, <1>9, <3>3, Numerals DEF Single
    <3>4. QED
      BY <1>4, <1>5, <1>7, <3>1, <3>2, <3>3
  <2>2. Mine(m).isock = Mine(n).osock
    BY <1>2, <1>4, <1>5, <1>8, <1>9, <2>1 DEF m
  <2>3. /\ SendSock(Mine(n)) = Mine(n).osock
        /\ RecvSock(Mine(m)) = Mine(m).isock
    BY <1>2, <1>9, <2>2, Numerals DEF SendSock, RecvSock
  <2>4. QED
    BY <1>4, <2>2, <2>3 DEF Mine, m
<1>10. CASE Single(Mine(n))
  <2>1. Cut(m)
    BY <1>3, <1>4, <1>10 DEF Kept, Single, m
  <2>2. Mine(m).isock \notin Conns
    <3>1. ASSUME Mine(m).isock \in Conns
          PROVE  FALSE
      <4>1. RecvSock(Mine(m)) = Mine(m).isock
        BY <1>2, <3>1, Numerals DEF RecvSock
      <4>2. Dead(Mine(m).isock)
        BY <1>2, <1>4, <1>6, <2>1, <3>1 DEF Cut
      <4>3. QED
        BY <1>5, <4>1, <4>2
    <3>2. QED
      BY <3>1
  <2>3. Dialled(Mine(m))
    BY <1>2, <1>4, <1>5, <1>7, <2>2 DEF Double, Single
  <2>4. RecvSock(Mine(m)) = Mine(m).osock /\ Mine(m).osock \in Conns
    BY <2>3 DEF Dialled, RecvSock
  <2>5. ~Dead(Mine(m).osock)
    BY <1>5, <2>4
  <2>6. Mine(n).isock = Mine(m).osock
    BY <1>2, <1>4, <1>5, <1>8, <2>4, <2>5
  <2>7. SendSock(Mine(n)) = Mine(n).isock
    BY <1>10 DEF Single, SendSock
  <2>8. QED
    BY <1>4, <2>4, <2>6, <2>7 DEF Mine, m
<1>11. QED
  BY <1>4, <1>5, <1>7, <1>9, <1>10 DEF Dialled, Double

(***************************************************************************)
(* When both cores have a good entry and nothing is under way, each         *)
(* receives from the connection that the other one sends on: however they   *)
(* dialled each other, whichever of the ports can be reached, whatever      *)
(* check_writability gave up, and after restarts.                           *)
(***************************************************************************)
THEOREM ConnAgreement == ConnSpec => []Agree
<1>1. ConnIInv => Agree
  BY ConnAgree
<1>2. QED
  BY <1>1, ConnInductive, PTL
=============================================================================

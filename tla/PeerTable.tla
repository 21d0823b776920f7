----------------------------- MODULE PeerTable -----------------------------
(***************************************************************************)
(* The growable array of peers of src/core/peermanager.c, as operators on  *)
(* a table value.  A table is a record                                      *)
(*   mem    the array m_peers, one entry per slot,                          *)
(*   count  m_peercount,  size  m_peersize,  iter  m_iterator,              *)
(*   gen    how often realloc has moved the array.                          *)
(* A C pointer to an entry is a pair [gen, slot]: it dangles as soon as     *)
(* realloc moves the array, and it designates another peer as soon as       *)
(* peer_remove shifts the entries behind it.                                *)
(***************************************************************************)
EXTENDS Integers, FiniteSets

CONSTANTS Addrs,     \* addresses of the configured peers
          NoAddr,    \* the contents of an address that was never written
          Fds,       \* socket descriptors
          InitSize,  \* the initial m_peersize
          MaxSize    \* bound: the largest m_peersize that is explored

ASSUME FdsAssumption == Fds \subseteq Nat
ASSUME SizeAssumption == InitSize \in Nat \ {0} /\ MaxSize \in Nat \ {0}
                         /\ InitSize <= MaxSize
ASSUME AddrAssumption == NoAddr \notin Addrs

NOSOCK == -1          \* what peer_init stores
SOCKET_ONEWAY == -2   \* core.h
Socks == Fds \cup {NOSOCK, SOCKET_ONEWAY}

(***************************************************************************)
(* An entry: key is the identity of the key object of struct peer (no two   *)
(* live peers share it, and memcmp compares it), 0 once peer_free ran.      *)
(* port is 0 until the caller stores the configured port, 1 afterwards.     *)
(***************************************************************************)
Keys == 0..(MaxSize + 1)
Entry == [key : Keys, addr : Addrs \cup {NoAddr}, port : {0, 1},
          isock : Socks, osock : Socks]
Slots == 0..(MaxSize - 1)
Tables == [mem : [Slots -> Entry], count : 0..MaxSize, size : 1..MaxSize,
           gen : Nat, iter : 0..MaxSize]

\* calloc of the initial array.  peer_new overwrites everything but the address,
\* and a later realloc leaves addresses nobody has written either.
Blank == [key |-> 0, addr |-> NoAddr, port |-> 0,
          isock |-> NOSOCK, osock |-> NOSOCK]
NewTable == [mem |-> [i \in Slots |-> Blank],
             count |-> 0, size |-> InitSize, gen |-> 0, iter |-> 0]

Ptr(tbl, i) == [gen |-> tbl.gen, slot |-> i]
NoPtr == [gen |-> -1, slot |-> -1]
Ptrs == [gen : Nat, slot : Slots] \cup {NoPtr}

\* A pointer may be used while the array it points into has not moved.
Valid(tbl, p) == p # NoPtr /\ p.gen = tbl.gen

Live(tbl) == 0..(tbl.count - 1)

UsedKeys(tbl) == {tbl.mem[i].key : i \in Slots}
FreshKey(tbl) == CHOOSE k \in Keys \ {0} : k \notin UsedKeys(tbl)

(***************************************************************************)
(* peer_new: double a full array, then hand out the next slot after         *)
(* peer_init.  peer_init leaves the address that was in the slot.           *)
(***************************************************************************)
Full(tbl) == tbl.count >= tbl.size
CanGrow(tbl) == Full(tbl) => 2 * tbl.size <= MaxSize

\* Mutant: the key object of the slot's last user is kept.
PeerInitKeepsKey(e, k) == [e EXCEPT !.port = 0,
                                    !.isock = NOSOCK, !.osock = NOSOCK]

PeerInit(e, k) == [e EXCEPT !.key = k, !.port = 0,
                            !.isock = NOSOCK, !.osock = NOSOCK]

PeerNew(tbl, moved) ==
  [mem   |-> [tbl.mem EXCEPT ![tbl.count] = PeerInit(@, FreshKey(tbl))],
   count |-> tbl.count + 1,
   size  |-> IF Full(tbl) THEN 2 * tbl.size ELSE tbl.size,
   gen   |-> IF Full(tbl) /\ moved THEN tbl.gen + 1 ELSE tbl.gen,
   iter  |-> tbl.iter]

\* Mutant: peer_exists finds the probe itself.
OthersAndItself(tbl, i) == {j \in Live(tbl) :
                              /\ tbl.mem[j].addr = tbl.mem[i].addr
                              /\ tbl.mem[j].port = tbl.mem[i].port}

(***************************************************************************)
(* peer_exists: the slots of the other entries with the address and port    *)
(* of entry i; the code returns the first of them.                          *)
(***************************************************************************)
Others(tbl, i) == {j \in Live(tbl) : /\ tbl.mem[j].addr = tbl.mem[i].addr
                                     /\ tbl.mem[j].port = tbl.mem[i].port
                                     /\ j # i}
First(S) == CHOOSE i \in S : \A j \in S : i <= j
PeerExists(tbl, i) == IF Others(tbl, i) = {} THEN NoPtr
                      ELSE Ptr(tbl, First(Others(tbl, i)))

(***************************************************************************)
(* peer_remove: the first live entry that equals, byte for byte, the one p  *)
(* designates is freed and the entries behind it are moved down.  memmove   *)
(* is told to move m_peercount-i+1 entries: slots i+1 to m_peercount+1,     *)
(* two more than there are, so with at most one spare slot it leaves the    *)
(* array.                                                                   *)
(***************************************************************************)
Equal(tbl, e) == {i \in Live(tbl) : tbl.mem[i] = e}

\* peer_free of the entry in slot i.
PeerFree(tbl, i) == [tbl EXCEPT !.mem[i].key = 0]

RemoveOverruns(tbl, e) ==
  /\ Equal(tbl, e) # {}
  /\ First(Equal(tbl, e)) + 1 < tbl.count
  /\ tbl.count + 1 >= tbl.size

\* Mutants of RemoveAt: everything is moved, from the first entry on,
RemoveAtFront(tbl, i) ==
  [tbl EXCEPT
     !.mem = [j \in Slots |-> IF j < tbl.count /\ j + 1 \in Slots
                              THEN tbl.mem[j + 1] ELSE tbl.mem[j]],
     !.iter = IF @ = tbl.count THEN @ - 1 ELSE @,
     !.count = @ - 1]

\* or m_iterator is left alone.
RemoveAtKeepsIterator(tbl, i) ==
  [tbl EXCEPT
     !.mem = IF i + 1 < tbl.count
             THEN [j \in Slots |-> IF i <= j /\ j <= tbl.count
                                   THEN tbl.mem[j + 1] ELSE tbl.mem[j]]
             ELSE PeerFree(tbl, i).mem,
     !.count = @ - 1]

RemoveAt(tbl, i) ==
  [tbl EXCEPT
     !.mem = IF i + 1 < tbl.count
             THEN [j \in Slots |-> IF i <= j /\ j <= tbl.count
                                   THEN tbl.mem[j + 1] ELSE tbl.mem[j]]
             ELSE PeerFree(tbl, i).mem,
     !.iter = IF @ = tbl.count THEN @ - 1 ELSE @,
     !.count = @ - 1]

PeerRemove(tbl, e) == IF Equal(tbl, e) = {} THEN tbl
                      ELSE RemoveAt(tbl, First(Equal(tbl, e)))

(***************************************************************************)
(* peer_next under m_lock: the next entry, or the end of the round.         *)
(***************************************************************************)
HasNext(tbl) == tbl.iter < tbl.count
Advance(tbl) == [tbl EXCEPT !.iter = @ + 1]
\* Mutant of Rewind: the iterator is not reset.
RewindNever(tbl) == tbl
Rewind(tbl) == [tbl EXCEPT !.iter = 0]
=============================================================================

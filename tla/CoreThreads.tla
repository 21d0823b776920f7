---------------------------- MODULE CoreThreads ----------------------------
(***************************************************************************)
(* The four threads of core.c on the shared state of peermanager.c:         *)
(*   "conn"  connection_thread, accepts connections,                        *)
(*   "try"   try_connect_loop, connects to the configured peers,            *)
(*   "read"  read_thread, receives events and removes dead peers,           *)
(*   "main"  the main loop of core_start, which runs the handlers of the    *)
(*           user interfaces' events.                                       *)
(* One action is one critical section of m_lock, or one stretch of code     *)
(* between two of them.  The sections of m_writeset_lock and m_readset_lock *)
(* are short and nest only inside m_lock; each is part of one action.  What *)
(* a frame's body brings, and in which pieces, is the matter of PeerLink.   *)
(***************************************************************************)
EXTENDS PeerTable

CONSTANTS Active,     \* the threads of an instance
          MaxPeers,   \* bound: no connection is begun with this many entries
          NoThread    \* m_lock is free

Threads == {"conn", "try", "read", "main"}

ASSUME ActiveAssumption == Active \subseteq Threads
ASSUME MaxPeersAssumption == MaxPeers \in Nat
ASSUME NoThreadAssumption == NoThread \notin Threads

VARIABLES tbl,      \* the peer table
          mlock,    \* owner of m_lock (recursive: an owner may enter again)
          pc,       \* where each thread is
          ptr,      \* the struct peer* each thread works on
          aux,      \* result of peer_exists, until the probe is removed
          peeraddr, \* the address each thread works on
          sock,     \* the descriptor each thread is about to store
          task,     \* what main iterates for: "list" or "send"
          del,      \* delptrs of read_thread: its one item, or NoPtr
          ready,    \* the descriptors select reported to read_thread
          rset, wset,       \* m_readset, m_writeset
          rmax, wmax,       \* read_max_int, write_max_int
          freefds,  \* descriptors that are not open
          due,      \* history: keys a round of peer_next has still to visit
          strayed,  \* history: a pointer has designated another entry
          status    \* "ok", or how the program left defined behaviour

table  == <<tbl, mlock>>
sets   == <<rset, wset, rmax, wmax>>
locals == <<ptr, aux, peeraddr, sock>>
reader == <<del, ready>>
vars == <<tbl, mlock, pc, ptr, aux, peeraddr, sock, task, del, ready,
          rset, wset, rmax, wmax, freefds, due, strayed, status>>

-----------------------------------------------------------------------------

PCs == {"idle",
        "p_new", "p_fill", "p_exists", "p_remove",          \* probe
        "c_new", "c_fill", "c_exists", "c_unprobe",         \* conn
        "c_upkey", "c_clrw", "c_clrr", "c_key", "c_socket", "c_connect",
        "t_socket", "t_new", "t_fill", "t_key",             \* try
        "add",                                              \* peer_addtoset
        "rel", "acq", "visit",                              \* peer_next
        "r_body", "r_clr", "b_clr", "r_del",                \* read
        "reply"}                                            \* send

\* The thread dereferences ptr[t] in its next step.
Derefs == {"p_fill", "p_exists", "p_remove", "c_fill", "c_exists",
           "c_unprobe", "c_upkey", "c_clrw", "c_clrr", "c_key", "c_socket",
           "c_connect", "t_fill", "t_key", "add", "visit", "r_body", "r_clr",
           "b_clr", "reply"}

TypeOK ==
  /\ tbl \in Tables
  /\ mlock \in Threads \cup {NoThread}
  /\ pc \in [Threads -> PCs]
  /\ ptr \in [Threads -> Ptrs]
  /\ aux \in [Threads -> Ptrs]
  /\ peeraddr \in [Threads -> Addrs \cup {NoAddr}]
  /\ sock \in [Threads -> Socks]
  /\ task \in {"list", "send"}
  /\ del \in Ptrs
  /\ ready \subseteq Fds
  /\ rset \subseteq Fds /\ wset \subseteq Fds
  /\ rmax \in Nat \cup {-1} /\ wmax \in Nat \cup {-1}
  /\ freefds \subseteq Fds
  /\ due \in [Threads -> SUBSET Keys]
  /\ strayed \in BOOLEAN
  /\ status \in {"ok", "undefined", "assert_fd", "assert_socks"}

Init ==
  /\ tbl = NewTable
  /\ mlock = NoThread
  /\ pc = [t \in Threads |-> "idle"]
  /\ ptr = [t \in Threads |-> NoPtr]
  /\ aux = [t \in Threads |-> NoPtr]
  /\ peeraddr = [t \in Threads |-> NoAddr]
  /\ sock = [t \in Threads |-> NOSOCK]
  /\ task = "list"
  /\ del = NoPtr
  /\ ready = {}
  /\ rset = {} /\ wset = {}
  /\ rmax = -1 /\ wmax = -1
  /\ freefds = Fds
  /\ due = [t \in Threads |-> {}]
  /\ strayed = FALSE
  /\ status = "ok"

-----------------------------------------------------------------------------

CanLock(t) == mlock \in {NoThread, t}

At(t, l) == t \in Active /\ status = "ok" /\ pc[t] = l
Goto(t, l) == pc' = [pc EXCEPT ![t] = l]
GoOn(t, l) == Goto(t, l) /\ UNCHANGED locals

\* The operation is over and its local variables with it.
Done(t) == /\ Goto(t, "idle")
           /\ ptr' = [ptr EXCEPT ![t] = NoPtr]
           /\ aux' = [aux EXCEPT ![t] = NoPtr]
           /\ peeraddr' = [peeraddr EXCEPT ![t] = NoAddr]
           /\ sock' = [sock EXCEPT ![t] = NOSOCK]

Points(t) == Valid(tbl, ptr[t])
Peer(t) == tbl.mem[ptr[t].slot]        \* *ptr[t]
Store(t, e) == tbl' = [tbl EXCEPT !.mem[ptr[t].slot] = e]

LiveKeys(tb) == {tb.mem[i].key : i \in Live(tb)}

\* A table without some of the entries: nothing is due that is gone.
Removed(tb) == due' = [t \in Threads |-> due[t] \cap LiveKeys(tb)]

\* open() and friends return the lowest free descriptor.
LowestFd == CHOOSE fd \in freefds : \A g \in freefds : fd <= g

-----------------------------------------------------------------------------
\* peer_new and peer_exists_simple, shared by the threads

\* Mutant: peer_new without m_lock.
NewPeerUnlocked(t) ==
  /\ \/ At(t, "p_new") /\ Goto(t, "p_fill")
     \/ At(t, "c_new") /\ Goto(t, "c_fill")
     \/ At(t, "t_new") /\ Goto(t, "t_fill")
  /\ CanGrow(tbl)
  /\ \E moved \in BOOLEAN :
       /\ tbl' = PeerNew(tbl, moved)
       /\ ptr' = [ptr EXCEPT ![t] = Ptr(tbl', tbl.count)]
  /\ UNCHANGED <<mlock, aux, peeraddr, sock, task, reader, sets, freefds,
                 due, status>>

NewPeer(t) ==
  /\ \/ At(t, "p_new") /\ Goto(t, "p_fill")
     \/ At(t, "c_new") /\ Goto(t, "c_fill")
     \/ At(t, "t_new") /\ Goto(t, "t_fill")
  /\ CanLock(t)
  /\ CanGrow(tbl)
  /\ \E moved \in BOOLEAN :
       /\ tbl' = PeerNew(tbl, moved)
       /\ ptr' = [ptr EXCEPT ![t] = Ptr(tbl', tbl.count)]
  /\ UNCHANGED <<mlock, aux, peeraddr, sock, task, reader, sets, freefds,
                 due, status>>

\* The caller stores address and port of the probe.
FillProbe(t) ==
  /\ At(t, "p_fill") /\ Points(t)
  /\ Store(t, [Peer(t) EXCEPT !.addr = peeraddr[t], !.port = 1])
  /\ Goto(t, "p_exists")
  /\ UNCHANGED <<mlock, locals, task, reader, sets, freefds, due, status>>

Compare(t) ==
  /\ At(t, "p_exists") /\ Points(t) /\ CanLock(t)
  /\ aux' = [aux EXCEPT ![t] = PeerExists(tbl, ptr[t].slot)]
  /\ Goto(t, "p_remove")
  /\ UNCHANGED <<table, ptr, peeraddr, sock, task, reader, sets, freefds,
                 due, status>>

\* A handler sends to the peer it found; connect_to_peers goes on without it.
RemoveProbe(t) ==
  /\ At(t, "p_remove") /\ Points(t) /\ CanLock(t)
  /\ ~RemoveOverruns(tbl, Peer(t))
  /\ tbl' = PeerRemove(tbl, Peer(t))
  /\ Removed(tbl')
  /\ \/ /\ aux[t] # NoPtr /\ t \in {"read", "main"}
        /\ Goto(t, "reply")
        /\ ptr' = [ptr EXCEPT ![t] = aux[t]]
        /\ aux' = [aux EXCEPT ![t] = NoPtr]
        /\ UNCHANGED <<peeraddr, sock>>
     \/ aux[t] = NoPtr /\ t = "try"  /\ GoOn(t, "t_socket")
     \/ aux[t] = NoPtr /\ t = "read" /\ GoOn(t, "rel")
     \/ aux[t] # NoPtr /\ t = "try"  /\ Done(t)
     \/ aux[t] = NoPtr /\ t = "main" /\ Done(t)
  /\ UNCHANGED <<mlock, task, reader, sets, freefds, status>>

-----------------------------------------------------------------------------
\* peer_addtoset and send_event_to_peer_internal

\* Mutants of AddToSet: osock goes into m_writeset whatever it is,
AddToSetOutgoing(t) ==
  /\ At(t, "add") /\ Points(t) /\ CanLock(t)
  /\ Peer(t).isock # Peer(t).osock
  /\ wset' = wset \cup {Peer(t).osock}
  /\ rset' = rset \cup {Peer(t).isock}
  /\ wmax' = IF Peer(t).osock > wmax THEN Peer(t).osock ELSE wmax
  /\ rmax' = IF Peer(t).isock > rmax THEN Peer(t).isock ELSE rmax
  /\ \/ t = "try" /\ GoOn(t, "t_key")
     \/ t = "conn" /\ Done(t)
  /\ UNCHANGED <<table, task, reader, freefds, due, status>>

\* or the maximum of m_readset is taken of osock.
AddToSetWrongMax(t) ==
  /\ At(t, "add") /\ Points(t) /\ CanLock(t)
  /\ Peer(t).isock # Peer(t).osock
  /\ LET i == Peer(t).isock
         o == Peer(t).osock
     IN  IF o >= 0 \/ i >= 0
         THEN /\ wset' = wset \cup {IF o >= 0 THEN o ELSE i}
              /\ wmax' = IF o > wmax THEN o ELSE wmax
              /\ rset' = rset \cup {IF i >= 0 THEN i ELSE o}
              /\ rmax' = IF o > rmax THEN o ELSE rmax
         ELSE UNCHANGED sets
  /\ \/ t = "try" /\ GoOn(t, "t_key")
     \/ t = "conn" /\ Done(t)
  /\ UNCHANGED <<table, task, reader, freefds, due, status>>

(***************************************************************************)
(* peer_addtoset: writes go to osock if there is one, reads come from isock *)
(* if there is one, else from osock.  Without sockets it reports an error.  *)
(***************************************************************************)
AddToSet(t) ==
  /\ At(t, "add") /\ Points(t) /\ CanLock(t)
  /\ Peer(t).isock # Peer(t).osock
  /\ LET i == Peer(t).isock
         o == Peer(t).osock
         w == IF o >= 0 THEN o ELSE i
         r == IF i >= 0 THEN i ELSE o
     IN  IF o >= 0 \/ i >= 0
         THEN /\ wset' = wset \cup {w}
              /\ wmax' = IF w > wmax THEN w ELSE wmax
              /\ rset' = rset \cup {r}
              /\ rmax' = IF r > rmax THEN r ELSE rmax
         ELSE UNCHANGED sets
  /\ \/ t = "try" /\ GoOn(t, "t_key")
     \/ t = "conn" /\ Done(t)
  /\ UNCHANGED <<table, task, reader, freefds, due, status>>

SendFd(t) == IF Peer(t).osock = SOCKET_ONEWAY THEN Peer(t).isock
             ELSE Peer(t).osock

\* select on the write set may report a descriptor.
Writable == \E fd \in wset : fd <= wmax

-----------------------------------------------------------------------------
\* connection_thread

Accept(a) ==
  /\ At("conn", "idle") /\ freefds # {} /\ tbl.count < MaxPeers
  /\ sock' = [sock EXCEPT !["conn"] = LowestFd]
  /\ freefds' = freefds \ {LowestFd}
  /\ peeraddr' = [peeraddr EXCEPT !["conn"] = a]
  /\ Goto("conn", "c_new")
  /\ UNCHANGED <<table, ptr, aux, task, reader, sets, due, status>>

ConnFill ==
  /\ At("conn", "c_fill") /\ Points("conn")
  /\ Store("conn", [Peer("conn") EXCEPT !.addr = peeraddr["conn"], !.port = 1])
  /\ Goto("conn", "c_exists")
  /\ UNCHANGED <<mlock, locals, task, reader, sets, freefds, due, status>>

ConnExists ==
  /\ At("conn", "c_exists") /\ Points("conn") /\ CanLock("conn")
  /\ LET pp == PeerExists(tbl, ptr["conn"].slot)
     IN  /\ aux' = [aux EXCEPT !["conn"] = pp]
         /\ \/ pp = NoPtr /\ Goto("conn", "c_key")
            \/ pp # NoPtr /\ Goto("conn", "c_unprobe")
  /\ UNCHANGED <<table, ptr, peeraddr, sock, task, reader, sets, freefds,
                 due, status>>

\* The peer exists: the new entry is removed, and pp is worked on.
ConnUnprobe ==
  /\ At("conn", "c_unprobe") /\ Points("conn") /\ CanLock("conn")
  /\ ~RemoveOverruns(tbl, Peer("conn"))
  /\ tbl' = PeerRemove(tbl, Peer("conn"))
  /\ Removed(tbl')
  /\ ptr' = [ptr EXCEPT !["conn"] = aux["conn"]]
  /\ aux' = [aux EXCEPT !["conn"] = NoPtr]
  /\ Goto("conn", "c_upkey")
  /\ UNCHANGED <<mlock, peeraddr, sock, task, reader, sets, freefds, status>>

(***************************************************************************)
(* check_peer_key: a peer whose key loads gets the new connection as its    *)
(* incoming socket (and a new key object if peer_free had taken the old     *)
(* one); a peer whose key does not load goes through peer_free, but stays   *)
(* in the table.                                                            *)
(***************************************************************************)
KeyAccepted(t, s) ==
  Store(t, [Peer(t) EXCEPT !.isock = s,
                           !.key = IF @ = 0 THEN FreshKey(tbl) ELSE @])
KeyRefused(t) == tbl' = PeerFree(tbl, ptr[t].slot)

ConnUpgradeKey ==
  /\ At("conn", "c_upkey") /\ Points("conn")
  /\ \/ KeyAccepted("conn", sock["conn"]) /\ GoOn("conn", "c_clrw")
     \/ KeyRefused("conn") /\ Done("conn")
  /\ Removed(tbl')
  /\ UNCHANGED <<mlock, task, reader, sets, freefds, status>>

\* peer_updateset, one section for each set, then peer_addtoset.
ConnClearWrite ==
  /\ At("conn", "c_clrw") /\ Points("conn")
  /\ wset' = wset \ {Peer("conn").osock}
  /\ Goto("conn", "c_clrr")
  /\ UNCHANGED <<table, locals, task, reader, rset, rmax, wmax, freefds,
                 due, status>>

ConnClearRead ==
  /\ At("conn", "c_clrr") /\ Points("conn")
  /\ rset' = rset \ {Peer("conn").osock}
  /\ Goto("conn", "add")
  /\ UNCHANGED <<table, locals, task, reader, wset, rmax, wmax, freefds,
                 due, status>>

ConnKey ==
  /\ At("conn", "c_key") /\ Points("conn")
  /\ \/ KeyAccepted("conn", sock["conn"]) /\ GoOn("conn", "c_socket")
     \/ KeyRefused("conn") /\ Done("conn")
  /\ Removed(tbl')
  /\ UNCHANGED <<mlock, task, reader, sets, freefds, status>>

\* Connect back: the new socket is stored before it is connected,
ConnSocket ==
  /\ At("conn", "c_socket") /\ Points("conn")
  /\ \/ /\ freefds # {}
        /\ Store("conn", [Peer("conn") EXCEPT !.osock = LowestFd])
        /\ freefds' = freefds \ {LowestFd}
     \/ /\ freefds = {}
        /\ Store("conn", [Peer("conn") EXCEPT !.osock = NOSOCK])
        /\ UNCHANGED freefds
  /\ Goto("conn", "c_connect")
  /\ UNCHANGED <<mlock, locals, task, reader, sets, due, status>>

\* Mutant of ConnConnect: the closed socket stays in the entry.
ConnConnectKeepsSocket ==
  /\ At("conn", "c_connect") /\ Points("conn")
  /\ \/ UNCHANGED freefds
     \/ freefds' = freefds \cup (Fds \cap {Peer("conn").osock})
  /\ Goto("conn", "add")
  /\ UNCHANGED <<table, locals, task, reader, sets, due, status>>

\* and closed and replaced by SOCKET_ONEWAY if the peer cannot be reached.
ConnConnect ==
  /\ At("conn", "c_connect") /\ Points("conn")
  /\ \/ /\ Peer("conn").osock >= 0
        /\ UNCHANGED <<tbl, freefds>>
     \/ /\ freefds' = freefds \cup (Fds \cap {Peer("conn").osock})
        /\ Store("conn", [Peer("conn") EXCEPT !.osock = SOCKET_ONEWAY])
  /\ Goto("conn", "add")
  /\ UNCHANGED <<mlock, locals, task, reader, sets, due, status>>

-----------------------------------------------------------------------------
\* try_connect_loop and connect_to_peers

TryPeer(a) ==
  /\ At("try", "idle")
  /\ peeraddr' = [peeraddr EXCEPT !["try"] = a]
  /\ Goto("try", "p_new")
  /\ UNCHANGED <<table, ptr, aux, sock, task, reader, sets, freefds, due,
                 status>>

\* new_socket connects, or gives up.
TrySocket ==
  /\ At("try", "t_socket")
  /\ \/ /\ freefds # {} /\ tbl.count < MaxPeers
        /\ sock' = [sock EXCEPT !["try"] = LowestFd]
        /\ freefds' = freefds \ {LowestFd}
        /\ Goto("try", "t_new")
        /\ UNCHANGED <<ptr, aux, peeraddr>>
     \/ /\ Done("try")
        /\ UNCHANGED freefds
  /\ UNCHANGED <<table, task, reader, sets, due, status>>

TryFill ==
  /\ At("try", "t_fill") /\ Points("try")
  /\ Store("try", [Peer("try") EXCEPT !.addr = peeraddr["try"],
                                      !.osock = sock["try"],
                                      !.isock = SOCKET_ONEWAY, !.port = 1])
  /\ Goto("try", "add")
  /\ UNCHANGED <<mlock, locals, task, reader, sets, freefds, due, status>>

\* The key is checked after the peer's socket went into the sets.
TryKey ==
  /\ At("try", "t_key") /\ Points("try")
  /\ \/ KeyAccepted("try", SOCKET_ONEWAY)
     \/ KeyRefused("try")
  /\ Removed(tbl')
  /\ Done("try")
  /\ UNCHANGED <<mlock, task, reader, sets, freefds, status>>

-----------------------------------------------------------------------------
\* peer_next, which unlocks m_lock between two entries of a round

StartRound(t) ==
  /\ Goto(t, "rel")
  /\ due' = [due EXCEPT ![t] = LiveKeys(tbl)]

NextRelease(t) ==
  /\ At(t, "rel")
  /\ mlock' = IF mlock = t THEN NoThread ELSE mlock
  /\ ptr' = [ptr EXCEPT ![t] = NoPtr]
  /\ peeraddr' = [peeraddr EXCEPT ![t] = NoAddr]
  /\ Goto(t, "acq")
  /\ UNCHANGED <<tbl, aux, sock, task, reader, sets, freefds, due,
                 status>>

NextEntry(t) ==
  /\ At(t, "acq") /\ mlock = NoThread /\ HasNext(tbl)
  /\ mlock' = t
  /\ ptr' = [ptr EXCEPT ![t] = Ptr(tbl, tbl.iter)]
  /\ due' = [due EXCEPT ![t] = @ \ {tbl.mem[tbl.iter].key}]
  /\ tbl' = Advance(tbl)
  /\ Goto(t, "visit")
  /\ UNCHANGED <<aux, peeraddr, sock, task, reader, sets, freefds, status>>

\* Mutant: the end of a round does not unlock m_lock.
NextEndKeepsLock(t) ==
  /\ At(t, "acq") /\ mlock = NoThread /\ ~HasNext(tbl)
  /\ mlock' = t
  /\ tbl' = Rewind(tbl)
  /\ due' = [due EXCEPT ![t] = {}]
  /\ \/ t = "read" /\ GoOn(t, "r_del")
     \/ t = "main" /\ Done(t)
  /\ UNCHANGED <<task, reader, sets, freefds, status>>

NextEnd(t) ==
  /\ At(t, "acq") /\ mlock = NoThread /\ ~HasNext(tbl)
  /\ tbl' = Rewind(tbl)
  /\ due' = [due EXCEPT ![t] = {}]
  /\ \/ t = "read" /\ GoOn(t, "r_del")
     \/ t = "main" /\ Done(t)
  /\ UNCHANGED <<mlock, task, reader, sets, freefds, status>>

-----------------------------------------------------------------------------
\* read_thread

Select ==
  /\ At("read", "idle")
  /\ \E S \in SUBSET {fd \in rset : fd <= rmax} : S # {} /\ ready' = S
  /\ del' = NoPtr
  /\ StartRound("read")
  /\ UNCHANGED <<table, locals, task, sets, freefds, status>>

RecvSock == IF Peer("read").isock # SOCKET_ONEWAY THEN Peer("read").isock
            ELSE Peer("read").osock

\* Nothing to receive or a bad header; or, with the body there, an event whose
\* handler looks nobody up.
ReadNothing ==
  /\ At("read", "visit") \/ At("read", "r_body")
  /\ Points("read")
  /\ Goto("read", "rel")
  /\ UNCHANGED <<table, locals, task, reader, sets, freefds, due, status>>

\* A header has come: the loop over recv that takes the body begins.
ReadHeader ==
  /\ At("read", "visit") /\ Points("read") /\ RecvSock \in ready
  /\ Goto("read", "r_body")
  /\ UNCHANGED <<table, locals, task, reader, sets, freefds, due, status>>

\* End of file instead of a header, or in the body: peer_removefromset, and p
\* goes into delptrs.
ReadHangUp ==
  /\ \/ At("read", "visit") /\ RecvSock \in ready /\ Goto("read", "r_clr")
     \/ At("read", "r_body") /\ Goto("read", "b_clr")
  /\ Points("read")
  /\ wset' = wset \ {Peer("read").osock, Peer("read").isock}
  /\ UNCHANGED <<table, locals, task, reader, rset, rmax, wmax, freefds, due,
                 status>>

\* The loop over the body does not end with its connection.
ReadForget ==
  /\ \/ At("read", "r_clr") /\ Goto("read", "rel")
     \/ At("read", "b_clr") /\ Goto("read", "r_body")
  /\ Points("read")
  /\ rset' = rset \ {Peer("read").isock}
  /\ del' = ptr["read"]
  /\ UNCHANGED <<table, locals, task, ready, wset, rmax, wmax, freefds, due,
                 status>>

\* An event whose handler looks the sender up; m_lock stays held.
ReadEvent ==
  /\ At("read", "r_body") /\ Points("read")
  /\ Peer("read").port # 0
  /\ peeraddr' = [peeraddr EXCEPT !["read"] = Peer("read").addr]
  /\ Goto("read", "p_new")
  /\ UNCHANGED <<table, ptr, aux, sock, task, reader, sets, freefds, due,
                 status>>

\* The loop over delptrs, after the round and without m_lock.
ReadRemove ==
  /\ At("read", "r_del")
  /\ \/ /\ del = NoPtr
        /\ UNCHANGED <<tbl, due>>
     \/ /\ Valid(tbl, del) /\ CanLock("read")
        /\ ~RemoveOverruns(tbl, tbl.mem[del.slot])
        /\ tbl' = PeerRemove(tbl, tbl.mem[del.slot])
        /\ Removed(tbl')
  /\ del' = NoPtr
  /\ ready' = {}
  /\ Done("read")
  /\ UNCHANGED <<mlock, task, sets, freefds, status>>

-----------------------------------------------------------------------------
\* The handlers of the main loop

\* handlelistpeers and send_to_all go through all peers,
MainRound(k) ==
  /\ At("main", "idle")
  /\ task' = k
  /\ StartRound("main")
  /\ UNCHANGED <<table, locals, reader, sets, freefds, status>>

MainVisit ==
  /\ At("main", "visit") /\ Points("main")
  /\ Goto("main", "rel")
  /\ UNCHANGED <<table, locals, task, reader, sets, freefds, due, status>>

\* handlefiletransferlocal and others look one peer up and send to it.
MainLookup(a) ==
  /\ At("main", "idle")
  /\ peeraddr' = [peeraddr EXCEPT !["main"] = a]
  /\ Goto("main", "p_new")
  /\ UNCHANGED <<table, ptr, aux, sock, task, reader, sets, freefds, due,
                 status>>

\* The handler sends to the peer it looked up.
Reply(t) ==
  /\ At(t, "reply") /\ Points(t)
  /\ \/ t = "read" /\ GoOn(t, "rel")
     \/ t = "main" /\ Done(t)
  /\ UNCHANGED <<table, task, reader, sets, freefds, due, status>>

-----------------------------------------------------------------------------
\* How the program can fail

Fail(s) == /\ status' = s
           /\ UNCHANGED <<table, pc, locals, task, reader, sets, freefds, due>>

\* The array has moved, and the thread still uses its pointer into it.
UseDangling(t) ==
  /\ t \in Active /\ status = "ok"
  /\ \/ pc[t] \in Derefs /\ ~Points(t)
     \/ t = "read" /\ pc[t] = "r_del" /\ del # NoPtr /\ ~Valid(tbl, del)
  /\ Fail("undefined")

\* peer_remove moves memory that lies behind the array.
Overrun(t) ==
  /\ t \in Active /\ status = "ok" /\ CanLock(t)
  /\ \/ /\ pc[t] \in {"p_remove", "c_unprobe"} /\ Points(t)
        /\ RemoveOverruns(tbl, Peer(t))
     \/ /\ t = "read" /\ pc[t] = "r_del" /\ Valid(tbl, del)
        /\ RemoveOverruns(tbl, tbl.mem[del.slot])
  /\ Fail("undefined")

\* assert(fd >= 0) of send_event_to_peer_internal.
SendAborts(t) ==
  /\ \/ At(t, "reply")
     \/ t = "main" /\ At(t, "visit") /\ task = "send"
  /\ Points(t) /\ Writable /\ SendFd(t) < 0
  /\ Fail("assert_fd")

\* assert(p->isock != p->osock) of peer_addtoset.
AddAborts(t) ==
  /\ At(t, "add") /\ Points(t) /\ CanLock(t)
  /\ Peer(t).isock = Peer(t).osock
  /\ Fail("assert_socks")

-----------------------------------------------------------------------------

Conn == \/ \E a \in Addrs : Accept(a)
        \/ ConnFill \/ ConnExists \/ ConnUnprobe \/ ConnUpgradeKey
        \/ ConnClearWrite \/ ConnClearRead
        \/ ConnKey \/ ConnSocket \/ ConnConnect

Try == \/ \E a \in Addrs : TryPeer(a)
       \/ TrySocket \/ TryFill \/ TryKey

Read == Select \/ ReadNothing \/ ReadHeader \/ ReadHangUp \/ ReadForget
        \/ ReadEvent \/ ReadRemove

Main == \/ \E k \in {"list", "send"} : MainRound(k)
        \/ \E a \in Addrs : MainLookup(a)
        \/ MainVisit

\* The calls the threads share.
Shared(t) == \/ NewPeer(t) \/ FillProbe(t) \/ Compare(t) \/ RemoveProbe(t)
             \/ AddToSet(t) \/ Reply(t)
             \/ NextRelease(t) \/ NextEntry(t) \/ NextEnd(t)

Failure(t) == UseDangling(t) \/ Overrun(t) \/ SendAborts(t) \/ AddAborts(t)

(***************************************************************************)
(* The pointer a thread is about to use, got from peer_new, peer_exists or  *)
(* peer_next, designates an entry of the table, as it does if these         *)
(* functions are thread-safe.                                               *)
(***************************************************************************)
PointersLive ==
  \A t \in Active : pc[t] \in Derefs =>
    Points(t) /\ ptr[t].slot \in Live(tbl)

\* PointersLive, and the entry a thread has stored its socket in is still the
\* one with this socket.
OnCourse ==
  /\ PointersLive
  /\ pc["conn"] = "c_connect" => Peer("conn").isock = sock["conn"]
  /\ pc["try"] = "add" => Peer("try").osock = sock["try"]

Step(t) == /\ \/ Shared(t) \/ Failure(t)
              \/ t = "conn" /\ Conn
              \/ t = "try" /\ Try
              \/ t = "read" /\ Read
              \/ t = "main" /\ Main
           /\ strayed' = (strayed \/ ~OnCourse')

Next == \E t \in Active : Step(t)

Spec == Init /\ [][Next]_vars

-----------------------------------------------------------------------------

(***************************************************************************)
(* The iterator shared by all rounds stays inside the table, and the table  *)
(* inside its array, whatever entries are added or removed in the middle of *)
(* a round (the adjustment of m_iterator in peer_remove).                   *)
(***************************************************************************)
IteratorInBounds == tbl.iter <= tbl.count /\ tbl.count <= tbl.size

\* Where a thread may own m_lock between two steps.
Holds(t, l) == \/ l \in {"visit", "r_body", "r_clr", "b_clr", "rel"}
               \/ t = "read" /\ l \in {"p_new", "p_fill", "p_exists",
                                     "p_remove", "reply"}

(***************************************************************************)
(* m_lock is owned only by a thread in the middle of a round: no handler    *)
(* and no end of a round leaves it locked, and a thread that visits an      *)
(* entry owns it (the unlock/lock pair of peer_next).                       *)
(***************************************************************************)
LockDiscipline ==
  /\ mlock # NoThread => Holds(mlock, pc[mlock])
  /\ \A t \in Threads :
       pc[t] \in {"visit", "r_body", "r_clr", "b_clr"} => mlock = t

(***************************************************************************)
(* select looks at every descriptor of a set: its first argument is         *)
(* computed from a maximum that covers the set (read_max, write_max).       *)
(***************************************************************************)
SelectCovers == /\ \A fd \in rset : fd <= rmax
                /\ \A fd \in wset : fd <= wmax

(***************************************************************************)
(* While a thread is in the middle of a round, or in a handler it runs from *)
(* there, no other thread adds or removes an entry, moves the array or      *)
(* advances the round: the p of the loop stays the peer it was.             *)
(***************************************************************************)
RoundExclusive ==
  [][ \A t \in Threads :
        (mlock = t /\ pc'[t] = pc[t])
        => /\ tbl'.count = tbl.count /\ tbl'.gen = tbl.gen
           /\ tbl'.iter = tbl.iter ]_vars

(***************************************************************************)
(* A round of peer_next visits every peer that is in the table from the     *)
(* beginning of the round to its end.                                       *)
(***************************************************************************)
RoundEndsComplete ==
  \A t \in Threads : (pc[t] = "acq" /\ pc'[t] \in {"idle", "r_del"})
                     => due[t] \cap LiveKeys(tbl) = {}
RoundComplete == [][RoundEndsComplete]_vars

\* A closed descriptor is in neither of the sets given to select.
NoneClosed == freefds \cap (rset \cup wset) = {}

(***************************************************************************)
(* No closed descriptor is in a set, where it would make select fail, until *)
(* a pointer designates another entry than the one it was got for: a socket *)
(* is in one entry only, and the one that connection_thread closes is       *)
(* replaced by SOCKET_ONEWAY before the entry goes into the sets.           *)
(***************************************************************************)
SetsOpen == strayed \/ NoneClosed

(***************************************************************************)
(* The assertion fd >= 0 of send_event_to_peer_internal holds: a handler    *)
(* never sends to an entry that has no socket.                              *)
(***************************************************************************)
SendHasSocket == status # "assert_fd"

(***************************************************************************)
(* The assertion isock != osock of peer_addtoset holds.                     *)
(***************************************************************************)
SocketsDiffer == status # "assert_socks"

-----------------------------------------------------------------------------

(***************************************************************************)
(* Where a thread depends on somebody outside: a connection, time or data   *)
(* at "idle", the rest of a body in read_thread's loop, which goes round    *)
(* for ever once recv returns 0, and a peer or a user interface that has to *)
(* take what send blocks on.                                                *)
(***************************************************************************)
Waits(t) == \/ pc[t] \in {"idle", "r_body", "r_clr", "b_clr", "reply"}
            \/ t = "main" /\ pc[t] = "visit" /\ task = "send"
            \/ t = "conn" /\ pc[t] = "c_connect"

\* Elsewhere a thread is scheduled.
Fairness == \A t \in Active : WF_vars(~Waits(t) /\ Step(t))

FairSpec == Spec /\ Fairness

(***************************************************************************)
(* What the environment does for the core: no thread that walks the peers   *)
(* is kept waiting in the middle of its round for ever.  Every header is    *)
(* followed by its body, and what is sent is taken.                         *)
(***************************************************************************)
Served == \A t \in {"read", "main"} : []<>(pc[t] = "idle" \/ ~Waits(t))

(***************************************************************************)
(* The threads' own part of "release the lock when done" (peermanager.h:35):*)
(* if every body and every send inside a round comes to its end (Served),   *)
(* m_lock is released again and again, and neither a round nor the end of   *)
(* one nor a handler that runs inside it keeps the other threads waiting    *)
(* for ever.  Without Served the code does not keep this: read_thread holds *)
(* m_lock in the loop of core.c:485 and in every send of a handler.         *)
(***************************************************************************)
LockReleased == Served => []<>(mlock = NoThread \/ status # "ok")
=============================================================================

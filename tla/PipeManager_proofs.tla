------------------------- MODULE PipeManager_proofs -------------------------
(***************************************************************************)
(* What holds of the pipes to the user interfaces for every number of       *)
(* slots, interfaces and events.  The main loop and the sending thread      *)
(* change the slots under each other's feet; the inductive invariant says   *)
(* what each may still rely on.                                             *)
(***************************************************************************)
EXTENDS PipeManager, WellFoundedInduction, TLAPS

\* A loop that uses a slot has not left the array.
InArray == /\ mpc \in {"recv", "remove"} => mi \in Index
           /\ spc \in {"send", "remove"} => si \in Index

\* What waits to be received was sent.
Counted == \A fd \in Fds : inbox[fd] <= events[fd]

\* A descriptor nobody has connected to is in none of the places.
NewUnknown ==
  \A fd \in Fds : client[fd] = "none" =>
    fd \notin pipeset /\ fd \notin sset /\ \A i \in Index : pipe_fds[i] # fd

\* The loops over 0..pipe_slot come to every slot in use.
InReach == \A i \in Index : pipe_fds[i] # NoFd => i <= pipe_slot

\* The slots the sender has passed hold no descriptor that select reported and
\* that has not got the event.
Served ==
  spc # "idle" =>
    \A i \in Index : i < si => pipe_fds[i] \notin sset \ got

\* The inductive invariant.
PipesInv == TypeOK /\ InArray /\ Counted /\ NewUnknown /\ InReach /\ Served

-----------------------------------------------------------------------------
\* Facts about the operations of the file

\* A nonempty set of numbers has a least one, and below a bound a greatest.
LEMMA LeastFd ==
  ASSUME NEW S \in SUBSET Nat, S # {}
  PROVE  \E m \in S : \A k \in S : m <= k
<1>1. PICK m \in S : \A k \in S : <<k, m>> \notin OpToRel(<, Nat)
  BY NatLessThanWellFounded, WFMin
<1>2. OpToRel(<, Nat) = {ss \in Nat \X Nat : ss[1] < ss[2]}
  BY DEF OpToRel
<1>3. ASSUME NEW k \in S, k < m
      PROVE  FALSE
  <2>1. <<k, m>> \in {ss \in Nat \X Nat : ss[1] < ss[2]}
    BY <1>3
  <2>2. QED
    BY <1>1, <1>2, <2>1
<1>4. \A k \in S : k \in Nat /\ m \in Nat
  OBVIOUS
<1>5. QED
  BY <1>3, <1>4

\* Below a bound there is a greatest one.
LEMMA GreatestExists ==
  ASSUME NEW n \in Nat, NEW S \in SUBSET (0..n), S # {}
  PROVE  \E m \in S : \A k \in S : k <= m
<1> DEFINE T == {n - k : k \in S}
<1>1. \A k \in S : k \in Int /\ 0 <= k /\ k <= n
  OBVIOUS
<1>2. T \in SUBSET Nat
  BY <1>1
<1>3. T # {}
  <2>1. PICK k \in S : TRUE
    OBVIOUS
  <2>2. n - k \in T
    OBVIOUS
  <2>3. QED
    BY <2>2
<1>4. PICK t \in T : \A u \in T : t <= u
  BY <1>2, <1>3, LeastFd
<1>5. PICK m \in S : t = n - m
  OBVIOUS
<1>6. \A k \in S : k <= m
  <2>1. \A k \in S : n - m <= n - k
    BY <1>4, <1>5
  <2>2. QED
    BY <1>1, <2>1
<1>7. QED
  BY <1>6

\* The slots of the array, and a descriptor is none of the marks.
LEMMA SlotParts ==
  /\ MaxListeners \in Nat \ {0}
  /\ \A i : i \in Index <=> i \in Int /\ 0 <= i /\ i < MaxListeners
  /\ Fds \subseteq Nat /\ NoFd \notin Fds
BY MaxListenersAssumption, PipeFdsAssumption DEF Index, NoFd

\* secondmax is an index.
LEMMA SecondMaxType ==
  ASSUME NEW j \in Index
  PROVE  SecondMax(j) \in Index
<1>1. CASE Below(j) = {}
  BY <1>1, SlotParts DEF SecondMax
<1>2. CASE Below(j) # {}
  <2>1. j \in Nat /\ Below(j) \in SUBSET (0..j) /\ Below(j) \subseteq Index
    BY SlotParts DEF Below
  <2>2. \E m \in Below(j) : \A k \in Below(j) : k <= m
    BY <1>2, <2>1, GreatestExists
  <2>3. SecondMax(j) \in Below(j)
    BY <1>2, <2>2 DEF SecondMax
  <2>4. QED
    BY <2>1, <2>3
<1>3. QED
  BY <1>1, <1>2

\* pipe_add, with a slot left: nothing but the new descriptor comes in, in a
\* slot the loops come to.
LEMMA PipeAddSlots ==
  ASSUME PipesInv, pipe_slot < MaxListeners, NEW fd \in Fds, PipeAdd(fd)
  PROVE  /\ pipe_fds' \in [Index -> Fds \cup {NoFd}]
         /\ pipe_slot' \in -1..MaxListeners /\ pipe_slot <= pipe_slot'
         /\ pipeset' \subseteq pipeset \cup {fd} /\ pipeset' \subseteq Fds
         /\ fd_max' \in Index \cup Fds
         /\ \A i \in Index : pipe_fds'[i] \in {pipe_fds[i], fd}
         /\ InReach'
<1>1. /\ pipe_fds \in [Index -> Fds \cup {NoFd}]
      /\ pipe_slot \in Int /\ -1 <= pipe_slot /\ pipe_slot <= MaxListeners
      /\ pipeset \subseteq Fds /\ fd_max \in Index \cup Fds
  BY SlotParts DEF PipesInv, TypeOK
<1>2. CASE UNCHANGED pipes
  BY <1>1, <1>2, SlotParts DEF pipes, PipesInv, InReach
<1>3. CASE /\ \E i \in 0..pipe_slot : pipe_fds[i] = NoFd
           /\ pipe_fds' = [pipe_fds EXCEPT ![pipe_slot] = fd]
           /\ pipe_slot' = pipe_slot + 1
           /\ pipeset' = pipeset \cup {fd}
           /\ fd_max' = IF fd > fd_max THEN fd ELSE fd_max
  <2>1. pipe_slot \in Index
    BY <1>1, <1>3, SlotParts
  <2>2. /\ pipe_fds' \in [Index -> Fds \cup {NoFd}]
        /\ \A i \in Index : pipe_fds'[i] = IF i = pipe_slot THEN fd
                                           ELSE pipe_fds[i]
    BY <1>1, <1>3, <2>1
  <2>3. InReach'
    BY <1>1, <1>3, <2>1, <2>2, SlotParts DEF PipesInv, InReach
  <2>4. QED
    BY <1>1, <1>3, <2>2, <2>3, SlotParts
<1>4. QED
  BY <1>2, <1>3 DEF PipeAdd

\* pipe_remove inside the array: slots are only cleared, the one asked for is
\* clear afterwards, and the loops still come to the slots in use.
LEMMA PipeRemoveSlots ==
  ASSUME PipesInv, pipe_slot < MaxListeners, NEW fd, PipeRemove(fd)
  PROVE  /\ pipe_fds' \in [Index -> Fds \cup {NoFd}]
         /\ pipe_slot' \in -1..MaxListeners
         /\ pipeset' \subseteq pipeset
         /\ fd_max' \in Index \cup Fds
         /\ \A i \in Index : pipe_fds'[i] = IF pipe_fds[i] = fd THEN NoFd
                                            ELSE pipe_fds[i]
         /\ InReach'
<1> DEFINE hits == {i \in 0..pipe_slot : pipe_fds[i] = fd}
<1>1. /\ pipe_fds \in [Index -> Fds \cup {NoFd}]
      /\ pipe_slot \in Int /\ -1 <= pipe_slot /\ fd_max \in Index \cup Fds
  BY SlotParts DEF PipesInv, TypeOK
<1>2. hits \subseteq Index
  BY <1>1, SlotParts
<1>3. /\ pipe_fds' = [i \in Index |-> IF i \in hits THEN NoFd ELSE pipe_fds[i]]
      /\ pipe_slot' = IF pipe_slot \in hits THEN pipe_slot - 1 ELSE pipe_slot
      /\ pipeset' = pipeset \ {fd}
      /\ fd_max' = IF fd = fd_max /\ hits # {}
                   THEN SecondMax(CHOOSE i \in hits : TRUE) ELSE fd_max
  BY DEF PipeRemove
<1>4. \A i \in Index : pipe_fds[i] # NoFd => i <= pipe_slot
  BY DEF PipesInv, InReach
<1>5. \A i \in Index : pipe_fds[i] = fd /\ fd # NoFd => i \in hits
  BY <1>1, <1>4, SlotParts
<1>6. \A i \in hits : pipe_fds[i] = fd
  OBVIOUS
<1>7. hits # {} => SecondMax(CHOOSE i \in hits : TRUE) \in Index
  BY <1>2, SecondMaxType
<1>8. pipe_slot' \in -1..MaxListeners
  BY <1>1, <1>3, SlotParts
<1> HIDE DEF hits
<1>9. \A i \in Index : pipe_fds'[i] = IF pipe_fds[i] = fd THEN NoFd
                                      ELSE pipe_fds[i]
  BY <1>3, <1>5, <1>6
<1>10. pipe_fds' \in [Index -> Fds \cup {NoFd}]
  BY <1>1, <1>3
<1>11. InReach'
  <2>1. ASSUME NEW i \in Index, pipe_fds'[i] # NoFd
        PROVE  i <= pipe_slot'
    <3>1. i \notin hits /\ pipe_fds[i] # NoFd
      BY <1>3, <2>1
    <3>2. i <= pipe_slot
      BY <1>4, <3>1
    <3>3. pipe_slot \in hits => i # pipe_slot
      BY <3>1
    <3>4. QED
      BY <1>1, <1>3, <3>2, <3>3, SlotParts
  <2>2. QED
    BY <2>1 DEF InReach
<1>12. QED
  BY <1>1, <1>3, <1>7, <1>8, <1>9, <1>10, <1>11

-----------------------------------------------------------------------------
\* Each action preserves the invariant.

\* pipe_init has run.
LEMMA PipesInit == Init => PipesInv
<1> SUFFICES ASSUME Init PROVE PipesInv
  OBVIOUS
<1>1. /\ 0 \in Index /\ 0 \in 0..MaxEvents /\ 0 \in -1..MaxListeners
      /\ 0 \in 0..(MaxListeners + 1)
  BY SlotParts, MaxEventsAssumption
<1>2. TypeOK
  BY <1>1 DEF Init, TypeOK
<1>3. Counted
  BY DEF Init, Counted
<1>4. InArray /\ NewUnknown /\ InReach /\ Served
  BY SlotParts DEF Init, InArray, NewUnknown, InReach, Served
<1>5. QED
  BY <1>2, <1>3, <1>4 DEF PipesInv

\* An interface connects: its descriptor is one that nothing knows yet.
LEMMA AcceptInv ==
  ASSUME PipesInv, Accept
  PROVE  PipesInv'
<1> USE DEF Running, main, sender
<1> DEFINE fd == CHOOSE f \in NewFds : \A g \in NewFds : f <= g
<1>1. fd \in Fds /\ client[fd] = "none"
  <2>1. NewFds # {} /\ NewFds \subseteq Nat /\ NewFds \subseteq Fds
    BY SlotParts DEF Accept, NewFds
  <2>2. \E f \in NewFds : \A g \in NewFds : f <= g
    BY <2>1, LeastFd
  <2>3. fd \in NewFds
    BY <2>2
  <2>4. QED
    BY <2>3 DEF NewFds
<1>2. /\ PipeAdd(fd) /\ client' = [client EXCEPT ![fd] = "open"]
      /\ mpc' = "poll" /\ pipe_slot < MaxListeners
      /\ UNCHANGED <<mi, mset, spc, si, sset, got, inbox, events, unread,
                     status>>
  BY DEF Accept
<1> HIDE DEF fd
<1>3. /\ pipe_fds' \in [Index -> Fds \cup {NoFd}]
      /\ pipe_slot' \in -1..MaxListeners
      /\ pipeset' \subseteq pipeset \cup {fd} /\ pipeset' \subseteq Fds
      /\ fd_max' \in Index \cup Fds
      /\ \A i \in Index : pipe_fds'[i] \in {pipe_fds[i], fd}
      /\ InReach'
  BY <1>1, <1>2, PipeAddSlots
<1>4. /\ client' \in [Fds -> {"none", "open", "eof", "reset"}]
      /\ \A f \in Fds : client'[f] = IF f = fd THEN "open" ELSE client[f]
  BY <1>1, <1>2 DEF PipesInv, TypeOK
<1>5. TypeOK'
  BY <1>2, <1>3, <1>4 DEF PipesInv, TypeOK
<1>6. InArray' /\ Counted'
  BY <1>2 DEF PipesInv, InArray, Counted
<1>7. NewUnknown'
  BY <1>2, <1>3, <1>4 DEF PipesInv, NewUnknown
<1>8. Served'
  <2>1. fd \notin sset
    BY <1>1 DEF PipesInv, NewUnknown
  <2>2. QED
    BY <1>2, <1>3, <2>1 DEF PipesInv, Served
<1>9. QED
  BY <1>3, <1>5, <1>6, <1>7, <1>8 DEF PipesInv

\* The main loop looks for an event: it does not touch the slots.
LEMMA MainLoopInv ==
  ASSUME PipesInv,
         AcceptNone \/ Poll \/ MainScan \/ RecvEvent \/ RecvEof \/ RecvError
  PROVE  PipesInv'
<1> USE DEF Running, pipes, main, sender, clients,
            AcceptNone, Poll, MainScan, RecvEvent, RecvEof, RecvError
<1>1. UNCHANGED <<pipe_fds, pipe_slot, pipeset, fd_max, spc, si, sset, got,
                  client, events, unread>>
  OBVIOUS
<1>2. /\ mset' \subseteq Fds /\ mi' \in 0..(MaxListeners + 1)
      /\ mpc' \in {"accept", "poll", "scan", "recv", "remove"}
      /\ status' \in {"ok", "overrun", "exited"}
      /\ mpc' \in {"recv", "remove"} => mi' \in Index
  <2>1. CASE MainScan
    <3>1. mi \in Int /\ 0 <= mi /\ mi <= MaxListeners + 1
          /\ pipe_slot \in Int /\ pipe_slot <= MaxListeners
      BY SlotParts DEF PipesInv, TypeOK
    <3>2. mi <= pipe_slot => mi < MaxListeners
      BY <2>1, <3>1, SlotParts DEF ScanOverruns
    <3>3. \/ mi' = 0 /\ mpc' = "accept"
          \/ mi <= pipe_slot /\ mi' = mi /\ mpc' = "recv"
          \/ mi <= pipe_slot /\ mi' = mi + 1 /\ mpc' = "scan"
      BY <2>1
    <3>4. mi' \in 0..(MaxListeners + 1) /\ (mpc' = "recv" => mi' \in Index)
      BY <3>1, <3>2, <3>3, SlotParts
    <3>5. mset' \subseteq Fds /\ status' = status
      BY <2>1 DEF PipesInv, TypeOK
    <3>6. QED
      BY <3>3, <3>4, <3>5 DEF PipesInv, TypeOK
  <2>2. CASE Poll
    <3>1. mi' = 0 /\ mpc' \in {"accept", "scan"} /\ mset' \subseteq pipeset
          /\ status' = status
      BY <2>2
    <3>2. QED
      BY <3>1, SlotParts DEF PipesInv, TypeOK
  <2>3. CASE AcceptNone \/ RecvEvent \/ RecvEof \/ RecvError
    <3>1. /\ mi \in 0..(MaxListeners + 1) /\ 0 \in 0..(MaxListeners + 1)
          /\ mset \subseteq Fds /\ status = "ok"
      BY <2>3, SlotParts DEF PipesInv, TypeOK
    <3>2. mpc \in {"recv", "remove"} => mi \in Index
      BY DEF PipesInv, InArray
    <3>3. CASE AcceptNone \/ RecvEvent
      BY <3>1, <3>3
    <3>4. CASE RecvEof \/ RecvError
      BY <3>1, <3>2, <3>4
    <3>5. QED
      BY <2>3, <3>3, <3>4
  <2>4. QED
    BY <2>1, <2>2, <2>3
<1>3. /\ inbox' \in [Fds -> 0..MaxEvents]
      /\ \A fd \in Fds : inbox'[fd] <= inbox[fd]
  <2>1. inbox \in [Fds -> 0..MaxEvents]
    BY DEF PipesInv, TypeOK
  <2>2. CASE RecvEvent
    <3>1. mi \in Index /\ pipe_fds \in [Index -> Fds \cup {NoFd}]
      BY <2>2 DEF PipesInv, InArray, TypeOK
    <3>2. pipe_fds[mi] \in Fds /\ inbox[pipe_fds[mi]] > 0
      BY <2>2, <3>1
    <3>3. inbox[pipe_fds[mi]] - 1 \in 0..MaxEvents
      BY <2>1, <3>2, MaxEventsAssumption
    <3>4. QED
      BY <2>1, <2>2, <3>2, <3>3, MaxEventsAssumption
  <2>3. CASE ~RecvEvent
    <3>1. inbox' = inbox
      BY <2>3
    <3>2. QED
      BY <2>1, <3>1, MaxEventsAssumption
  <2>4. QED
    BY <2>2, <2>3
<1>4. TypeOK'
  BY <1>1, <1>2, <1>3 DEF PipesInv, TypeOK
<1>5. InArray'
  BY <1>1, <1>2 DEF PipesInv, InArray
<1>6. Counted'
  <2>1. \A fd \in Fds : inbox[fd] \in Int /\ inbox'[fd] \in Int
                        /\ events[fd] \in Int
    BY <1>3, MaxEventsAssumption DEF PipesInv, TypeOK
  <2>2. QED
    BY <1>1, <1>3, <2>1 DEF PipesInv, Counted
<1>7. NewUnknown' /\ InReach' /\ Served'
  BY <1>1 DEF PipesInv, NewUnknown, InReach, Served
<1>8. QED
  BY <1>4, <1>5, <1>6, <1>7 DEF PipesInv

\* Removing a descriptor leaves a slot empty: nobody is forgotten by the loop
\* of the sender, whichever thread does it.
LEMMA MainRemoveInv ==
  ASSUME PipesInv, MainRemove
  PROVE  PipesInv'
<1> USE DEF Running, sender, clients
<1>1. /\ pipe_fds' \in [Index -> Fds \cup {NoFd}]
      /\ pipe_slot' \in -1..MaxListeners
      /\ pipeset' \subseteq pipeset
      /\ fd_max' \in Index \cup Fds
      /\ \A i \in Index : pipe_fds'[i] \in {pipe_fds[i], NoFd}
      /\ InReach'
  BY PipeRemoveSlots DEF MainRemove
<1>2. mi \in Index /\ mi' = mi + 1 /\ mpc' = "scan"
  BY DEF MainRemove, PipesInv, InArray
<1>3. UNCHANGED <<mset, spc, si, sset, got, client, inbox, events, unread,
                  status>>
  BY DEF MainRemove
<1>4. TypeOK'
  <2>1. mi' \in 0..(MaxListeners + 1)
    BY <1>2, SlotParts
  <2>2. QED
    BY <1>1, <1>2, <1>3, <2>1 DEF PipesInv, TypeOK
<1>5. InArray' /\ Counted'
  BY <1>2, <1>3 DEF PipesInv, InArray, Counted
<1>6. NewUnknown'
  BY <1>1, <1>3, SlotParts DEF PipesInv, NewUnknown
<1>7. Served'
  <2>1. NoFd \notin sset
    BY SlotParts DEF PipesInv, TypeOK
  <2>2. QED
    BY <1>1, <1>3, <2>1 DEF PipesInv, Served
<1>8. QED
  BY <1>1, <1>4, <1>5, <1>6, <1>7 DEF PipesInv

\* A round of the sender begins with every reported descriptor to be served.
LEMMA SendStartInv ==
  ASSUME PipesInv, SendStart
  PROVE  PipesInv'
<1> USE DEF Running, pipes, main, clients
<1>1. /\ sset' \subseteq pipeset /\ spc' = "scan" /\ si' = 0 /\ got' = {}
      /\ UNCHANGED <<pipe_fds, pipe_slot, pipeset, fd_max, mpc, mi, mset, client,
                     inbox, events, unread, status>>
  BY DEF SendStart
<1>2. TypeOK'
  BY <1>1, SlotParts DEF PipesInv, TypeOK
<1>3. InArray' /\ Counted' /\ InReach'
  BY <1>1 DEF PipesInv, InArray, Counted, InReach
<1>4. NewUnknown'
  BY <1>1 DEF PipesInv, NewUnknown
<1>5. Served'
  BY <1>1, SlotParts DEF Served
<1>6. QED
  BY <1>2, <1>3, <1>4, <1>5 DEF PipesInv

\* It passes a slot that was not reported, or comes to one that was.
LEMMA SendScanInv ==
  ASSUME PipesInv, SendScan
  PROVE  PipesInv'
<1> USE DEF Running, pipes, main, clients
<1>1. UNCHANGED <<pipe_fds, pipe_slot, pipeset, fd_max, mpc, mi, mset, client,
                  inbox, events, unread, status>>
  BY DEF SendScan
<1>2. /\ si \in Int /\ 0 <= si /\ si <= MaxListeners + 1 /\ spc = "scan"
      /\ pipe_slot \in Int /\ pipe_slot <= MaxListeners
      /\ si <= pipe_slot => si < MaxListeners
  <2>1. si \in Int /\ 0 <= si /\ si <= MaxListeners + 1
        /\ pipe_slot \in Int /\ pipe_slot <= MaxListeners
    BY SlotParts DEF PipesInv, TypeOK
  <2>2. QED
    BY <2>1, SlotParts DEF SendScan, ScanOverruns
<1>3. \/ /\ spc' = "idle" /\ sset' = {} /\ got' = {} /\ si' = 0
      \/ /\ si <= pipe_slot /\ spc' = "send" /\ UNCHANGED <<si, sset, got>>
      \/ /\ si <= pipe_slot /\ pipe_fds[si] \notin sset
         /\ si' = si + 1 /\ UNCHANGED <<spc, sset, got>>
  BY DEF SendScan
<1>4. si' \in 0..(MaxListeners + 1) /\ (spc' = "send" => si' \in Index)
  BY <1>2, <1>3, SlotParts
<1>5. spc' \in {"idle", "scan", "send"} /\ sset' \subseteq sset
      /\ got' \subseteq Fds
  BY <1>2, <1>3 DEF PipesInv, TypeOK
<1>6. TypeOK'
  BY <1>1, <1>4, <1>5 DEF PipesInv, TypeOK
<1>7. InArray'
  BY <1>1, <1>4, <1>5 DEF PipesInv, InArray
<1>8. Counted' /\ InReach' /\ NewUnknown'
  BY <1>1, <1>5 DEF PipesInv, Counted, InReach, NewUnknown
<1>9. Served'
  <2>1. \A i \in Index : i < si => pipe_fds[i] \notin sset \ got
    BY <1>2 DEF PipesInv, Served
  <2>2. \A i \in Index : i < si + 1 => i < si \/ i = si
    BY <1>2, SlotParts
  <2>3. QED
    BY <1>1, <1>3, <2>1, <2>2 DEF Served
<1>10. QED
  BY <1>6, <1>7, <1>8, <1>9 DEF PipesInv

\* It sends the event to the slot it has come to, or finds that it cannot.
LEMMA SendEventInv ==
  ASSUME PipesInv, SendEvent
  PROVE  PipesInv'
<1> USE DEF Running, pipes, main
<1>1. UNCHANGED <<pipe_fds, pipe_slot, pipeset, fd_max, mpc, mi, mset, sset,
                  client, inbox, events, status>>
  BY DEF SendEvent
<1>2. /\ si \in Index /\ spc = "send"
      /\ pipe_fds[si] \in Fds \cup {NoFd}
  BY DEF SendEvent, PipesInv, InArray, TypeOK
<1>3. \/ /\ pipe_fds[si] # NoFd
         /\ unread' = unread \cup {pipe_fds[si]}
         /\ got' = got \cup {pipe_fds[si]}
         /\ spc' = "scan" /\ si' = si + 1
      \/ spc' = "remove" /\ UNCHANGED <<unread, got, si>>
  BY DEF SendEvent
<1>4. /\ unread' \subseteq Fds /\ got' \subseteq Fds /\ got \subseteq got'
      /\ spc' \in {"scan", "remove"}
  BY <1>2, <1>3 DEF PipesInv, TypeOK
<1>5. si' \in 0..(MaxListeners + 1) /\ (spc' = "remove" => si' \in Index)
  BY <1>2, <1>3, SlotParts
<1>6. TypeOK'
  BY <1>1, <1>4, <1>5 DEF PipesInv, TypeOK
<1>7. InArray'
  BY <1>1, <1>4, <1>5 DEF PipesInv, InArray
<1>8. Counted' /\ InReach' /\ NewUnknown'
  BY <1>1 DEF PipesInv, Counted, InReach, NewUnknown
<1>9. Served'
  <2>1. \A i \in Index : i < si => pipe_fds[i] \notin sset \ got
    BY <1>2 DEF PipesInv, Served
  <2>2. \A i \in Index : i < si + 1 => i < si \/ i = si
    BY <1>2, SlotParts
  <2>3. QED
    BY <1>1, <1>3, <1>4, <2>1, <2>2 DEF Served
<1>10. QED
  BY <1>6, <1>7, <1>8, <1>9 DEF PipesInv

\* It removes what it could not send to; what the main loop has put into the
\* slot meanwhile was not reported.
LEMMA SendRemoveInv ==
  ASSUME PipesInv, SendRemove
  PROVE  PipesInv'
<1> USE DEF Running, main, clients
<1>1. /\ pipe_fds' \in [Index -> Fds \cup {NoFd}]
      /\ pipe_slot' \in -1..MaxListeners
      /\ pipeset' \subseteq pipeset
      /\ fd_max' \in Index \cup Fds
      /\ \A i \in Index : pipe_fds'[i] = IF pipe_fds[i] = pipe_fds[si] THEN NoFd
                                         ELSE pipe_fds[i]
      /\ InReach'
  BY PipeRemoveSlots DEF SendRemove
<1>2. si \in Index /\ si' = si + 1 /\ spc = "remove" /\ spc' = "scan"
  BY DEF SendRemove, PipesInv, InArray
<1>3. UNCHANGED <<mpc, mi, mset, sset, got, client, inbox, events, unread,
                  status>>
  BY DEF SendRemove
<1>4. TypeOK'
  <2>1. si' \in 0..(MaxListeners + 1)
    BY <1>2, SlotParts
  <2>2. QED
    BY <1>1, <1>2, <1>3, <2>1 DEF PipesInv, TypeOK
<1>5. InArray' /\ Counted'
  BY <1>2, <1>3 DEF PipesInv, InArray, Counted
<1>6. NewUnknown'
  BY <1>1, <1>3, SlotParts DEF PipesInv, NewUnknown
<1>7. Served'
  <2>1. NoFd \notin sset
    BY SlotParts DEF PipesInv, TypeOK
  <2>2. \A i \in Index : i < si => pipe_fds[i] \notin sset \ got
    BY <1>2 DEF PipesInv, Served
  <2>3. \A i \in Index : i < si + 1 => i < si \/ i = si
    BY <1>2, SlotParts
  <2>4. QED
    BY <1>1, <1>2, <1>3, <2>1, <2>2, <2>3 DEF Served
<1>8. QED
  BY <1>1, <1>4, <1>5, <1>6, <1>7 DEF PipesInv

\* A user interface sends an event, reads one or goes away, or an access leaves
\* the array: the slots stay as they are.
LEMMA ClientInv ==
  ASSUME PipesInv,
         \/ Overrun
         \/ \E fd \in Fds : ClientEvent(fd) \/ ClientRead(fd) \/ ClientClose(fd)
  PROVE  PipesInv'
<1> USE DEF Running, pipes, main, sender, clients
<1>1. UNCHANGED <<pipe_fds, pipe_slot, pipeset, fd_max, mpc, mi, mset, spc, si,
                  sset, got>>
  BY DEF Overrun, ClientEvent, ClientRead, ClientClose
<1>2. CASE Overrun
  BY <1>1, <1>2 DEF Overrun, PipesInv, TypeOK, InArray, Counted, NewUnknown,
                    InReach, Served
<1>3. CASE \E fd \in Fds : ClientEvent(fd) \/ ClientRead(fd) \/ ClientClose(fd)
  <2>1. PICK fd \in Fds : ClientEvent(fd) \/ ClientRead(fd) \/ ClientClose(fd)
    BY <1>3
  <2>2. /\ inbox \in [Fds -> 0..MaxEvents] /\ events \in [Fds -> 0..MaxEvents]
        /\ \A f \in Fds : inbox[f] <= events[f]
        /\ client \in [Fds -> {"none", "open", "eof", "reset"}]
        /\ unread \subseteq Fds /\ status = "ok"
    BY <2>1 DEF PipesInv, TypeOK, Counted, ClientEvent, ClientRead, ClientClose
  <2>3. /\ inbox' \in [Fds -> 0..MaxEvents] /\ events' \in [Fds -> 0..MaxEvents]
        /\ Counted'
    <3>1. CASE ClientEvent(fd)
      <4>1. /\ inbox' = [inbox EXCEPT ![fd] = @ + 1]
            /\ events' = [events EXCEPT ![fd] = @ + 1]
            /\ events[fd] < MaxEvents
        BY <3>1 DEF ClientEvent
      <4>2. /\ inbox[fd] + 1 \in 0..MaxEvents /\ events[fd] + 1 \in 0..MaxEvents
            /\ inbox[fd] + 1 <= events[fd] + 1
        BY <2>2, <4>1, MaxEventsAssumption
      <4>3. QED
        BY <2>2, <4>1, <4>2 DEF Counted
    <3>2. CASE ClientRead(fd) \/ ClientClose(fd)
      BY <2>2, <3>2 DEF ClientRead, ClientClose, Counted
    <3>3. QED
      BY <2>1, <3>1, <3>2
  <2>4. /\ client' \in [Fds -> {"none", "open", "eof", "reset"}]
        /\ \A f \in Fds : client'[f] = "none" => client[f] = "none"
    BY <2>1, <2>2 DEF ClientEvent, ClientRead, ClientClose
  <2>5. unread' \subseteq Fds /\ status' = "ok"
    BY <2>1, <2>2 DEF ClientEvent, ClientRead, ClientClose
  <2>6. TypeOK'
    BY <1>1, <2>3, <2>4, <2>5 DEF PipesInv, TypeOK
  <2>7. InArray' /\ NewUnknown' /\ InReach' /\ Served'
    BY <1>1, <2>4 DEF PipesInv, InArray, NewUnknown, InReach, Served
  <2>8. QED
    BY <2>3, <2>6, <2>7 DEF PipesInv
<1>4. QED
  BY <1>2, <1>3

-----------------------------------------------------------------------------
\* The theorems

\* The invariant holds always: the slots in use are within reach of the loops,
\* and a slot the sender has passed holds nobody it still has to serve.
THEOREM PipesKept == Spec => []PipesInv
<1>1. ASSUME PipesInv, [Next]_vars
      PROVE  PipesInv'
  <2>1. CASE UNCHANGED vars
    BY <1>1, <2>1 DEF vars, PipesInv, TypeOK, InArray, Counted, NewUnknown,
                      InReach, Served
  <2>2. CASE MainStep
    BY <1>1, <2>2, AcceptInv, MainLoopInv, MainRemoveInv DEF MainStep
  <2>3. CASE SendStart \/ SendStep
    BY <1>1, <2>3, SendStartInv, SendScanInv, SendEventInv, SendRemoveInv
       DEF SendStep
  <2>4. CASE \/ Overrun
             \/ \E fd \in Fds : ClientEvent(fd) \/ ClientRead(fd)
                                \/ ClientClose(fd)
    BY <1>1, <2>4, ClientInv
  <2>5. QED
    BY <1>1, <2>1, <2>2, <2>3, <2>4 DEF Next
<1>2. QED
  BY <1>1, PipesInit, PTL DEF Spec

\* Every variable of the pipes keeps its type; fd_max stays a descriptor or an
\* index, which select can be given.
THEOREM PipeTypes == Spec => []TypeOK
<1>1. PipesInv => TypeOK
  BY DEF PipesInv
<1>2. QED
  BY <1>1, PipesKept, PTL

\* An event sent to the interfaces has reached every one that select reported
\* and that is still connected when the round ends, however many there are and
\* whatever connects or is removed meanwhile.
THEOREM EventReachesAll == Spec => BroadcastReaches
<1> DEFINE A == (spc = "scan" /\ spc' = "idle") => (sset \cap Listening) \subseteq got
<1>1. ASSUME PipesInv, [Next]_vars
      PROVE  [A]_vars
  <2>1. SUFFICES ASSUME Next, spc = "scan", spc' = "idle"
                 PROVE  (sset \cap Listening) \subseteq got
    BY <1>1
  <2>2. SendScan
    BY <2>1 DEF Next, MainStep, SendStart, SendStep, Overrun, Accept, AcceptNone,
       Poll, MainScan, RecvEvent, RecvEof, RecvError, MainRemove, SendEvent,
       SendRemove, ClientEvent, ClientRead, ClientClose, sender
  <2>3. si > pipe_slot
    BY <2>1, <2>2 DEF SendScan
  <2>4. \A i \in Index : pipe_fds[i] # NoFd => i < si
    <3>1. si \in Int /\ pipe_slot \in Int
      BY <1>1, SlotParts DEF PipesInv, TypeOK
    <3>2. QED
      BY <1>1, <2>3, <3>1, SlotParts DEF PipesInv, InReach
  <2>5. QED
    BY <1>1, <2>1, <2>4 DEF PipesInv, Served, Listening
<1>2. QED
  BY <1>1, PipesKept, PTL DEF Spec, BroadcastReaches

\* Adding a descriptor that is in no slot keeps slots and set consistent.
LEMMA AddConsistent ==
  ASSUME PipesInv, Consistent, pipe_slot < MaxListeners, NEW fd \in Fds,
         \A i \in Index : pipe_fds[i] # fd, PipeAdd(fd)
  PROVE  Consistent'
<1>1. /\ pipe_fds \in [Index -> Fds \cup {NoFd}]
      /\ pipe_slot \in Int /\ -1 <= pipe_slot
  BY SlotParts DEF PipesInv, TypeOK
<1>2. CASE UNCHANGED pipes
  BY <1>2 DEF pipes, Consistent, Listening
<1>3. CASE /\ \E i \in 0..pipe_slot : pipe_fds[i] = NoFd
           /\ pipe_fds' = [pipe_fds EXCEPT ![pipe_slot] = fd]
           /\ pipe_slot' = pipe_slot + 1
           /\ pipeset' = pipeset \cup {fd}
  <2>1. pipe_slot \in Index /\ fd # NoFd
    BY <1>1, <1>3, SlotParts
  <2>2. pipe_fds[pipe_slot] = NoFd
    BY <1>1, <2>1 DEF Consistent
  <2>3. \A i \in Index : pipe_fds'[i] = IF i = pipe_slot THEN fd
                                        ELSE pipe_fds[i]
    BY <1>1, <1>3, <2>1
  <2>4. Listening' = Listening \cup {fd}
    BY <2>1, <2>2, <2>3 DEF Listening
  <2>5. \A i, j \in Index :
           pipe_fds'[i] = pipe_fds'[j] /\ pipe_fds'[i] # NoFd => i = j
    BY <2>3 DEF Consistent
  <2>6. \A i \in Index : pipe_fds'[i] # NoFd => i < pipe_slot'
    BY <1>1, <1>3, <2>3, SlotParts DEF Consistent
  <2>7. QED
    BY <1>3, <2>4, <2>5, <2>6 DEF Consistent
<1>4. QED
  BY <1>2, <1>3 DEF PipeAdd

\* So does removing a descriptor that is in a slot: pipe_slot stays, because
\* the slot is below it.
LEMMA RemoveConsistent ==
  ASSUME PipesInv, Consistent, pipe_slot < MaxListeners, NEW s \in Index,
         pipe_fds[s] # NoFd, PipeRemove(pipe_fds[s])
  PROVE  Consistent'
<1> DEFINE hits == {i \in 0..pipe_slot : pipe_fds[i] = pipe_fds[s]}
<1>1. \A i \in Index : pipe_fds'[i] = IF pipe_fds[i] = pipe_fds[s] THEN NoFd
                                      ELSE pipe_fds[i]
  BY PipeRemoveSlots
<1>2. pipe_slot \in Int /\ -1 <= pipe_slot
  BY SlotParts DEF PipesInv, TypeOK
<1>3. pipe_slot \notin hits
  <2>1. pipe_slot \in hits => pipe_slot \in Index
    BY <1>2, SlotParts
  <2>2. QED
    BY <1>2, <2>1 DEF Consistent
<1>4. pipe_slot' = pipe_slot /\ pipeset' = pipeset \ {pipe_fds[s]}
  BY <1>3 DEF PipeRemove
<1>5. Listening' = Listening \ {pipe_fds[s]}
  BY <1>1 DEF Listening
<1>6. QED
  BY <1>1, <1>4, <1>5 DEF Consistent

\* The slots and the descriptor set stay consistent in every step but the
\* removal, by one thread, of what the other has removed.
THEOREM SlotsStayConsistent == Spec => SlotsMatchSet
<1> DEFINE A == (Consistent /\ ~RemovesNothing) => Consistent'
<1>1. ASSUME PipesInv, [Next]_vars
      PROVE  [A]_vars
  <2>1. SUFFICES ASSUME Next, Consistent, ~RemovesNothing
                 PROVE  Consistent'
    BY <1>1
  <2>2. CASE Accept
    <3> DEFINE fd == CHOOSE f \in NewFds : \A g \in NewFds : f <= g
    <3>1. NewFds # {} /\ NewFds \subseteq Nat /\ NewFds \subseteq Fds
      BY <2>2, SlotParts DEF Accept, NewFds
    <3>2. \E f \in NewFds : \A g \in NewFds : f <= g
      BY <3>1, LeastFd
    <3>3. fd \in NewFds
      BY <3>2
    <3>4. PipeAdd(fd) /\ pipe_slot < MaxListeners
      BY <2>2 DEF Accept
    <3> HIDE DEF fd
    <3>5. fd \in Fds /\ \A i \in Index : pipe_fds[i] # fd
      BY <1>1, <3>3 DEF NewFds, PipesInv, NewUnknown
    <3>6. QED
      BY <1>1, <2>1, <3>4, <3>5, AddConsistent
  <2>3. CASE MainRemove
    <3>1. mi \in Index /\ pipe_fds[mi] # NoFd
      BY <1>1, <2>1, <2>3 DEF MainRemove, RemovesNothing, PipesInv, InArray
    <3>2. QED
      BY <1>1, <2>1, <2>3, <3>1, RemoveConsistent DEF MainRemove
  <2>4. CASE SendRemove
    <3>1. si \in Index /\ pipe_fds[si] # NoFd
      BY <1>1, <2>1, <2>4 DEF SendRemove, RemovesNothing, PipesInv, InArray
    <3>2. QED
      BY <1>1, <2>1, <2>4, <3>1, RemoveConsistent DEF SendRemove
  <2>5. CASE ~(Accept \/ MainRemove \/ SendRemove)
    <3>1. UNCHANGED pipes
      BY <2>1, <2>5 DEF Next, MainStep, SendStart, SendStep, Overrun, AcceptNone,
         Poll, MainScan, RecvEvent, RecvEof, RecvError, SendScan, SendEvent,
         ClientEvent, ClientRead, ClientClose
    <3>2. QED
      BY <2>1, <3>1 DEF pipes, Consistent, Listening
  <2>6. QED
    BY <2>2, <2>3, <2>4, <2>5
<1>2. QED
  BY <1>1, PipesKept, PTL DEF Spec, SlotsMatchSet
=============================================================================

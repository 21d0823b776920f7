----------------------------- MODULE PipeManager -----------------------------
(***************************************************************************)
(* The unix socket connections of the user interfaces (pipemanager.c), the  *)
(* main loop that accepts them and receives their events (core.c), and a    *)
(* thread of the core that sends events to all of them.  Nothing here is    *)
(* protected by a lock: a step is one evaluation of pipe_fds[i] with what   *)
(* the code does before it evaluates pipe_fds[i] again.                     *)
(***************************************************************************)
EXTENDS Integers, FiniteSets

CONSTANTS MaxListeners,  \* MAX_PIPE_LISTENERS
          Fds,           \* descriptors accept can return
          MaxEvents,     \* bound: events one interface sends
          Sending,       \* whether a second thread sends events
          Closing        \* whether interfaces may close their connection

ASSUME MaxListenersAssumption == MaxListeners \in Nat \ {0}
\* What matters is that the descriptor in a slot exceeds the slot's index: each
\* accept of a process that closes none returns a larger descriptor.
ASSUME PipeFdsAssumption == Fds \subseteq Nat /\ \A fd \in Fds : fd > MaxListeners
ASSUME MaxEventsAssumption == MaxEvents \in Nat
ASSUME SwitchAssumption == Sending \in BOOLEAN /\ Closing \in BOOLEAN

Index == 0..(MaxListeners - 1)
NoFd == -1

VARIABLES pipe_fds, pipe_slot, pipeset, fd_max,  \* the statics of the file
          mpc, mi, mset,       \* the main loop: where, loop index, its fd_set
          spc, si, sset, got,  \* the sender; got: who received the event
          client,  \* external: state of the other end of a descriptor
          inbox,   \* external: events not yet received from a descriptor
          events,  \* external: how many events an interface has sent
          unread,  \* external: interfaces with unread events of the core
          status

pipes == <<pipe_fds, pipe_slot, pipeset, fd_max>>
main == <<mpc, mi, mset>>
sender == <<spc, si, sset, got>>
clients == <<client, inbox, events, unread>>
vars == <<pipe_fds, pipe_slot, pipeset, fd_max, mpc, mi, mset,
          spc, si, sset, got, client, inbox, events, unread, status>>

TypeOK ==
  /\ pipe_fds \in [Index -> Fds \cup {NoFd}]
  /\ pipe_slot \in -1..MaxListeners
  /\ pipeset \subseteq Fds
  /\ fd_max \in Index \cup Fds
  /\ mpc \in {"accept", "poll", "scan", "recv", "remove"}
  /\ mi \in 0..(MaxListeners + 1)
  /\ mset \subseteq Fds
  /\ spc \in {"idle", "scan", "send", "remove"}
  /\ si \in 0..(MaxListeners + 1)
  /\ sset \subseteq Fds /\ got \subseteq Fds
  /\ client \in [Fds -> {"none", "open", "eof", "reset"}]
  /\ inbox \in [Fds -> 0..MaxEvents]
  /\ events \in [Fds -> 0..MaxEvents]
  /\ unread \subseteq Fds
  /\ status \in {"ok", "overrun", "exited"}

\* pipe_init
Init ==
  /\ pipe_fds = [i \in Index |-> NoFd]
  /\ pipe_slot = 0 /\ pipeset = {} /\ fd_max = 0
  /\ mpc = "accept" /\ mi = 0 /\ mset = {}
  /\ spc = "idle" /\ si = 0 /\ sset = {} /\ got = {}
  /\ client = [fd \in Fds |-> "none"]
  /\ inbox = [fd \in Fds |-> 0] /\ events = [fd \in Fds |-> 0]
  /\ unread = {}
  /\ status = "ok"

Running == status = "ok"
Listening == {pipe_fds[i] : i \in Index} \ {NoFd}

-----------------------------------------------------------------------------

\* Mutant of PipeAdd: fd_max is forgotten.
PipeAddKeepsMax(fd) ==
  IF \E i \in 0..pipe_slot : pipe_fds[i] = NoFd
  THEN /\ pipe_fds' = [pipe_fds EXCEPT ![pipe_slot] = fd]
       /\ pipe_slot' = pipe_slot + 1
       /\ pipeset' = pipeset \cup {fd}
       /\ UNCHANGED fd_max
  ELSE UNCHANGED pipes

(***************************************************************************)
(* pipe_add looks for a free slot but stores into the slot pipe_slot.       *)
(***************************************************************************)
PipeAdd(fd) ==
  IF \E i \in 0..pipe_slot : pipe_fds[i] = NoFd
  THEN /\ pipe_fds' = [pipe_fds EXCEPT ![pipe_slot] = fd]
       /\ pipe_slot' = pipe_slot + 1
       /\ pipeset' = pipeset \cup {fd}
       /\ fd_max' = IF fd > fd_max THEN fd ELSE fd_max
  ELSE UNCHANGED pipes

\* The secondmax of pipe_remove when its loop is at slot j: an index.
Below(j) == {i \in 0..(j - 1) : pipe_fds[i] # NoFd /\ pipe_fds[i] < fd_max}
\* Mutant: secondmax starts at -1.
SecondMaxNone(j) == IF Below(j) = {} THEN -1
                    ELSE CHOOSE i \in Below(j) : \A k \in Below(j) : k <= i
SecondMax(j) == IF Below(j) = {} THEN 0
                ELSE CHOOSE i \in Below(j) : \A k \in Below(j) : k <= i

\* Mutant of PipeRemove: FD_CLR is forgotten.
PipeRemoveKeepsSet(fd) ==
  LET hits == {i \in 0..pipe_slot : pipe_fds[i] = fd}
  IN  /\ pipe_fds' = [i \in Index |-> IF i \in hits THEN NoFd ELSE pipe_fds[i]]
      /\ pipe_slot' = IF pipe_slot \in hits THEN pipe_slot - 1 ELSE pipe_slot
      /\ fd_max' = IF fd = fd_max /\ hits # {}
                   THEN SecondMax(CHOOSE i \in hits : TRUE) ELSE fd_max
      /\ UNCHANGED pipeset

(***************************************************************************)
(* pipe_remove: fd may be NoFd, when the caller's slot was cleared by the   *)
(* other thread.  The descriptor is not closed.                             *)
(***************************************************************************)
PipeRemove(fd) ==
  LET hits == {i \in 0..pipe_slot : pipe_fds[i] = fd}
  IN  /\ pipe_fds' = [i \in Index |-> IF i \in hits THEN NoFd ELSE pipe_fds[i]]
      /\ pipe_slot' = IF pipe_slot \in hits THEN pipe_slot - 1 ELSE pipe_slot
      /\ pipeset' = pipeset \ {fd}
      /\ fd_max' = IF fd = fd_max /\ hits # {}
                   THEN SecondMax(CHOOSE i \in hits : TRUE) ELSE fd_max

\* A loop over 0..pipe_slot reaches the end of the array.
ScanOverruns(i) == i <= pipe_slot /\ i >= MaxListeners

-----------------------------------------------------------------------------
\* The main loop: pipe_accept, then poll_event_from_pipes

NewFds == {fd \in Fds : client[fd] = "none"}

\* A listener connects; descriptors are never closed, so each is a new one.
Accept ==
  /\ Running /\ mpc = "accept" /\ NewFds # {} /\ pipe_slot < MaxListeners
  /\ LET fd == CHOOSE f \in NewFds : \A g \in NewFds : f <= g
     IN  /\ PipeAdd(fd)
         /\ client' = [client EXCEPT ![fd] = "open"]
  /\ mpc' = "poll"
  /\ UNCHANGED <<mi, mset, sender, inbox, events, unread, status>>

AcceptNone ==
  /\ Running /\ mpc = "accept"
  /\ mpc' = "poll"
  /\ UNCHANGED <<pipes, mi, mset, sender, clients, status>>

Readable(fd) == inbox[fd] > 0 \/ client[fd] \in {"eof", "reset"}

Poll ==
  /\ Running /\ mpc = "poll"
  /\ LET ready == {fd \in pipeset : fd <= fd_max /\ Readable(fd)}
     IN  /\ mset' = ready
         /\ mpc' = IF ready = {} THEN "accept" ELSE "scan"
  /\ mi' = 0
  /\ UNCHANGED <<pipes, sender, clients, status>>

MainScan ==
  /\ Running /\ mpc = "scan" /\ ~ScanOverruns(mi)
  /\ \/ /\ mi > pipe_slot
        /\ mpc' = "accept" /\ mset' = {} /\ mi' = 0
     \/ /\ mi <= pipe_slot
        /\ pipe_fds[mi] \in mset
        /\ mpc' = "recv" /\ UNCHANGED <<mi, mset>>
     \/ /\ mi <= pipe_slot
        /\ pipe_fds[mi] \notin mset
        /\ mi' = mi + 1 /\ UNCHANGED <<mpc, mset>>
  /\ UNCHANGED <<pipes, sender, clients, status>>

\* event_recv gets an event, runs its callbacks and the poll returns,
RecvEvent ==
  /\ Running /\ mpc = "recv"
  /\ pipe_fds[mi] # NoFd /\ inbox[pipe_fds[mi]] > 0
  /\ inbox' = [inbox EXCEPT ![pipe_fds[mi]] = @ - 1]
  /\ mpc' = "accept" /\ mset' = {} /\ mi' = 0
  /\ UNCHANGED <<pipes, sender, client, events, unread, status>>

\* or the end of file,
RecvEof ==
  /\ Running /\ mpc = "recv"
  /\ pipe_fds[mi] # NoFd
  /\ inbox[pipe_fds[mi]] = 0 /\ client[pipe_fds[mi]] = "eof"
  /\ mpc' = "remove"
  /\ UNCHANGED <<pipes, mi, mset, sender, clients, status>>

\* or an error, on which it ends the program.
RecvError ==
  /\ Running /\ mpc = "recv"
  /\ \/ pipe_fds[mi] = NoFd
     \/ /\ pipe_fds[mi] # NoFd
        /\ inbox[pipe_fds[mi]] = 0 /\ client[pipe_fds[mi]] = "reset"
  /\ status' = "exited"
  /\ UNCHANGED <<pipes, main, sender, clients>>

MainRemove ==
  /\ Running /\ mpc = "remove" /\ pipe_slot < MaxListeners
  /\ PipeRemove(pipe_fds[mi])
  /\ mpc' = "scan" /\ mi' = mi + 1
  /\ UNCHANGED <<mset, sender, clients, status>>

-----------------------------------------------------------------------------
\* send_event_to_pipes and its copy send_event_to_pipes_simple

\* select reports some of the descriptors as writable.
SendStart ==
  /\ Running /\ Sending /\ spc = "idle"
  /\ sset' \in SUBSET {fd \in pipeset : fd <= fd_max}
  /\ sset' # {}
  /\ spc' = "scan" /\ si' = 0 /\ got' = {}
  /\ UNCHANGED <<pipes, main, clients, status>>

\* Mutant: the loop ends one slot too early.
SendScanShort ==
  /\ Running /\ spc = "scan" /\ ~ScanOverruns(si)
  /\ \/ /\ si >= pipe_slot - 1
        /\ spc' = "idle" /\ sset' = {} /\ got' = {} /\ si' = 0
     \/ /\ si < pipe_slot - 1
        /\ pipe_fds[si] \in sset
        /\ spc' = "send" /\ UNCHANGED <<si, sset, got>>
     \/ /\ si < pipe_slot - 1
        /\ pipe_fds[si] \notin sset
        /\ si' = si + 1 /\ UNCHANGED <<spc, sset, got>>
  /\ UNCHANGED <<pipes, main, clients, status>>

SendScan ==
  /\ Running /\ spc = "scan" /\ ~ScanOverruns(si)
  /\ \/ /\ si > pipe_slot
        /\ spc' = "idle" /\ sset' = {} /\ got' = {} /\ si' = 0
     \/ /\ si <= pipe_slot
        /\ pipe_fds[si] \in sset
        /\ spc' = "send" /\ UNCHANGED <<si, sset, got>>
     \/ /\ si <= pipe_slot
        /\ pipe_fds[si] \notin sset
        /\ si' = si + 1 /\ UNCHANGED <<spc, sset, got>>
  /\ UNCHANGED <<pipes, main, clients, status>>

SendEvent ==
  /\ Running /\ spc = "send"
  /\ \/ /\ pipe_fds[si] # NoFd /\ client[pipe_fds[si]] = "open"
        /\ unread' = unread \cup {pipe_fds[si]}
        /\ got' = got \cup {pipe_fds[si]}
        /\ spc' = "scan" /\ si' = si + 1
     \/ /\ \/ pipe_fds[si] = NoFd
           \/ pipe_fds[si] # NoFd /\ client[pipe_fds[si]] # "open"
        /\ spc' = "remove"
        /\ UNCHANGED <<unread, got, si>>
  /\ UNCHANGED <<pipes, main, sset, client, inbox, events, status>>

SendRemove ==
  /\ Running /\ spc = "remove" /\ pipe_slot < MaxListeners
  /\ PipeRemove(pipe_fds[si])
  /\ spc' = "scan" /\ si' = si + 1
  /\ UNCHANGED <<main, sset, got, clients, status>>

-----------------------------------------------------------------------------
\* A loop leaves the array; so does pipe_add with every slot used once.

Overrun ==
  /\ Running
  /\ \/ mpc = "scan" /\ ScanOverruns(mi)
     \/ spc = "scan" /\ ScanOverruns(si)
     \/ mpc = "remove" /\ pipe_slot >= MaxListeners
     \/ spc = "remove" /\ pipe_slot >= MaxListeners
     \/ mpc = "accept" /\ NewFds # {} /\ pipe_slot >= MaxListeners
  /\ status' = "overrun"
  /\ UNCHANGED <<pipes, main, sender, clients>>

-----------------------------------------------------------------------------
\* The user interfaces

ClientEvent(fd) ==
  /\ Running /\ client[fd] = "open" /\ events[fd] < MaxEvents
  /\ inbox' = [inbox EXCEPT ![fd] = @ + 1]
  /\ events' = [events EXCEPT ![fd] = @ + 1]
  /\ UNCHANGED <<pipes, main, sender, client, unread, status>>

ClientRead(fd) ==
  /\ Running /\ client[fd] = "open" /\ fd \in unread
  /\ unread' = unread \ {fd}
  /\ UNCHANGED <<pipes, main, sender, client, inbox, events, status>>

\* Closing a unix socket with unread data resets the connection.
ClientClose(fd) ==
  /\ Running /\ Closing /\ client[fd] = "open"
  /\ client' = [client EXCEPT ![fd] = IF fd \in unread THEN "reset" ELSE "eof"]
  /\ UNCHANGED <<pipes, main, sender, inbox, events, unread, status>>

MainStep == \/ Accept \/ AcceptNone \/ Poll \/ MainScan
            \/ RecvEvent \/ RecvEof \/ RecvError \/ MainRemove
SendStep == SendScan \/ SendEvent \/ SendRemove

Next == \/ MainStep \/ SendStart \/ SendStep \/ Overrun
        \/ \E fd \in Fds : ClientEvent(fd) \/ ClientRead(fd) \/ ClientClose(fd)

Spec == Init /\ [][Next]_vars

\* The main loop never waits for anything for long; a send may be long in coming.
FairSpec == Spec /\ WF_vars(MainStep) /\ WF_vars(SendStep)

-----------------------------------------------------------------------------

\* The descriptors select is asked about are those in the slots, each in one
\* slot, which the loops of the file, that end at pipe_slot, come to.
Consistent ==
  /\ Listening = pipeset
  /\ \A i, j \in Index : pipe_fds[i] = pipe_fds[j] /\ pipe_fds[i] # NoFd => i = j
  /\ \A i \in Index : pipe_fds[i] # NoFd => i < pipe_slot

\* The other thread has cleared the slot whose descriptor is to be removed.
RemovesNothing == \/ mpc = "remove" /\ pipe_fds[mi] = NoFd
                  \/ spc = "remove" /\ pipe_fds[si] = NoFd

(***************************************************************************)
(* The slots and the descriptor set stay consistent, whatever connects and  *)
(* goes away: no step breaks them but the removal, by one thread, of what   *)
(* the other has removed, which lowers pipe_slot although no slot is freed. *)
(***************************************************************************)
SlotsMatchSet == [][ (Consistent /\ ~RemovesNothing) => Consistent' ]_vars

(***************************************************************************)
(* An event sent to the interfaces has reached every one that select        *)
(* reported and that is still connected when the loop over them ends,       *)
(* whatever connects or is removed meanwhile.                               *)
(***************************************************************************)
BroadcastReaches ==
  [][ (spc = "scan" /\ spc' = "idle") => (sset \cap Listening) \subseteq got ]_vars

(***************************************************************************)
(* As long as no interface has gone away, every event one sends is received *)
(* by the core, although another thread uses the pipes at the same time.    *)
(***************************************************************************)
EventsReceived ==
  \A fd \in Fds : inbox[fd] > 0 ~> \/ inbox[fd] = 0 \/ status # "ok"
                                   \/ \E c \in Fds : client[c] \in {"eof", "reset"}

(***************************************************************************)
(* Several user interfaces can use the core: select is asked about every    *)
(* connected one.                                                           *)
(***************************************************************************)
NobodyDeaf == \A fd \in Listening : fd <= fd_max

(***************************************************************************)
(* With every slot in use a further listener is refused with a message; no  *)
(* access leaves the array.                                                 *)
(***************************************************************************)
StaysInSlots == status # "overrun"

(***************************************************************************)
(* A user interface that disconnects does not end the core.                 *)
(***************************************************************************)
SurvivesDisconnect == status # "exited"
=============================================================================

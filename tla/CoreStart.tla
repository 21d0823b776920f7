------------------------------ MODULE CoreStart ------------------------------
(***************************************************************************)
(* core_start: the setup phase, the start of the threads, the main loop and *)
(* the shutdown, all steered by the one variable run_threads, which SIGINT, *)
(* the Setup handler, the main thread and the other threads assign.  Of the *)
(* listeners of event.c those are modelled whose registration changes while *)
(* the core runs, and RequestFileTransfer, which stands for the events of   *)
(* peers that the core has listeners for.                                   *)
(***************************************************************************)
EXTENDS Integers, Sequences

CONSTANTS MaxAsks,        \* bound: events the user interfaces send
          MaxPeerEvents   \* bound: events peers send

ASSUME BoundsAssumption == MaxAsks \in Nat /\ MaxPeerEvents \in Nat

UITypes == {"Setup", "Status"}
Types == UITypes \cup {"GetPublicKey", "RequestFileTransfer"}

VARIABLES run,          \* run_threads
          mpc,          \* where the main thread is
          setupstatus,  \* the local variable handlestatus reports
          listeners,    \* event.c: how often the core listens to a type
          conn, read, try,  \* connection_thread, read_thread, try_connect_loop
          sem,          \* init_semaphore
          code,         \* how the process ended
          asks, asked,  \* events of the interfaces: not yet received, all
          taken,        \* how many Status events have been received
          replies,      \* the answers to them
          fresh,        \* external: core_init finds no configuration
          setups,       \* how often an account was set up
          connected,    \* whether a peer has a connection
          sent,         \* events peers have sent
          dropped,      \* whether one found no listener
          stop          \* history: somebody has asked the core to stop

threads == <<conn, read, try, sem>>
interfaces == <<asks, asked, taken, replies>>
account == <<fresh, setups>>
peers == <<connected, sent, dropped>>
vars == <<run, mpc, setupstatus, listeners, conn, read, try, sem, code, asks,
          asked, taken, replies, fresh, setups, connected, sent, dropped, stop>>

TypeOK ==
  /\ run \in 0..2
  /\ mpc \in {"init", "setup", "handler", "saved", "left", "resume", "key",
              "create", "sync", "connect", "listen", "loop", "cancel", "join",
              "exited"}
  /\ setupstatus \in BOOLEAN
  /\ listeners \in [Types -> 0..2]
  /\ conn \in {"none", "start", "run", "left"}
  /\ read \in {"none", "start", "run", "left"}
  /\ try \in {"none", "run", "left"}
  /\ sem \in 0..2
  /\ code \in {"none", "ok", "failure"}
  /\ asks \in Seq(UITypes) /\ asked \in 0..MaxAsks /\ taken \in 0..MaxAsks
  /\ replies \in Seq(BOOLEAN)
  /\ fresh \in BOOLEAN /\ setups \in 0..MaxAsks
  /\ connected \in BOOLEAN /\ sent \in 0..MaxPeerEvents /\ dropped \in BOOLEAN
  /\ stop \in BOOLEAN

\* core_start has assigned run_threads.
Init ==
  /\ run = 1 /\ mpc = "init" /\ setupstatus = FALSE
  /\ listeners = [e \in Types |-> 0]
  /\ conn = "none" /\ read = "none" /\ try = "none" /\ sem = 0
  /\ code = "none"
  /\ asks = <<>> /\ asked = 0 /\ taken = 0 /\ replies = <<>>
  /\ fresh \in BOOLEAN /\ setups = 0
  /\ connected = FALSE /\ sent = 0 /\ dropped = FALSE
  /\ stop = FALSE

Running == code = "none"
MainAt(l) == Running /\ mpc = l
Goto(l) == mpc' = l /\ UNCHANGED code
Exit(c) == mpc' = "exited" /\ code' = c

AddListener(S) == listeners' = [e \in Types |-> listeners[e]
                                                + IF e \in S THEN 1 ELSE 0]
RemoveListener(t) ==
  listeners' = [listeners EXCEPT ![t] = IF @ > 0 THEN @ - 1 ELSE 0]

-----------------------------------------------------------------------------
\* core_start up to the threads

CoreInit ==
  /\ MainAt("init")
  /\ \/ Exit("failure") /\ UNCHANGED <<listeners, setupstatus>>
     \/ /\ fresh
        /\ AddListener({"Setup", "Status", "GetPublicKey"})
        /\ Goto("setup") /\ UNCHANGED setupstatus
     \/ /\ ~fresh
        /\ setupstatus' = TRUE
        /\ AddListener({"GetPublicKey"})
        /\ Goto("key")
  /\ UNCHANGED <<run, threads, interfaces, account, peers, stop>>

\* handlestatus, once for every time it is registered.
HandleStatus == [i \in 1..listeners["Status"] |-> setupstatus]

(***************************************************************************)
(* One pass of poll_event_from_pipes: an event is received and given to the *)
(* listeners of its type.                                                   *)
(***************************************************************************)
Poll ==
  /\ \/ MainAt("setup") /\ run = 1
     \/ MainAt("loop") /\ run # 0
  /\ asks # <<>>
  /\ LET e == Head(asks)
     IN  /\ asks' = Tail(asks)
         /\ taken' = IF e = "Status" THEN taken + 1 ELSE taken
         /\ replies' = IF e = "Status" THEN replies \o HandleStatus ELSE replies
         /\ IF e = "Setup" /\ listeners[e] > 0 THEN Goto("handler")
            ELSE UNCHANGED <<mpc, code>>
  /\ UNCHANGED <<run, setupstatus, listeners, threads, asked, account, peers,
                 stop>>

\* handlesetup is called by the loop of the setup phase, or by the main loop.
Caller == IF conn = "none" THEN "setup" ELSE "loop"

HandleSetup ==
  /\ MainAt("handler")
  /\ \/ Goto(Caller) /\ UNCHANGED setups      \* invalid, or not saved
     \/ Goto("saved") /\ setups' = setups + 1
  /\ UNCHANGED <<run, setupstatus, listeners, threads, interfaces, fresh, peers,
                 stop>>

SetupReady ==
  /\ MainAt("saved")
  /\ run' = 2
  /\ Goto(Caller)
  /\ UNCHANGED <<setupstatus, listeners, threads, interfaces, account, peers,
                 stop>>

\* Mutant: the core goes on listening to Setup.
LeaveSetupListening ==
  /\ MainAt("setup") /\ run # 1
  /\ Goto("left")
  /\ UNCHANGED <<run, setupstatus, listeners, threads, interfaces, account,
                 peers, stop>>

LeaveSetup ==
  /\ MainAt("setup") /\ run # 1
  /\ RemoveListener("Setup")
  /\ Goto("left")
  /\ UNCHANGED <<run, setupstatus, threads, interfaces, account, peers, stop>>

StoppedInSetup ==
  /\ MainAt("left")
  /\ \/ run = 0 /\ Exit("ok")
     \/ run # 0 /\ Goto("resume")
  /\ UNCHANGED <<run, setupstatus, listeners, threads, interfaces, account,
                 peers, stop>>

\* Mutant of Resume: setupstatus is not set.
ResumeUnset ==
  /\ MainAt("resume")
  /\ run' = 1
  /\ RemoveListener("Status")
  /\ Goto("key")
  /\ UNCHANGED <<setupstatus, threads, interfaces, account, peers, stop>>

Resume ==
  /\ MainAt("resume")
  /\ run' = 1
  /\ RemoveListener("Status")
  /\ setupstatus' = TRUE
  /\ Goto("key")
  /\ UNCHANGED <<threads, interfaces, account, peers, stop>>

LoadKey ==
  /\ MainAt("key")
  /\ \/ Exit("failure")
     \/ Goto("create")
  /\ UNCHANGED <<run, setupstatus, listeners, threads, interfaces, account,
                 peers, stop>>

\* Mutant: run_threads is assigned again before the threads start.
CreateThreadsResets ==
  /\ MainAt("create")
  /\ run' = 1
  /\ conn' = "start" /\ read' = "start" /\ sem' = 0
  /\ Goto("sync")
  /\ UNCHANGED <<setupstatus, listeners, try, interfaces, account, peers, stop>>

CreateThreads ==
  /\ MainAt("create")
  /\ conn' = "start" /\ read' = "start" /\ sem' = 0
  /\ Goto("sync")
  /\ UNCHANGED <<run, setupstatus, listeners, try, interfaces, account, peers,
                 stop>>

\* sem_wait, twice.
WaitThreads ==
  /\ MainAt("sync") /\ sem = 2
  /\ sem' = 0
  /\ Goto("connect")
  /\ UNCHANGED <<run, setupstatus, listeners, conn, read, try, interfaces,
                 account, peers, stop>>

\* connect_to_peers stops the core when a configured port is invalid.
ConnectToPeers ==
  \/ run' = 0 /\ stop' = TRUE /\ UNCHANGED connected
  \/ connected' \in {connected, TRUE} /\ UNCHANGED <<run, stop>>

FirstConnect ==
  /\ MainAt("connect")
  /\ ConnectToPeers
  /\ try' = "run"
  /\ Goto("listen")
  /\ UNCHANGED <<setupstatus, listeners, conn, read, sem, interfaces, account,
                 sent, dropped>>

Listen ==
  /\ MainAt("listen")
  /\ AddListener({"Status", "RequestFileTransfer"})
  /\ Goto("loop")
  /\ UNCHANGED <<run, setupstatus, threads, interfaces, account, peers, stop>>

-----------------------------------------------------------------------------
\* The shutdown

LeaveLoop ==
  /\ MainAt("loop") /\ run = 0
  /\ Goto("cancel")
  /\ UNCHANGED <<run, setupstatus, listeners, threads, interfaces, account,
                 peers, stop>>

CancelTry ==
  /\ MainAt("cancel")
  /\ try' = "left"
  /\ Goto("join")
  /\ UNCHANGED <<run, setupstatus, listeners, conn, read, sem, interfaces,
                 account, peers, stop>>

JoinThreads ==
  /\ MainAt("join") /\ conn = "left" /\ read = "left"
  /\ Exit("ok")
  /\ UNCHANGED <<run, setupstatus, listeners, threads, interfaces, account,
                 peers, stop>>

-----------------------------------------------------------------------------
\* The threads

\* Mutant of ConnBind: an invalid port ends the thread before sem_post.
ConnBindReturns ==
  /\ Running /\ conn = "start"
  /\ \/ conn' = "run" /\ sem' = sem + 1 /\ UNCHANGED <<run, stop, mpc, code>>
     \/ /\ conn' = "left" /\ run' = 0 /\ stop' = TRUE
        /\ UNCHANGED <<sem, mpc, code>>
     \/ Exit("failure") /\ UNCHANGED <<conn, sem, run, stop>>
  /\ UNCHANGED <<setupstatus, listeners, read, try, interfaces, account, peers>>

\* connection_thread posts the semaphore after an invalid port, too.
ConnBind ==
  /\ Running /\ conn = "start"
  /\ \/ /\ conn' = "run" /\ sem' = sem + 1
        /\ \/ UNCHANGED <<run, stop>>
           \/ run' = 0 /\ stop' = TRUE
        /\ UNCHANGED <<mpc, code>>
     \/ Exit("failure") /\ UNCHANGED <<conn, sem, run, stop>>
  /\ UNCHANGED <<setupstatus, listeners, read, try, interfaces, account, peers>>

ConnAccept ==
  /\ Running /\ conn = "run" /\ run # 0
  /\ \/ connected' = TRUE /\ UNCHANGED <<conn, run, stop, mpc, code>>
     \/ /\ conn' = "left" /\ run' = 0 /\ stop' = TRUE   \* getnameinfo fails
        /\ UNCHANGED <<connected, mpc, code>>
     \/ Exit("failure") /\ UNCHANGED <<connected, conn, run, stop>>
  /\ UNCHANGED <<setupstatus, listeners, read, try, sem, interfaces, account,
                 sent, dropped>>

ConnLeave ==
  /\ Running /\ conn = "run" /\ run = 0
  /\ conn' = "left"
  /\ UNCHANGED <<run, mpc, setupstatus, listeners, read, try, sem, code,
                 interfaces, account, peers, stop>>

ReadStart ==
  /\ Running /\ read = "start"
  /\ read' = "run" /\ sem' = sem + 1
  /\ UNCHANGED <<run, mpc, setupstatus, listeners, conn, try, code, interfaces,
                 account, peers, stop>>

\* event_run_callbacks does nothing for a type nobody listens to.
ReadEvent ==
  /\ Running /\ read = "run" /\ run # 0
  /\ connected /\ sent < MaxPeerEvents
  /\ sent' = sent + 1
  /\ dropped' = (dropped \/ listeners["RequestFileTransfer"] = 0)
  /\ UNCHANGED <<run, mpc, setupstatus, listeners, threads, code, interfaces,
                 account, connected, stop>>

ReadLeave ==
  /\ Running /\ read = "run" /\ run = 0
  /\ read' = "left"
  /\ UNCHANGED <<run, mpc, setupstatus, listeners, conn, try, sem, code,
                 interfaces, account, peers, stop>>

TryConnect ==
  /\ Running /\ try = "run"
  /\ ConnectToPeers
  /\ UNCHANGED <<mpc, setupstatus, listeners, threads, code, interfaces,
                 account, sent, dropped>>

TryLeave ==
  /\ Running /\ try = "run" /\ run = 0
  /\ try' = "left"
  /\ UNCHANGED <<run, mpc, setupstatus, listeners, conn, read, sem, code,
                 interfaces, account, peers, stop>>

-----------------------------------------------------------------------------
\* The user

Ask(t) ==
  /\ Running /\ mpc # "init" /\ asked < MaxAsks
  /\ asks' = Append(asks, t)
  /\ asked' = asked + 1
  /\ UNCHANGED <<run, mpc, setupstatus, listeners, threads, code, taken,
                 replies, account, peers, stop>>

\* core_stop, from the signal handler.
Sigint ==
  /\ Running
  /\ run' = 0
  /\ stop' = TRUE
  /\ UNCHANGED <<mpc, setupstatus, listeners, threads, code, interfaces,
                 account, peers>>

-----------------------------------------------------------------------------

MainStep == \/ CoreInit \/ Poll \/ HandleSetup \/ SetupReady \/ LeaveSetup
            \/ StoppedInSetup \/ Resume \/ LoadKey \/ CreateThreads
            \/ WaitThreads \/ FirstConnect \/ Listen
            \/ LeaveLoop \/ CancelTry \/ JoinThreads

ConnStep == ConnBind \/ ConnLeave
ReadStep == ReadStart \/ ReadLeave

Next == \/ MainStep \/ ConnStep \/ ReadStep
        \/ ConnAccept \/ ReadEvent \/ TryConnect \/ TryLeave
        \/ \E t \in UITypes : Ask(t)
        \/ Sigint

Spec == Init /\ [][Next]_vars

\* Threads are scheduled, and select waits a second at most.  Assumed: a frame
\* that has begun to arrive arrives (recv of its body has no timeout).
FairSpec == /\ Spec
            /\ WF_vars(MainStep) /\ WF_vars(ConnStep) /\ WF_vars(ReadStep)

-----------------------------------------------------------------------------

(***************************************************************************)
(* Every Status event is answered exactly once, before, during and after    *)
(* the change from the setup phase to the main loop ("Remove listener       *)
(* during setupstatus change"), and the answer says whether the core has    *)
(* an account at that moment.                                               *)
(***************************************************************************)
StatusTruthful ==
  [][ /\ Len(replies') - Len(replies) = taken' - taken
      /\ \A i \in (Len(replies) + 1)..Len(replies') :
           replies'[i] = (~fresh \/ setups > 0) ]_vars

(***************************************************************************)
(* An account is set up at most once: a second Setup event, queued behind   *)
(* the first, finds no listener, and a configured core never listens to it. *)
(***************************************************************************)
SetupOnce == setups <= IF fresh THEN 1 ELSE 0

(***************************************************************************)
(* Flags, threads and the semaphore stay in their ranges, and no event      *)
(* sets the account up a second time.                                       *)
(***************************************************************************)
SetupInv == TypeOK /\ SetupOnce

(***************************************************************************)
(* A core whose account has just been set up reaches its main loop or ends: *)
(* the semaphore that waits for the two threads is posted whatever they     *)
(* find.                                                                    *)
(***************************************************************************)
StartsUp == mpc = "saved" ~> mpc \in {"loop", "exited"}

\* The set-up is behind the main thread.
SetUp == mpc \in {"key", "create", "sync", "connect", "listen", "loop",
                  "cancel", "join"}

(***************************************************************************)
(* Once the core has got past its set-up, a stop that was asked for ends it *)
(* whichever of its threads are still starting: run_threads is not assigned *)
(* again, and no thread waits for one that has already left.                *)
(***************************************************************************)
StopsOnceSetUp == (SetUp /\ run = 0) ~> ~Running

(***************************************************************************)
(* When the core is asked to stop, it ends ("If core was exited during      *)
(* setup phase").                                                           *)
(***************************************************************************)
StopHonoured == stop ~> ~Running

(***************************************************************************)
(* An event of a type "that core will run listeners for" finds its          *)
(* listener.                                                                *)
(***************************************************************************)
NoEventDropped == ~dropped
=============================================================================

-------------------------- MODULE CoreStart_proofs --------------------------
(***************************************************************************)
(* What holds of the start of the core for any number of events of the user *)
(* interfaces and of the peers.  Every answer about the set-up depends on   *)
(* which listeners are registered while the main thread is at a place and   *)
(* on what run_threads and setupstatus can be there: the inductive          *)
(* invariant says it place by place.                                        *)
(***************************************************************************)
EXTENDS CoreStart, SequenceTheorems, TLAPS

\* The places of the set-up, and those before the threads exist.
InSetup == {"setup", "handler", "saved"}
Configured == {"key", "create", "sync", "connect", "listen", "loop", "cancel",
               "join"}
NoThreads == {"init", "left", "resume", "key", "create"} \cup InSetup

\* The types the core listens to at a place of the main thread.
Listened ==
  IF mpc = "init" THEN {}
  ELSE IF mpc \in InSetup THEN {"Setup", "Status", "GetPublicKey"}
  ELSE IF mpc \in {"left", "resume"} THEN {"Status", "GetPublicKey"}
  ELSE IF mpc \in {"key", "create", "sync", "connect", "listen"}
  THEN {"GetPublicKey"}
  ELSE {"Status", "GetPublicKey", "RequestFileTransfer"}

\* Each of them is registered once.
ListenedOnce ==
  mpc # "exited" =>
    listeners = [e \in Types |-> IF e \in Listened THEN 1 ELSE 0]

\* An account is set up in the set-up phase, which only a core without a
\* configuration enters; the flag that ends the phase is raised with it, and
\* setupstatus when the phase is over.
SetupPhase ==
  /\ setups \in {0, 1} /\ (setups = 1 => fresh)
  /\ mpc \in InSetup \cup {"left", "resume"} => fresh
  /\ mpc \in {"init", "handler"} => setups = 0 /\ run # 2
  /\ mpc = "setup" => (run = 1 => setups = 0) /\ (run = 2 => setups = 1)
  /\ mpc = "saved" => setups = 1
  /\ mpc = "left" => run = 0 \/ setups = 1
  /\ mpc = "resume" => setups = 1
  /\ mpc \in Configured => (fresh => setups = 1)
  /\ mpc \in Configured => setupstatus = TRUE
  /\ mpc \notin Configured \cup {"exited"} => setupstatus = FALSE

\* Every event received was sent, and so was the one that set the account up.
EventsCounted ==
  /\ taken + Len(asks) <= asked
  /\ mpc \in {"handler", "saved"} \/ setups = 1 => asked > 0

\* The semaphore counts the threads that have posted it and that the main
\* thread has not waited for.
SemaphoreCounts ==
  /\ mpc = "exited" <=> code # "none"
  /\ mpc \in NoThreads => conn = "none" /\ read = "none" /\ sem = 0
  /\ mpc = "sync" =>
       /\ conn # "none" /\ read # "none"
       /\ sem = (IF conn = "start" THEN 0 ELSE 1)
                + (IF read = "start" THEN 0 ELSE 1)
  /\ mpc \in {"connect", "listen", "loop", "cancel", "join"} =>
       {conn, read} \cap {"none", "start"} = {} /\ sem = 0

\* The inductive invariant.
StartInv == TypeOK /\ ListenedOnce /\ SetupPhase /\ EventsCounted
            /\ SemaphoreCounts

-----------------------------------------------------------------------------
\* Facts about the listeners and the answers

\* The listeners of a place are those of ListenedOnce, none more than once.
LEMMA ListenersTyped ==
  ASSUME NEW S
  PROVE  [e \in Types |-> IF e \in S THEN 1 ELSE 0] \in [Types -> 0..2]
OBVIOUS

\* Registering what is not listened to, and no longer listening to a type that
\* is registered once, leaves every type registered at most once.
LEMMA AddedListeners ==
  ASSUME NEW S, NEW T, S \cap T = {}, AddListener(T),
         listeners = [e \in Types |-> IF e \in S THEN 1 ELSE 0]
  PROVE  listeners' = [e \in Types |-> IF e \in S \cup T THEN 1 ELSE 0]
BY DEF AddListener

\* And without the one that is removed.
LEMMA RemovedListener ==
  ASSUME NEW S, NEW t \in Types, t \in S, RemoveListener(t),
         listeners = [e \in Types |-> IF e \in S THEN 1 ELSE 0]
  PROVE  listeners' = [e \in Types |-> IF e \in S \ {t} THEN 1 ELSE 0]
BY DEF RemoveListener

\* What the interfaces may do leaves the counts alone.
LEMMA AsksParts ==
  ASSUME StartInv
  PROVE  /\ Len(asks) \in Nat /\ asked \in Nat /\ taken \in Nat
         /\ asks # <<>> => /\ Head(asks) \in UITypes
                           /\ Tail(asks) \in Seq(UITypes)
                           /\ Len(Tail(asks)) = Len(asks) - 1
                           /\ Len(asks) > 0
<1>1. asks \in Seq(UITypes) /\ asked \in 0..MaxAsks /\ taken \in 0..MaxAsks
  BY DEF StartInv, TypeOK
<1>2. Len(asks) \in Nat /\ (asks # <<>> => Len(asks) \in Nat \ {0})
  BY <1>1, EmptySeq, LenProperties
<1>3. QED
  BY <1>1, <1>2, HeadTailProperties, BoundsAssumption

\* A Status event is received while the core listens to it once, so the answer
\* is one, and it is what setupstatus is.
LEMMA OneAnswer ==
  ASSUME StartInv, Poll
  PROVE  /\ HandleStatus = <<setupstatus>>
         /\ HandleStatus \in Seq(BOOLEAN)
<1>1. mpc \in {"setup", "loop"}
  BY DEF Poll, MainAt
<1>2. listeners["Status"] = 1
  BY <1>1 DEF StartInv, ListenedOnce, Listened, InSetup, Types, UITypes
<1>3. HandleStatus = <<setupstatus>>
  BY <1>2 DEF HandleStatus
<1>4. setupstatus \in BOOLEAN
  BY DEF StartInv, TypeOK
<1>5. QED
  BY <1>3, <1>4

-----------------------------------------------------------------------------
\* Each action preserves the invariant.

\* core_start has been called.
LEMMA StartInit == Init => StartInv
<1> SUFFICES ASSUME Init PROVE StartInv
  OBVIOUS
<1>1. TypeOK
  <2>1. <<>> \in Seq(UITypes) /\ <<>> \in Seq(BOOLEAN)
    BY EmptySeq
  <2>2. 0 \in 0..MaxAsks /\ 0 \in 0..MaxPeerEvents
    BY BoundsAssumption
  <2>3. fresh \in BOOLEAN
    BY DEF Init
  <2>4. /\ setupstatus \in BOOLEAN /\ connected \in BOOLEAN
        /\ dropped \in BOOLEAN /\ stop \in BOOLEAN
    BY DEF Init
  <2>5. listeners \in [Types -> 0..2]
    BY DEF Init
  <2>6. QED
    BY <2>1, <2>2, <2>3, <2>4, <2>5 DEF Init, TypeOK
<1>2. ListenedOnce
  BY DEF Init, ListenedOnce, Listened
<1>3. SetupPhase
  BY DEF Init, SetupPhase, InSetup, Configured
<1>4. EventsCounted /\ SemaphoreCounts
  BY BoundsAssumption, EmptySeq
     DEF Init, EventsCounted, SemaphoreCounts, NoThreads, InSetup
<1>5. QED
  BY <1>1, <1>2, <1>3, <1>4 DEF StartInv

\* core_init finds a configuration, finds none or fails.
LEMMA CoreInitInv ==
  ASSUME StartInv, CoreInit
  PROVE  StartInv'
<1> USE DEF MainAt, Running, Goto, Exit, threads, interfaces, account, peers
<1>1. mpc = "init" /\ listeners = [e \in Types |-> IF e \in {} THEN 1 ELSE 0]
  BY DEF CoreInit, StartInv, ListenedOnce, Listened
<1>2. ListenedOnce'
  <2>1. ASSUME NEW T, AddListener(T)
        PROVE  listeners' = [e \in Types |-> IF e \in T THEN 1 ELSE 0]
    <3>1. listeners = [e \in Types |-> 0]
      BY <1>1
    <3>2. QED
      BY <2>1, <3>1 DEF AddListener
  <2>2. QED
    BY <2>1 DEF CoreInit, ListenedOnce, Listened, InSetup
<1>3. TypeOK'
  <2>1. listeners' \in [Types -> 0..2]
    BY <1>1, ListenersTyped DEF CoreInit, StartInv, TypeOK, AddListener
  <2>2. QED
    BY ZenonT(40), <2>1 DEF CoreInit, StartInv, TypeOK
<1>4. SetupPhase'
  <2>1. /\ setups = 0 /\ setups' = 0 /\ fresh' = fresh /\ run' = run
        /\ setupstatus = FALSE
    BY <1>1 DEF CoreInit, StartInv, SetupPhase, Configured
  <2>2. \/ mpc' = "exited"
        \/ mpc' = "setup" /\ fresh /\ setupstatus' = FALSE
        \/ mpc' = "key" /\ ~fresh /\ setupstatus' = TRUE
    BY <2>1 DEF CoreInit
  <2>3. run # 2
    BY <1>1 DEF StartInv, SetupPhase
  <2>4. QED
    BY <2>1, <2>2, <2>3 DEF SetupPhase, InSetup, Configured
<1>5. EventsCounted'
  BY DEF CoreInit, StartInv, EventsCounted, SetupPhase
<1>6. SemaphoreCounts'
  BY DEF CoreInit, StartInv, SemaphoreCounts, NoThreads, InSetup
<1>7. QED
  BY <1>2, <1>3, <1>4, <1>5, <1>6 DEF StartInv

\* An event of an interface is received: a Setup event in the set-up phase
\* runs its handler, a Status event is answered.
LEMMA PollInv ==
  ASSUME StartInv, Poll
  PROVE  StartInv'
<1> USE DEF MainAt, Running, Goto, threads, account, peers
<1>1. /\ mpc \in {"setup", "loop"} /\ asks # <<>>
      /\ mpc = "setup" => run = 1
  BY DEF Poll
<1>2. listeners = [e \in Types |-> IF e \in Listened THEN 1 ELSE 0]
  BY <1>1 DEF StartInv, ListenedOnce
<1>3. \/ mpc' = mpc
      \/ mpc = "setup" /\ mpc' = "handler"
  <2>1. mpc = "loop" => listeners["Setup"] = 0
    BY <1>2 DEF Listened, InSetup, Types, UITypes
  <2>2. \/ mpc' = mpc
        \/ /\ Head(asks) = "Setup" /\ listeners[Head(asks)] > 0
           /\ mpc' = "handler"
    BY DEF Poll
  <2>3. mpc = "setup" \/ mpc' = mpc
    BY <1>1, <2>1, <2>2
  <2>4. QED
    BY <2>2, <2>3
<1>4. /\ asks' = Tail(asks) /\ asked' = asked
      /\ taken' \in {taken, taken + 1}
      /\ asks' \in Seq(UITypes) /\ Len(asks') = Len(asks) - 1
  BY <1>1, AsksParts DEF Poll
<1>5. replies' \in Seq(BOOLEAN)
  <2>1. replies \in Seq(BOOLEAN)
    BY DEF StartInv, TypeOK
  <2>2. replies' \in {replies, replies \o HandleStatus}
    BY DEF Poll
  <2>3. QED
    BY <2>1, <2>2, OneAnswer, ConcatProperties
<1>6. EventsCounted' /\ taken' \in 0..MaxAsks
  <2>1. taken + Len(asks) <= asked /\ asked <= MaxAsks /\ Len(asks) > 0
    BY <1>1, AsksParts, BoundsAssumption DEF StartInv, EventsCounted, TypeOK
  <2>2. taken' + Len(asks') <= asked' /\ asked' > 0 /\ taken' \in 0..MaxAsks
    BY <1>4, <2>1, AsksParts, BoundsAssumption
  <2>3. QED
    BY <2>2 DEF EventsCounted
<1>7. TypeOK'
  BY <1>3, <1>4, <1>5, <1>6 DEF Poll, StartInv, TypeOK
<1>8. ListenedOnce'
  <2>1. Listened' = Listened
    BY <1>1, <1>3 DEF Listened, InSetup
  <2>2. QED
    BY <1>2, <2>1 DEF Poll, ListenedOnce
<1>9. SetupPhase'
  BY <1>1, <1>3 DEF Poll, StartInv, SetupPhase, InSetup, Configured
<1>10. SemaphoreCounts'
  BY <1>1, <1>3 DEF Poll, StartInv, SemaphoreCounts, NoThreads, InSetup
<1>11. QED
  BY <1>6, <1>7, <1>8, <1>9, <1>10 DEF StartInv

\* The Setup handler, which only the loop of the set-up phase calls.
LEMMA HandlerInv ==
  ASSUME StartInv, HandleSetup \/ SetupReady
  PROVE  StartInv'
<1> USE DEF MainAt, Running, Goto, threads, interfaces, account, peers
<1>1. /\ mpc \in {"handler", "saved"}
      /\ conn = "none" /\ Caller = "setup"
  BY DEF HandleSetup, SetupReady, StartInv, SemaphoreCounts, NoThreads, InSetup,
         Caller
<1>2. \/ mpc = "handler" /\ mpc' = "setup" /\ setups' = setups /\ run' = run
      \/ mpc = "handler" /\ mpc' = "saved" /\ setups' = setups + 1 /\ run' = run
      \/ mpc = "saved" /\ mpc' = "setup" /\ setups' = setups /\ run' = 2
  BY <1>1 DEF HandleSetup, SetupReady
<1>3. UNCHANGED <<setupstatus, listeners, threads, interfaces, fresh, peers,
                  stop, code>>
  BY DEF HandleSetup, SetupReady
<1>4. asked \in Nat /\ asked > 0 /\ asked <= MaxAsks
  BY <1>1, AsksParts, BoundsAssumption DEF StartInv, EventsCounted, TypeOK
<1>5. SetupPhase'
  <2>1. setups = IF mpc = "handler" THEN 0 ELSE 1
    BY <1>1 DEF StartInv, SetupPhase
  <2>2. fresh /\ setupstatus = FALSE
    BY <1>1 DEF StartInv, SetupPhase, InSetup, Configured
  <2>3. mpc = "handler" => run # 2
    BY DEF StartInv, SetupPhase
  <2>4. QED
    BY <1>2, <1>3, <2>1, <2>2, <2>3 DEF SetupPhase, InSetup, Configured
<1>6. TypeOK'
  <2>1. setups' \in 0..MaxAsks
    BY <1>4, <1>5, BoundsAssumption DEF SetupPhase
  <2>2. QED
    BY <1>2, <1>3, <2>1 DEF StartInv, TypeOK
<1>7. ListenedOnce'
  BY <1>1, <1>2, <1>3 DEF StartInv, ListenedOnce, Listened, InSetup
<1>8. EventsCounted'
  BY <1>3, <1>4 DEF StartInv, EventsCounted
<1>9. SemaphoreCounts'
  BY <1>1, <1>2, <1>3 DEF StartInv, SemaphoreCounts, NoThreads, InSetup
<1>10. QED
  BY <1>5, <1>6, <1>7, <1>8, <1>9 DEF StartInv

\* The set-up phase ends: the core listens to Setup no longer, then to Status.
LEMMA LeaveSetupInv ==
  ASSUME StartInv, LeaveSetup \/ StoppedInSetup \/ Resume
  PROVE  StartInv'
<1> USE DEF MainAt, Running, Goto, Exit, threads, interfaces, account, peers
<1>1. /\ mpc \in {"setup", "left", "resume"}
      /\ listeners = [e \in Types |-> IF e \in Listened THEN 1 ELSE 0]
  BY DEF LeaveSetup, StoppedInSetup, Resume, StartInv, ListenedOnce
<1>2. UNCHANGED <<conn, read, try, sem, asks, asked, taken, replies, fresh,
                  setups, connected, sent, dropped, stop>>
  BY DEF LeaveSetup, StoppedInSetup, Resume
<1>3. \/ mpc = "setup" /\ run # 1 /\ mpc' = "left"
      \/ mpc = "left" /\ run # 0 /\ mpc' = "resume"
      \/ mpc = "left" /\ mpc' = "exited"
      \/ mpc = "resume" /\ mpc' = "key"
  BY DEF LeaveSetup, StoppedInSetup, Resume
<1>4. code' = IF mpc' = "exited" THEN "ok" ELSE code
  BY DEF LeaveSetup, StoppedInSetup, Resume
<1>5. ListenedOnce'
  <2>1. CASE LeaveSetup
    <3>1. mpc = "setup" /\ mpc' = "left" /\ RemoveListener("Setup")
      BY <2>1 DEF LeaveSetup
    <3>2. "Setup" \in Types /\ "Setup" \in Listened
          /\ Listened' = Listened \ {"Setup"}
      BY <3>1 DEF Listened, InSetup, Types, UITypes
    <3>3. listeners' = [e \in Types |-> IF e \in Listened' THEN 1 ELSE 0]
      BY <1>1, <3>1, <3>2, RemovedListener
    <3>4. QED
      BY <3>3 DEF ListenedOnce
  <2>2. CASE StoppedInSetup
    BY <1>1, <2>2 DEF StoppedInSetup, ListenedOnce, Listened, InSetup
  <2>3. CASE Resume
    <3>1. mpc = "resume" /\ mpc' = "key" /\ RemoveListener("Status")
      BY <2>3 DEF Resume
    <3>2. "Status" \in Types /\ "Status" \in Listened
          /\ Listened' = Listened \ {"Status"}
      BY <3>1 DEF Listened, InSetup, Types, UITypes
    <3>3. listeners' = [e \in Types |-> IF e \in Listened' THEN 1 ELSE 0]
      BY <1>1, <3>1, <3>2, RemovedListener
    <3>4. QED
      BY <3>3 DEF ListenedOnce
  <2>4. QED
    BY <2>1, <2>2, <2>3
<1>6. TypeOK'
  <2>1. listeners' \in [Types -> 0..2]
    BY <1>1, ListenersTyped
       DEF LeaveSetup, StoppedInSetup, Resume, RemoveListener, StartInv, TypeOK
  <2>2. run' \in 0..2
    BY DEF LeaveSetup, StoppedInSetup, Resume, StartInv, TypeOK
  <2>3. setupstatus' = setupstatus \/ setupstatus' = TRUE
    BY DEF LeaveSetup, StoppedInSetup, Resume
  <2>4. setupstatus' \in BOOLEAN
    BY <2>3 DEF StartInv, TypeOK
  <2>5. QED
    BY <1>2, <1>3, <1>4, <2>1, <2>2, <2>4 DEF StartInv, TypeOK
<1>7. SetupPhase'
  <2>1. fresh /\ setups \in {0, 1} /\ setupstatus = FALSE
    BY <1>1 DEF StartInv, SetupPhase, InSetup, Configured
  <2>2. CASE LeaveSetup
    <3>1. run = 0 \/ setups = 1
      BY <2>2 DEF LeaveSetup, StartInv, SetupPhase, TypeOK
    <3>2. QED
      BY <1>2, <2>1, <2>2, <3>1
         DEF LeaveSetup, SetupPhase, InSetup, Configured
  <2>3. CASE StoppedInSetup
    BY <1>2, <2>1, <2>3
       DEF StoppedInSetup, StartInv, SetupPhase, InSetup, Configured
  <2>4. CASE Resume
    <3>1. setups = 1 /\ setupstatus' = TRUE /\ mpc' = "key"
      BY <2>4 DEF Resume, StartInv, SetupPhase
    <3>2. QED
      BY <1>2, <2>1, <3>1 DEF SetupPhase, InSetup, Configured
  <2>5. QED
    BY <2>2, <2>3, <2>4
<1>8. EventsCounted'
  BY <1>2, <1>3 DEF StartInv, EventsCounted
<1>9. SemaphoreCounts'
  BY <1>1, <1>2, <1>3, <1>4
     DEF StartInv, SemaphoreCounts, NoThreads, InSetup
<1>10. QED
  BY <1>5, <1>6, <1>7, <1>8, <1>9 DEF StartInv

\* The rest of the start and the shutdown.  Only Listen changes the listeners.
LEMMA MainInv ==
  ASSUME StartInv,
         \/ LoadKey \/ CreateThreads \/ WaitThreads \/ FirstConnect \/ Listen
         \/ LeaveLoop \/ CancelTry \/ JoinThreads
  PROVE  StartInv'
<1> USE DEF MainAt, Running, Goto, Exit, threads, interfaces, account, peers,
            LoadKey, CreateThreads, WaitThreads, FirstConnect, Listen, LeaveLoop,
            CancelTry, JoinThreads
<1>1. /\ mpc \in Configured /\ mpc' \in Configured \cup {"exited"}
      /\ listeners = [e \in Types |-> IF e \in Listened THEN 1 ELSE 0]
  BY DEF Configured, StartInv, ListenedOnce
<1>2. UNCHANGED <<setupstatus, asks, asked, taken, replies, fresh, setups, sent,
                  dropped>>
  OBVIOUS
<1>3. run' \in {run, 0} /\ stop' \in {stop, TRUE}
      /\ connected' \in {connected, TRUE}
  BY DEF ConnectToPeers
<1>4. /\ mpc' = "exited" => code' \in {"ok", "failure"}
      /\ mpc' # "exited" => code' = code
  BY <1>1 DEF Configured
<1>5. ListenedOnce'
  <2>1. CASE Listen
    <3> DEFINE T == {"Status", "RequestFileTransfer"}
    <3>1. mpc = "listen" /\ mpc' = "loop" /\ AddListener(T)
      BY <2>1
    <3>2. Listened \cap T = {} /\ Listened' = Listened \cup T
      BY <3>1 DEF Listened, InSetup
    <3>3. listeners' = [e \in Types |-> IF e \in Listened' THEN 1 ELSE 0]
      BY <1>1, <3>1, <3>2, AddedListeners
    <3>4. QED
      BY <3>3 DEF ListenedOnce
  <2>2. CASE ~Listen
    <3>1. listeners' = listeners
      BY <2>2
    <3>2. mpc' # "exited" => Listened' = Listened
      BY <2>2 DEF Listened, InSetup
    <3>3. QED
      BY <1>1, <3>1, <3>2 DEF ListenedOnce
  <2>3. QED
    BY <2>1, <2>2
<1>6. TypeOK'
  <2>1. listeners' \in [Types -> 0..2]
    <3>1. listeners' = listeners \/ Listen
      OBVIOUS
    <3>2. CASE Listen
      BY <1>5, <3>2, ListenersTyped DEF ListenedOnce
    <3>3. QED
      BY <3>1, <3>2 DEF StartInv, TypeOK
  <2>2. /\ conn' \in {"none", "start", "run", "left"}
        /\ read' \in {"none", "start", "run", "left"}
        /\ try' \in {"none", "run", "left"}
        /\ sem' \in 0..2
    BY DEF StartInv, TypeOK
  <2>3. connected' \in BOOLEAN /\ stop' \in BOOLEAN
    BY <1>3 DEF StartInv, TypeOK
  <2>4. run' \in 0..2 /\ code' \in {"none", "ok", "failure"}
    BY <1>1, <1>3, <1>4 DEF StartInv, TypeOK
  <2>5. QED
    BY <1>1, <1>2, <2>1, <2>2, <2>3, <2>4 DEF StartInv, TypeOK, Configured
<1>7. SetupPhase'
  BY <1>1, <1>2 DEF StartInv, SetupPhase, InSetup, Configured
<1>8. EventsCounted'
  BY <1>1, <1>2 DEF StartInv, EventsCounted, Configured
<1>9. SemaphoreCounts'
  <2>1. mpc' = "exited" <=> code' # "none"
    BY <1>1, <1>4 DEF StartInv, SemaphoreCounts, Configured
  <2>2. CASE LoadKey
    BY <2>1, <2>2 DEF StartInv, SemaphoreCounts, NoThreads, InSetup
  <2>3. CASE CreateThreads
    BY <2>1, <2>3 DEF StartInv, SemaphoreCounts, NoThreads, InSetup
  <2>4. CASE WaitThreads
    <3>1. conn \notin {"none", "start"} /\ read \notin {"none", "start"}
      BY <2>4 DEF StartInv, SemaphoreCounts
    <3>2. QED
      BY <2>1, <2>4, <3>1 DEF SemaphoreCounts, NoThreads, InSetup
  <2>5. CASE FirstConnect \/ Listen \/ LeaveLoop \/ CancelTry \/ JoinThreads
    <3>1. mpc \in {"connect", "listen", "loop", "cancel", "join"}
          /\ mpc' \in {"connect", "listen", "loop", "cancel", "join", "exited"}
      BY <2>5
    <3>2. UNCHANGED <<conn, read, sem>>
      BY <2>5
    <3>3. QED
      BY <2>1, <3>1, <3>2 DEF StartInv, SemaphoreCounts, NoThreads, InSetup
  <2>6. QED
    BY <2>2, <2>3, <2>4, <2>5
<1>10. QED
  BY <1>5, <1>6, <1>7, <1>8, <1>9 DEF StartInv

\* Steps of the threads, of the user and of the peers, at any place of the main
\* thread: run_threads may be cleared, and the process may end.
LEMMA OthersInv ==
  ASSUME StartInv,
         \/ ConnStep \/ ReadStep \/ ConnAccept \/ ReadEvent \/ TryConnect
         \/ TryLeave \/ (\E t \in UITypes : Ask(t)) \/ Sigint
  PROVE  StartInv'
<1> USE DEF Running, Exit, threads, interfaces, account, peers,
            ConnStep, ReadStep, ConnBind, ConnLeave, ConnAccept, ReadStart,
            ReadEvent, ReadLeave, TryConnect, TryLeave, Ask, Sigint
<1>1. /\ UNCHANGED <<setupstatus, listeners, taken, replies, fresh, setups>>
      /\ run' \in {run, 0} /\ stop' \in {stop, TRUE}
      /\ connected' \in {connected, TRUE}
  BY DEF ConnectToPeers
<1>2. /\ code = "none" /\ mpc # "exited"
      /\ \/ mpc' = mpc /\ code' = code
         \/ mpc' = "exited" /\ code' = "failure"
  BY DEF StartInv, SemaphoreCounts
<1>3. /\ asks' \in Seq(UITypes) /\ asked' \in 0..MaxAsks
      /\ asked <= asked' /\ Len(asks') - Len(asks) = asked' - asked
  <2>1. CASE \E t \in UITypes : Ask(t)
    <3>1. PICK t \in UITypes : Ask(t)
      BY <2>1
    <3>2. asks' = Append(asks, t) /\ asked' = asked + 1 /\ asked < MaxAsks
      BY <3>1
    <3>3. asks \in Seq(UITypes)
      BY DEF StartInv, TypeOK
    <3>4. asks' \in Seq(UITypes) /\ Len(asks') = Len(asks) + 1
      BY <3>2, <3>3, AppendProperties
    <3>5. QED
      BY <3>2, <3>4, AsksParts, BoundsAssumption
  <2>2. CASE ~\E t \in UITypes : Ask(t)
    <3>1. UNCHANGED <<asks, asked>>
      BY <2>2
    <3>2. QED
      BY <3>1, AsksParts DEF StartInv, TypeOK
  <2>3. QED
    BY <2>1, <2>2
<1>4. ListenedOnce'
  BY <1>1, <1>2 DEF StartInv, ListenedOnce, Listened
<1>5. SetupPhase'
  BY <1>1, <1>2 DEF StartInv, SetupPhase, InSetup, Configured
<1>6. EventsCounted'
  <2>1. taken' + Len(asks') <= asked' /\ (asked > 0 => asked' > 0)
    <3>1. Len(asks') \in Nat
      BY <1>3, LenProperties
    <3>2. QED
      BY <1>1, <1>3, <3>1, AsksParts, BoundsAssumption DEF StartInv, EventsCounted
  <2>2. QED
    BY <1>1, <1>2, <2>1 DEF StartInv, EventsCounted
<1>7. /\ conn' \in {"none", "start", "run", "left"}
      /\ read' \in {"none", "start", "run", "left"}
      /\ \/ UNCHANGED <<sem, conn, read>>
         \/ conn = "run" /\ conn' = "left" /\ UNCHANGED <<sem, read>>
         \/ read = "run" /\ read' = "left" /\ UNCHANGED <<sem, conn>>
         \/ conn = "start" /\ conn' = "run" /\ sem' = sem + 1 /\ read' = read
         \/ read = "start" /\ read' = "run" /\ sem' = sem + 1 /\ conn' = conn
  BY DEF StartInv, TypeOK
<1>8. SemaphoreCounts' /\ sem' \in 0..2
  <2>1. mpc' = "exited" <=> code' # "none"
    BY <1>2
  <2>2. mpc \in NoThreads => conn' = conn /\ read' = read /\ sem' = sem
    BY <1>7 DEF StartInv, SemaphoreCounts
  <2>3. sem' \in 0..2
    <3>1. mpc \in NoThreads \cup {"sync", "connect", "listen", "loop", "cancel",
                                  "join"}
      BY <1>2 DEF StartInv, TypeOK, NoThreads, InSetup
    <3>2. QED
      BY <1>7, <2>2, <3>1 DEF StartInv, TypeOK, SemaphoreCounts
  <2>4. mpc' = mpc => SemaphoreCounts'
    <3>1. ASSUME mpc = "sync"
          PROVE  /\ conn' # "none" /\ read' # "none"
                 /\ sem' = (IF conn' = "start" THEN 0 ELSE 1)
                           + (IF read' = "start" THEN 0 ELSE 1)
      BY <1>7, <3>1 DEF StartInv, SemaphoreCounts
    <3>2. ASSUME mpc \in {"connect", "listen", "loop", "cancel", "join"}
          PROVE  {conn', read'} \cap {"none", "start"} = {} /\ sem' = 0
      BY <1>7, <3>2 DEF StartInv, SemaphoreCounts
    <3>3. mpc \in NoThreads => conn' = "none" /\ read' = "none" /\ sem' = 0
      BY <2>2 DEF StartInv, SemaphoreCounts
    <3>4. QED
      BY <2>1, <3>1, <3>2, <3>3 DEF SemaphoreCounts
  <2>5. QED
    BY <1>2, <2>1, <2>3, <2>4 DEF SemaphoreCounts, NoThreads, InSetup
<1>9. TypeOK'
  <2>1. sent' \in 0..MaxPeerEvents /\ dropped' \in BOOLEAN
    BY BoundsAssumption DEF StartInv, TypeOK
  <2>2. try' \in {"none", "run", "left"} /\ run' \in 0..2
    BY <1>1 DEF StartInv, TypeOK
  <2>3. connected' \in BOOLEAN /\ stop' \in BOOLEAN
    BY <1>1 DEF StartInv, TypeOK
  <2>4. QED
    BY <1>1, <1>2, <1>3, <1>7, <1>8, <2>1, <2>2, <2>3 DEF StartInv, TypeOK
<1>10. QED
  BY <1>4, <1>5, <1>6, <1>8, <1>9 DEF StartInv

-----------------------------------------------------------------------------
\* The theorems

\* Which listeners, threads and flags there are at each place of the main
\* thread: this is inductive.
THEOREM StartKept == Spec => []StartInv
<1>1. ASSUME StartInv, [Next]_vars
      PROVE  StartInv'
  <2>1. CASE UNCHANGED vars
    <3>1. TypeOK' /\ ListenedOnce' /\ SetupPhase'
      BY <1>1, <2>1 DEF vars, StartInv, TypeOK, ListenedOnce, Listened, SetupPhase
    <3>2. EventsCounted' /\ SemaphoreCounts'
      BY <1>1, <2>1 DEF vars, StartInv, EventsCounted, SemaphoreCounts
    <3>3. QED
      BY <3>1, <3>2 DEF StartInv
  <2>2. CASE MainStep
    BY <1>1, <2>2, CoreInitInv, PollInv, HandlerInv, LeaveSetupInv, MainInv
       DEF MainStep
  <2>3. CASE \/ ConnStep \/ ReadStep \/ ConnAccept \/ ReadEvent \/ TryConnect
             \/ TryLeave \/ (\E t \in UITypes : Ask(t)) \/ Sigint
    BY <1>1, <2>3, OthersInv
  <2>4. QED
    BY <1>1, <2>1, <2>2, <2>3 DEF Next
<1>2. QED
  BY <1>1, StartInit, PTL DEF Spec

\* However many Setup events the interfaces send, and whenever they send them,
\* the account of a core is set up once at most.
THEOREM SetUpOnce == Spec => []SetupInv
<1>1. StartInv => SetupInv
  BY DEF StartInv, SetupPhase, SetupInv, SetupOnce
<1>2. QED
  BY <1>1, StartKept, PTL

\* A step answers a Status event or it receives none.
LEMMA Answered ==
  ASSUME StartInv, Next
  PROVE  \/ /\ Poll /\ replies' = Append(replies, setupstatus)
            /\ taken' = taken + 1
         \/ UNCHANGED <<replies, taken>>
<1> USE DEF interfaces
<1>1. CASE Poll
  <2>1. HandleStatus = <<setupstatus>> /\ setupstatus \in BOOLEAN
        /\ replies \in Seq(BOOLEAN)
    BY <1>1, OneAnswer DEF StartInv, TypeOK
  <2>2. replies \o HandleStatus = Append(replies, setupstatus)
    BY <2>1, AppendIsConcat
  <2>3. QED
    BY <1>1, <2>2 DEF Poll
<1>2. CASE Next /\ ~Poll
  <2>1. CASE MainStep
    BY <1>2, <2>1 DEF MainStep, CoreInit, HandleSetup, SetupReady, LeaveSetup,
       StoppedInSetup, Resume, LoadKey, CreateThreads, WaitThreads,
       FirstConnect, Listen, LeaveLoop, CancelTry, JoinThreads
  <2>2. CASE ~MainStep
    BY <1>2, <2>2 DEF Next, ConnStep, ReadStep, ConnBind, ConnLeave, ConnAccept,
       ReadStart, ReadEvent, ReadLeave, TryConnect, TryLeave, Ask, Sigint
  <2>3. QED
    BY <2>1, <2>2
<1>3. QED
  BY <1>1, <1>2

\* Every Status event is answered once, with what is true at that moment,
\* although the listener is removed and registered again on the way.
THEOREM AnswersTruthful == Spec => StatusTruthful
<1> DEFINE A == /\ Len(replies') - Len(replies) = taken' - taken
                /\ \A i \in (Len(replies) + 1)..Len(replies') :
                     replies'[i] = (~fresh \/ setups > 0)
<1>1. ASSUME StartInv, [Next]_vars
      PROVE  [A]_vars
  <2>1. replies \in Seq(BOOLEAN) /\ Len(replies) \in Nat /\ taken \in Nat
    BY <1>1, AsksParts, LenProperties DEF StartInv, TypeOK
  <2>2. CASE UNCHANGED <<replies, taken>>
    <3>1. (Len(replies) + 1)..Len(replies) = {}
      BY <2>1
    <3>2. QED
      BY <2>1, <2>2, <3>1
  <2>3. CASE /\ Poll /\ replies' = Append(replies, setupstatus)
             /\ taken' = taken + 1
    <3>1. setupstatus \in BOOLEAN
      BY <1>1 DEF StartInv, TypeOK
    <3>2. Len(replies') = Len(replies) + 1
          /\ replies'[Len(replies) + 1] = setupstatus
      BY <2>1, <2>3, <3>1, AppendProperties
    <3>3. setupstatus = (~fresh \/ setups > 0)
      <4>1. CASE mpc = "setup"
        <5>1. fresh /\ setups = 0 /\ setupstatus = FALSE
          BY <1>1, <2>3, <4>1
             DEF Poll, MainAt, StartInv, SetupPhase, InSetup, Configured
        <5>2. ~(setups > 0)
          BY <5>1
        <5>3. (~fresh \/ setups > 0) = FALSE
          BY <5>1, <5>2, Zenon
        <5>4. QED
          BY <5>1, <5>3
      <4>2. CASE mpc = "loop"
        <5>1. (fresh => setups = 1) /\ setupstatus = TRUE
          BY <1>1, <4>2 DEF StartInv, SetupPhase, Configured
        <5>2. ~fresh \/ setups > 0
          BY <5>1
        <5>3. (~fresh \/ setups > 0) = TRUE
          BY <5>2, Zenon
        <5>4. QED
          BY <5>1, <5>3
      <4>3. QED
        BY <2>3, <4>1, <4>2 DEF Poll, MainAt
    <3>4. (Len(replies) + 1)..Len(replies') = {Len(replies) + 1}
      BY <2>1, <3>2
    <3>5. QED
      BY <2>1, <2>3, <3>2, <3>3, <3>4
  <2>4. QED
    BY <1>1, <2>2, <2>3, Answered DEF vars
<1>2. QED
  BY <1>1, StartKept, PTL DEF Spec, StatusTruthful
=============================================================================

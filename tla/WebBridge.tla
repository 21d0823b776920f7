------------------------------ MODULE WebBridge ------------------------------
(***************************************************************************)
(* The websocket server between the core and the browsers                   *)
(* (tapi2p_websocket.c).  The event thread of event.c receives the core's   *)
(* events and puts them on data_to_send; the service loop of the main       *)
(* thread takes them off again in the callback that says that a browser's   *)
(* socket can be written.  A command of a browser other than Hello goes     *)
(* straight to the core and changes nothing here.  The configuration has a  *)
(* nick: a browser says Hello once the core has answered that it is set up. *)
(***************************************************************************)
EXTENDS Integers, Sequences, FiniteSets

CONSTANTS Browsers,
          MaxBuffer,   \* the length of data_to_send
          MaxEvents,   \* bound: events the core sends
          NoText,      \* the events whose data need not be a UTF-8 string
          MaxHellos,   \* bound: Hello commands of the browsers
          Closing      \* whether browsers may go away

ASSUME BufferAssumption == MaxBuffer \in Nat \ {0}
ASSUME BridgeBounds == MaxEvents \in Nat /\ MaxHellos \in Nat
ASSUME NoTextAssumption == NoText \subseteq 1..MaxEvents
ASSUME ClosingAssumption == Closing \in BOOLEAN

Events == 1..MaxEvents
NoEvent == 0

VARIABLES data_to_send, unsent_data, datalock,
          welcome_message_sent,
          epc, ecur,     \* the event thread and the event it handles
          spc,           \* the service loop
          inbox, sent,   \* external: events of the core, and how many there were
          conn,          \* external: the browsers that are connected
          wanted,        \* external: those that wait for the welcome message
          hellos,
          writes,        \* history: how often an event was written to a browser
          status

buffer == <<data_to_send, unsent_data>>
event == <<epc, ecur>>
core == <<inbox, sent>>
browsers == <<conn, wanted, hellos>>
vars == <<data_to_send, unsent_data, datalock, welcome_message_sent, epc, ecur,
          spc, inbox, sent, conn, wanted, hellos, writes, status>>

Slots == 0..(MaxBuffer - 1)

TypeOK ==
  /\ data_to_send \in [Slots -> Events \cup {NoEvent}]
  /\ unsent_data \in 0..MaxBuffer
  /\ datalock \in {"free", "event", "service"}
  /\ welcome_message_sent \in BOOLEAN
  /\ epc \in {"recv", "lock", "store", "count", "unlock"}
  /\ ecur \in Events \cup {NoEvent}
  /\ spc \in {"idle", "lock", "drain"}
  /\ inbox \in Seq(Events) /\ sent \in 0..MaxEvents
  /\ conn \subseteq Browsers /\ wanted \subseteq conn
  /\ hellos \in 0..MaxHellos
  /\ writes \in [Events -> Nat]
  /\ status \in {"ok", "overflow"}

Init ==
  /\ data_to_send = [i \in Slots |-> NoEvent] /\ unsent_data = 0
  /\ datalock = "free"
  /\ welcome_message_sent = TRUE
  /\ epc = "recv" /\ ecur = NoEvent
  /\ spc = "idle"
  /\ inbox = <<>> /\ sent = 0
  /\ conn = {} /\ wanted = {} /\ hellos = 0
  /\ writes = [e \in Events |-> 0]
  /\ status = "ok"

EventAt(l) == status = "ok" /\ epc = l
ServiceAt(l) == status = "ok" /\ spc = l

-----------------------------------------------------------------------------
\* event_threadfunc and coreeventhandler

\* createjsonobject fails on data that is not UTF-8 (json_string), and the event
\* is gone.  NoText has the events for which this can happen: those whose data a
\* peer has written in another encoding, and those without data (PeerConnected,
\* PeerDisconnected), where the uninitialised byte behind the event is taken for it.
Recv ==
  /\ EventAt("recv") /\ inbox # <<>>
  /\ inbox' = Tail(inbox)
  /\ \/ ecur' = Head(inbox) /\ epc' = "lock"
     \/ Head(inbox) \in NoText /\ UNCHANGED event
  /\ UNCHANGED <<buffer, datalock, welcome_message_sent, spc, sent, browsers,
                 writes, status>>

\* Mutant: the handler does not take the lock.
EventLockNot ==
  /\ EventAt("lock")
  /\ epc' = "store"
  /\ UNCHANGED <<buffer, datalock, ecur, welcome_message_sent, spc, core,
                 browsers, writes, status>>

EventLock ==
  /\ EventAt("lock") /\ datalock = "free"
  /\ datalock' = "event"
  /\ epc' = "store"
  /\ UNCHANGED <<buffer, ecur, welcome_message_sent, spc, core, browsers,
                 writes, status>>

\* data_to_send[unsent_data++]=json_str: nothing keeps it inside the array.
EventStore ==
  /\ EventAt("store")
  /\ \/ /\ unsent_data \in Slots
        /\ data_to_send' = [data_to_send EXCEPT ![unsent_data] = ecur]
        /\ epc' = "count"
        /\ UNCHANGED status
     \/ /\ unsent_data \notin Slots
        /\ status' = "overflow"
        /\ UNCHANGED <<data_to_send, epc>>
  /\ UNCHANGED <<unsent_data, datalock, ecur, welcome_message_sent, spc, core,
                 browsers, writes>>

EventCount ==
  /\ EventAt("count")
  /\ unsent_data' = unsent_data + 1
  /\ ecur' = NoEvent
  /\ epc' = "unlock"
  /\ UNCHANGED <<data_to_send, datalock, welcome_message_sent, spc, core,
                 browsers, writes, status>>

EventUnlock ==
  /\ EventAt("unlock")
  /\ datalock' = "free"
  /\ epc' = "recv"
  /\ UNCHANGED <<buffer, ecur, welcome_message_sent, spc, core, browsers,
                 writes, status>>

-----------------------------------------------------------------------------
\* tapi2p_callback, LWS_CALLBACK_SERVER_WRITEABLE for the socket of browser b

\* The welcome message goes to the socket that happens to be writable next.
Welcome(b) ==
  /\ ServiceAt("idle") /\ b \in conn
  /\ ~welcome_message_sent
  /\ welcome_message_sent' = TRUE
  /\ wanted' = wanted \ {b}
  /\ UNCHANGED <<buffer, datalock, event, spc, core, conn, hellos, writes,
                 status>>

\* unsent_data is read without the lock.
Writeable(b) ==
  /\ ServiceAt("idle") /\ b \in conn
  /\ welcome_message_sent /\ unsent_data > 0
  /\ spc' = "lock"
  /\ UNCHANGED <<buffer, datalock, welcome_message_sent, event, core, browsers,
                 writes, status>>

ServiceLock ==
  /\ ServiceAt("lock") /\ datalock = "free"
  /\ datalock' = "service"
  /\ spc' = "drain"
  /\ UNCHANGED <<buffer, welcome_message_sent, event, core, browsers, writes,
                 status>>

\* The newest event is sent first.
ServiceSend ==
  /\ ServiceAt("drain") /\ unsent_data > 0
  /\ unsent_data' = unsent_data - 1
  /\ writes' = [writes EXCEPT ![data_to_send[unsent_data']] = @ + 1]
  /\ UNCHANGED <<data_to_send, datalock, welcome_message_sent, event, spc, core,
                 browsers, status>>

\* Mutant of ServiceUnlock: the lock is kept.
ServiceUnlockNot ==
  /\ ServiceAt("drain") /\ unsent_data = 0
  /\ spc' = "idle"
  /\ UNCHANGED <<buffer, datalock, welcome_message_sent, event, core, browsers,
                 writes, status>>

ServiceUnlock ==
  /\ ServiceAt("drain") /\ unsent_data = 0
  /\ datalock' = "free"
  /\ spc' = "idle"
  /\ UNCHANGED <<buffer, welcome_message_sent, event, core, browsers, writes,
                 status>>

-----------------------------------------------------------------------------
\* The other callbacks, which the same loop runs, and the core

\* Mutant of Hello: the command is not recognised.
HelloIgnored(b) ==
  /\ ServiceAt("idle") /\ b \in conn /\ hellos < MaxHellos
  /\ hellos' = hellos + 1
  /\ wanted' = wanted \cup {b}
  /\ UNCHANGED <<buffer, datalock, welcome_message_sent, event, spc, core, conn,
                 writes, status>>

\* send_json of the command -1.
Hello(b) ==
  /\ ServiceAt("idle") /\ b \in conn /\ hellos < MaxHellos
  /\ hellos' = hellos + 1
  /\ wanted' = wanted \cup {b}
  /\ welcome_message_sent' = FALSE
  /\ UNCHANGED <<buffer, datalock, event, spc, core, conn, writes, status>>

Established(b) ==
  /\ ServiceAt("idle") /\ b \notin conn
  /\ conn' = conn \cup {b}
  /\ UNCHANGED <<buffer, datalock, welcome_message_sent, event, spc, core,
                 wanted, hellos, writes, status>>

Closed(b) ==
  /\ ServiceAt("idle") /\ Closing /\ b \in conn
  /\ conn' = conn \ {b}
  /\ wanted' = wanted \ {b}
  /\ UNCHANGED <<buffer, datalock, welcome_message_sent, event, spc, core,
                 hellos, writes, status>>

CoreSend ==
  /\ status = "ok" /\ sent < MaxEvents
  /\ sent' = sent + 1
  /\ inbox' = Append(inbox, sent')
  /\ UNCHANGED <<buffer, datalock, welcome_message_sent, event, spc, browsers,
                 writes, status>>

EventStep == Recv \/ EventLock \/ EventStore \/ EventCount \/ EventUnlock
ServiceStep == \/ ServiceLock \/ ServiceSend \/ ServiceUnlock
               \/ \E b \in Browsers : Welcome(b) \/ Writeable(b)

Next == \/ EventStep \/ ServiceStep
        \/ \E b \in Browsers : Hello(b) \/ Established(b) \/ Closed(b)
        \/ CoreSend

Spec == Init /\ [][Next]_vars

\* Both threads run; libwebsocket_callback_on_writable is called at the end of
\* every such callback, so a connected browser's socket comes round again.
FairSpec == Spec /\ WF_vars(EventStep) /\ WF_vars(ServiceStep)

-----------------------------------------------------------------------------

(***************************************************************************)
(* An event of the core is never in two places: to be received, in the      *)
(* handler, in the buffer, written to a browser.  One whose data is UTF-8   *)
(* is always in one of them.  So none of these is lost, and no event is     *)
(* written twice or after it was freed, although the service loop looks at  *)
(* unsent_data before it takes the lock.                                    *)
(***************************************************************************)
ExactlyOnce ==
  \A e \in 1..sent :
    LET places ==
          writes[e]
          + Cardinality({i \in 0..(unsent_data - 1) : data_to_send[i] = e})
          + (IF ecur = e THEN 1 ELSE 0)
          + Cardinality({i \in 1..Len(inbox) : inbox[i] = e})
    IN  places <= 1 /\ (places = 1 \/ e \in NoText)

(***************************************************************************)
(* The buffer stays inside its array until it overflows, and every event of *)
(* the core is in one place unless its data need not be UTF-8.              *)
(***************************************************************************)
BridgeInv == TypeOK /\ ExactlyOnce

(***************************************************************************)
(* While browsers are connected, an event of the core whose data is UTF-8   *)
(* reaches one: the welcome messages and the unsynchronised look at         *)
(* unsent_data delay it but do not stop it.                                 *)
(***************************************************************************)
Forwarded == \A e \in Events \ NoText :
               (e <= sent /\ conn # {})
               ~> (writes[e] > 0 \/ conn = {} \/ status # "ok")

(***************************************************************************)
(* The welcome message can be requested by an event: a browser that says    *)
(* Hello gets one, however many events are waiting in the buffer.  With two *)
(* browsers the code does not keep this: the message goes to the one whose  *)
(* socket is writable next.                                                 *)
(***************************************************************************)
WelcomeAnswered ==
  \A b \in Browsers : b \in wanted ~> (b \notin wanted \/ status # "ok")
=============================================================================

-------------------------- MODULE WebBridge_proofs --------------------------
(***************************************************************************)
(* What holds of the websocket server for every number of browsers, every   *)
(* length of the buffer and every number of events.  ExactlyOnce counts the *)
(* places of an event; the inductive invariant says instead which places    *)
(* exclude each other, and why the two threads cannot disturb each other in *)
(* the buffer although one of them looks at unsent_data without the lock.   *)
(***************************************************************************)
EXTENDS WebBridge, FiniteSetTheorems, SequenceTheorems, TLAPS

\* An event waits to be received, or for a browser.
InInbox(e) == \E i \in 1..Len(inbox) : inbox[i] = e
InBuffer(e) == \E i \in 0..(unsent_data - 1) : data_to_send[i] = e

\* The lock has the owner that is between lock and unlock, and no other.
LockOwned ==
  /\ datalock = "event" <=> epc \in {"store", "count", "unlock"}
  /\ datalock = "service" <=> spc = "drain"

\* What the event thread has in hand, and has stored when it comes to count it.
InHand ==
  /\ ecur = NoEvent <=> epc \in {"recv", "unlock"}
  /\ epc = "count" => /\ unsent_data \in Slots
                      /\ data_to_send[unsent_data] = ecur

\* Nothing holds an event the core has not sent.
OnlySent ==
  /\ \A i \in 1..Len(inbox) : inbox[i] \in 1..sent
  /\ \A i \in 0..(unsent_data - 1) : data_to_send[i] \in 1..sent
  /\ ecur \in 0..sent
  /\ \A e \in Events : writes[e] > 0 => e <= sent

\* No queue holds an event twice, and none is written twice.
Distinct ==
  /\ \A i, j \in 1..Len(inbox) : inbox[i] = inbox[j] => i = j
  /\ \A i, j \in 0..(unsent_data - 1) :
       data_to_send[i] = data_to_send[j] => i = j
  /\ \A e \in Events : writes[e] <= 1

\* The places of an event exclude each other.
Apart ==
  \A e \in Events :
    /\ writes[e] > 0 => ~InBuffer(e) /\ ecur # e /\ ~InInbox(e)
    /\ InBuffer(e) => ecur # e /\ ~InInbox(e)
    /\ ecur = e => ~InInbox(e)

\* An event whose data is UTF-8 is somewhere.
Somewhere ==
  \A e \in (1..sent) \ NoText :
    writes[e] > 0 \/ InBuffer(e) \/ ecur = e \/ InInbox(e)

\* The inductive invariant.
QueueInv == /\ TypeOK /\ LockOwned /\ InHand /\ OnlySent
            /\ Distinct /\ Apart /\ Somewhere

-----------------------------------------------------------------------------
\* The queues: what an operation does to the places of an event

\* The oldest event of the inbox is one the core sent; receiving it takes this
\* one away and no other.
LEMMA TakenFromInbox ==
  ASSUME QueueInv, inbox # <<>>, inbox' = Tail(inbox)
  PROVE  /\ Head(inbox) \in 1..sent /\ InInbox(Head(inbox))
         /\ inbox' \in Seq(Events)
         /\ \A i \in 1..Len(inbox') : inbox'[i] \in 1..sent
         /\ \A i, j \in 1..Len(inbox') : inbox'[i] = inbox'[j] => i = j
         /\ \A e : InInbox(e)' <=> InInbox(e) /\ e # Head(inbox)
<1>1. inbox \in Seq(Events) /\ Len(inbox) \in Nat \ {0}
  BY EmptySeq DEF QueueInv, TypeOK
<1>2. /\ inbox' \in Seq(Events)
      /\ Len(inbox') = Len(inbox) - 1
      /\ \A i \in 1..Len(inbox') : inbox'[i] = inbox[i + 1]
  BY <1>1, HeadTailProperties
<1>3. Head(inbox) = inbox[1]
  BY <1>1
<1>4. \A i, j \in 1..Len(inbox) : inbox[i] = inbox[j] => i = j
  BY DEF QueueInv, Distinct
<1>5. Head(inbox) \in 1..sent /\ InInbox(Head(inbox))
  BY <1>1, <1>3 DEF QueueInv, OnlySent, InInbox
<1>6. \A i \in 1..Len(inbox') : inbox'[i] \in 1..sent
  BY <1>1, <1>2 DEF QueueInv, OnlySent
<1>7. \A i, j \in 1..Len(inbox') : inbox'[i] = inbox'[j] => i = j
  <2>1. SUFFICES ASSUME NEW i \in 1..Len(inbox'), NEW j \in 1..Len(inbox'),
                        inbox'[i] = inbox'[j]
                 PROVE  i = j
    OBVIOUS
  <2>2. i + 1 \in 1..Len(inbox) /\ j + 1 \in 1..Len(inbox)
    BY <1>1, <1>2
  <2>3. i + 1 = j + 1
    BY <1>2, <1>4, <2>1, <2>2
  <2>4. QED
    BY <2>3
<1>8. ASSUME NEW e
      PROVE  InInbox(e)' <=> InInbox(e) /\ e # Head(inbox)
  <2>1. ASSUME NEW i \in 1..Len(inbox'), inbox'[i] = e
        PROVE  InInbox(e) /\ e # Head(inbox)
    <3>1. i + 1 \in 1..Len(inbox) /\ inbox[i + 1] = e /\ 1 \in 1..Len(inbox)
      BY <1>1, <1>2, <2>1
    <3>2. inbox[i + 1] # inbox[1]
      BY <1>4, <3>1
    <3>3. QED
      BY <1>3, <3>1, <3>2 DEF InInbox
  <2>2. ASSUME NEW i \in 1..Len(inbox), inbox[i] = e, e # Head(inbox)
        PROVE  InInbox(e)'
    <3>1. i # 1
      BY <1>3, <2>2
    <3>2. i - 1 \in 1..Len(inbox') /\ (i - 1) + 1 = i
      BY <1>1, <1>2, <3>1
    <3>3. inbox'[i - 1] = inbox[i]
      BY <1>2, <3>2
    <3>4. QED
      BY <2>2, <3>2, <3>3 DEF InInbox
  <2>3. QED
    BY <2>1, <2>2 DEF InInbox
<1>9. QED
  BY <1>2, <1>5, <1>6, <1>7, <1>8

\* A new event of the core joins the inbox.
LEMMA AddedToInbox ==
  ASSUME QueueInv, sent < MaxEvents, inbox' = Append(inbox, sent + 1)
  PROVE  /\ inbox' \in Seq(Events)
         /\ \A i \in 1..Len(inbox') : inbox'[i] \in 1..(sent + 1)
         /\ \A i, j \in 1..Len(inbox') : inbox'[i] = inbox'[j] => i = j
         /\ \A e : InInbox(e)' <=> InInbox(e) \/ e = sent + 1
<1>1. inbox \in Seq(Events) /\ Len(inbox) \in Nat /\ sent \in Nat
  BY LenProperties DEF QueueInv, TypeOK
<1>2. sent + 1 \in Events
  BY <1>1, BridgeBounds DEF Events
<1>3. /\ inbox' \in Seq(Events)
      /\ Len(inbox') = Len(inbox) + 1
      /\ \A i \in 1..Len(inbox) : inbox'[i] = inbox[i]
      /\ inbox'[Len(inbox) + 1] = sent + 1
  BY <1>1, <1>2
<1>4. \A i \in 1..Len(inbox) : inbox[i] \in 1..sent
  BY DEF QueueInv, OnlySent
<1>5. \A i, j \in 1..Len(inbox) : inbox[i] = inbox[j] => i = j
  BY DEF QueueInv, Distinct
<1>6. \A i \in 1..Len(inbox') : i \in 1..Len(inbox) \/ i = Len(inbox) + 1
  BY <1>1, <1>3
<1>7. \A i \in 1..Len(inbox') : inbox'[i] \in 1..(sent + 1)
  BY <1>1, <1>3, <1>4, <1>6
<1>8. \A i, j \in 1..Len(inbox') : inbox'[i] = inbox'[j] => i = j
  <2>1. \A i \in 1..Len(inbox) : inbox'[i] # sent + 1
    BY <1>1, <1>3, <1>4
  <2>2. QED
    BY <1>3, <1>5, <1>6, <2>1
<1>9. ASSUME NEW e
      PROVE  InInbox(e)' <=> InInbox(e) \/ e = sent + 1
  <2>1. 1..Len(inbox) \subseteq 1..Len(inbox')
        /\ Len(inbox) + 1 \in 1..Len(inbox')
    BY <1>1, <1>3
  <2>2. QED
    BY <1>3, <1>6, <2>1 DEF InInbox
<1>10. QED
  BY <1>3, <1>7, <1>8, <1>9

\* The positions of the buffer that are in use are positions of its array.
LEMMA BufferParts ==
  ASSUME QueueInv
  PROVE  /\ unsent_data \in Nat /\ MaxBuffer \in Nat
         /\ 0..(unsent_data - 1) \subseteq Slots
         /\ sent \in Nat /\ 1..sent \subseteq Events
BY BufferAssumption, BridgeBounds DEF QueueInv, TypeOK, Slots, Events

\* Storing behind the events in the buffer leaves them alone.
LEMMA StoredBehind ==
  ASSUME QueueInv, unsent_data \in Slots, unsent_data' = unsent_data,
         data_to_send' = [data_to_send EXCEPT ![unsent_data] = ecur]
  PROVE  /\ data_to_send'[unsent_data] = ecur
         /\ \A i \in 0..(unsent_data - 1) : data_to_send'[i] = data_to_send[i]
         /\ \A e : InBuffer(e)' <=> InBuffer(e)
<1>1. data_to_send \in [Slots -> Events \cup {NoEvent}]
  BY DEF QueueInv, TypeOK
<1>2. \A i \in 0..(unsent_data - 1) : i \in Slots /\ i # unsent_data
  BY BufferParts
<1>3. \A i \in 0..(unsent_data - 1) : data_to_send'[i] = data_to_send[i]
  BY <1>1, <1>2
<1>4. QED
  BY <1>1, <1>3 DEF InBuffer

\* Counting the event just stored adds it to the buffer.
LEMMA CountedInBuffer ==
  ASSUME QueueInv, epc = "count", unsent_data' = unsent_data + 1,
         UNCHANGED data_to_send
  PROVE  /\ \A i \in 0..(unsent_data' - 1) :
              i \in 0..(unsent_data - 1) \/ i = unsent_data
         /\ data_to_send[unsent_data] = ecur /\ unsent_data \in Slots
         /\ \A e : InBuffer(e)' <=> InBuffer(e) \/ e = ecur
<1>1. \A i : i \in 0..(unsent_data' - 1) <=>
               i \in 0..(unsent_data - 1) \/ i = unsent_data
  BY BufferParts
<1>2. data_to_send[unsent_data] = ecur /\ unsent_data \in Slots
  BY DEF QueueInv, InHand
<1>3. QED
  BY <1>1, <1>2 DEF InBuffer

\* Sending the newest event of the buffer takes this one away and no other.
LEMMA TakenFromBuffer ==
  ASSUME QueueInv, unsent_data > 0, unsent_data' = unsent_data - 1,
         UNCHANGED data_to_send
  PROVE  LET e == data_to_send[unsent_data']
         IN  /\ e \in 1..sent /\ InBuffer(e)
             /\ 0..(unsent_data' - 1) \subseteq 0..(unsent_data - 1)
             /\ \A f : InBuffer(f)' <=> InBuffer(f) /\ f # e
<1>1. \A i : i \in 0..(unsent_data - 1) <=>
               i \in 0..(unsent_data' - 1) \/ i = unsent_data'
  BY BufferParts
<1>2. unsent_data' \notin 0..(unsent_data' - 1)
  BY BufferParts
<1>3. \A i, j \in 0..(unsent_data - 1) :
         data_to_send[i] = data_to_send[j] => i = j
  BY DEF QueueInv, Distinct
<1>4. data_to_send[unsent_data'] \in 1..sent
  BY <1>1 DEF QueueInv, OnlySent
<1>5. QED
  BY <1>1, <1>2, <1>3, <1>4 DEF InBuffer

-----------------------------------------------------------------------------
\* Each action preserves the invariant.

\* event_init has run: nothing is in a queue.
LEMMA QueueInit == Init => QueueInv
<1> SUFFICES ASSUME Init PROVE QueueInv
  OBVIOUS
<1>1. TypeOK
  BY BufferAssumption, BridgeBounds, EmptySeq DEF Init, TypeOK
<1>2. Len(inbox) = 0 /\ 1..Len(inbox) = {} /\ 0..(unsent_data - 1) = {}
      /\ 1..sent = {}
  BY EmptySeq DEF Init
<1>3. LockOwned /\ InHand
  BY DEF Init, LockOwned, InHand
<1>4. OnlySent /\ Distinct
  <2>1. ecur \in 0..sent /\ \A e \in Events : writes[e] = 0
    BY DEF Init, NoEvent
  <2>2. QED
    BY <1>2, <2>1 DEF OnlySent, Distinct
<1>5. Apart /\ Somewhere
  <2>1. \A e \in Events : e # NoEvent
    BY DEF Events, NoEvent
  <2>2. QED
    BY <1>2, <2>1 DEF Init, Apart, Somewhere, InInbox, InBuffer
<1>6. QED
  BY <1>1, <1>3, <1>4, <1>5 DEF QueueInv

\* The event thread receives an event: it takes it in hand or may, if the data
\* need not be UTF-8, lose it.
LEMMA RecvInv ==
  ASSUME QueueInv, Recv
  PROVE  QueueInv'
<1> USE DEF EventAt, event, buffer, browsers
<1>1. /\ Head(inbox) \in 1..sent /\ InInbox(Head(inbox))
      /\ inbox' \in Seq(Events)
      /\ \A i \in 1..Len(inbox') : inbox'[i] \in 1..sent
      /\ \A i, j \in 1..Len(inbox') : inbox'[i] = inbox'[j] => i = j
      /\ \A e : InInbox(e)' <=> InInbox(e) /\ e # Head(inbox)
  BY TakenFromInbox DEF Recv
<1>2. \A e : InBuffer(e)' <=> InBuffer(e)
  BY DEF Recv, InBuffer
<1>3. ecur = NoEvent /\ epc = "recv"
  BY DEF Recv, QueueInv, InHand
<1>4. \/ ecur' = Head(inbox) /\ epc' = "lock"
      \/ Head(inbox) \in NoText /\ ecur' = ecur /\ epc' = epc
  BY DEF Recv
<1>5. Head(inbox) \in Events /\ Head(inbox) # NoEvent /\ sent \in Nat
  BY <1>1, BufferParts DEF NoEvent, Events
<1>6. TypeOK'
  BY <1>1, <1>4, <1>5 DEF Recv, QueueInv, TypeOK
<1>7. LockOwned' /\ InHand'
  BY <1>3, <1>4, <1>5 DEF Recv, QueueInv, LockOwned, InHand
<1>8. OnlySent' /\ Distinct'
  BY <1>1, <1>4, <1>5 DEF Recv, QueueInv, OnlySent, Distinct
<1>9. Apart'
  <2>1. \A e \in Events : e # NoEvent
    BY DEF Events, NoEvent
  <2>2. QED
    BY <1>1, <1>2, <1>3, <1>4, <1>5, <2>1 DEF Recv, QueueInv, Apart
<1>10. Somewhere'
  BY <1>1, <1>2, <1>3, <1>4, <1>5 DEF Recv, QueueInv, Somewhere, NoEvent
<1>11. QED
  BY <1>6, <1>7, <1>8, <1>9, <1>10 DEF QueueInv

\* It waits for the lock, and gives it back.
LEMMA EventLockInv ==
  ASSUME QueueInv, EventLock \/ EventUnlock
  PROVE  QueueInv'
<1> USE DEF EventAt, event, buffer, browsers, core
<1>1. \A e : (InInbox(e)' <=> InInbox(e)) /\ (InBuffer(e)' <=> InBuffer(e))
  BY DEF EventLock, EventUnlock, InInbox, InBuffer
<1>2. TypeOK'
  BY DEF EventLock, EventUnlock, QueueInv, TypeOK
<1>3. LockOwned' /\ InHand'
  BY DEF EventLock, EventUnlock, QueueInv, LockOwned, InHand
<1>4. OnlySent' /\ Distinct'
  BY DEF EventLock, EventUnlock, QueueInv, OnlySent, Distinct
<1>5. Apart' /\ Somewhere'
  BY <1>1 DEF EventLock, EventUnlock, QueueInv, Apart, Somewhere
<1>6. QED
  BY <1>2, <1>3, <1>4, <1>5 DEF QueueInv

\* It stores the event behind those of the buffer, or behind the array.
LEMMA EventStoreInv ==
  ASSUME QueueInv, EventStore
  PROVE  QueueInv'
<1> USE DEF EventAt, browsers, core
<1>1. CASE unsent_data \notin Slots
  <2>1. \A e : (InInbox(e)' <=> InInbox(e)) /\ (InBuffer(e)' <=> InBuffer(e))
    BY <1>1 DEF EventStore, InInbox, InBuffer
  <2>2. QED
    BY <1>1, <2>1 DEF EventStore, QueueInv, TypeOK, LockOwned, InHand, OnlySent,
                      Distinct, Apart, Somewhere
<1>2. CASE unsent_data \in Slots
  <2>1. /\ data_to_send'[unsent_data] = ecur
        /\ \A i \in 0..(unsent_data - 1) : data_to_send'[i] = data_to_send[i]
        /\ \A e : InBuffer(e)' <=> InBuffer(e)
    BY <1>2, StoredBehind DEF EventStore
  <2>2. \A e : InInbox(e)' <=> InInbox(e)
    BY DEF EventStore, InInbox
  <2>3. TypeOK'
    BY <1>2 DEF EventStore, QueueInv, TypeOK
  <2>4. LockOwned' /\ InHand'
    BY <1>2, <2>1 DEF EventStore, QueueInv, LockOwned, InHand
  <2>5. OnlySent' /\ Distinct'
    BY <1>2, <2>1 DEF EventStore, QueueInv, OnlySent, Distinct
  <2>6. Apart' /\ Somewhere'
    BY <1>2, <2>1, <2>2 DEF EventStore, QueueInv, Apart, Somewhere
  <2>7. QED
    BY <2>3, <2>4, <2>5, <2>6 DEF QueueInv
<1>3. QED
  BY <1>1, <1>2

\* It counts the event it has stored: the event is in the buffer now.
LEMMA EventCountInv ==
  ASSUME QueueInv, EventCount
  PROVE  QueueInv'
<1> USE DEF EventAt, browsers, core
<1>1. /\ \A i \in 0..(unsent_data' - 1) :
           i \in 0..(unsent_data - 1) \/ i = unsent_data
      /\ data_to_send[unsent_data] = ecur /\ unsent_data \in Slots
      /\ \A e : InBuffer(e)' <=> InBuffer(e) \/ e = ecur
  BY CountedInBuffer DEF EventCount
<1>2. \A e : InInbox(e)' <=> InInbox(e)
  BY DEF EventCount, InInbox
<1>3. ecur \in 1..sent /\ ecur \in Events /\ ~InBuffer(ecur)
      /\ writes[ecur] <= 0
  <2>1. ecur # NoEvent /\ ecur \in 0..sent /\ sent \in Nat
    BY BufferParts DEF EventCount, QueueInv, InHand, OnlySent
  <2>2. ecur \in 1..sent /\ ecur \in Events
    BY <2>1, BufferParts DEF NoEvent
  <2>3. writes[ecur] \in Nat
    BY <2>2 DEF QueueInv, TypeOK
  <2>4. QED
    BY <2>2, <2>3 DEF QueueInv, Apart
<1>4. TypeOK'
  BY <1>1, BufferParts DEF EventCount, QueueInv, TypeOK, Slots
<1>5. LockOwned' /\ InHand'
  BY DEF EventCount, QueueInv, LockOwned, InHand
<1>6. OnlySent'
  BY <1>1, <1>3, BufferParts DEF EventCount, QueueInv, OnlySent, NoEvent
<1>7. Distinct'
  <2>1. \A i \in 0..(unsent_data - 1) : data_to_send[i] # ecur
    BY <1>3 DEF InBuffer
  <2>2. QED
    BY <1>1, <2>1 DEF EventCount, QueueInv, Distinct
<1>8. Apart'
  <2>1. \A e \in Events : e # NoEvent
    BY DEF Events, NoEvent
  <2>2. QED
    BY <1>1, <1>2, <1>3, <2>1 DEF EventCount, QueueInv, Apart
<1>9. Somewhere'
  BY <1>1, <1>2 DEF EventCount, QueueInv, Somewhere
<1>10. QED
  BY <1>4, <1>5, <1>6, <1>7, <1>8, <1>9 DEF QueueInv

\* The service loop sends the newest event.  It holds the lock, so the event
\* thread has not stored one that it has yet to count.
LEMMA ServiceSendInv ==
  ASSUME QueueInv, ServiceSend
  PROVE  QueueInv'
<1> USE DEF ServiceAt, event, browsers, core
<1> DEFINE e == data_to_send[unsent_data']
<1>1. /\ e \in 1..sent /\ InBuffer(e)
      /\ 0..(unsent_data' - 1) \subseteq 0..(unsent_data - 1)
      /\ \A f : InBuffer(f)' <=> InBuffer(f) /\ f # e
  BY TakenFromBuffer DEF ServiceSend
<1>2. \A f : InInbox(f)' <=> InInbox(f)
  BY DEF ServiceSend, InInbox
<1>3. e \in Events /\ writes \in [Events -> Nat]
  BY <1>1, BufferParts DEF QueueInv, TypeOK
<1>4. writes[e] = 0
  BY <1>1, <1>3 DEF QueueInv, Apart
<1>5. /\ writes' \in [Events -> Nat]
      /\ \A f \in Events : writes'[f] = IF f = e THEN 1 ELSE writes[f]
  BY <1>3, <1>4 DEF ServiceSend
<1>6. epc # "count" /\ datalock = "service"
  BY DEF ServiceSend, QueueInv, LockOwned
<1> HIDE DEF e
<1>7. TypeOK'
  <2>1. unsent_data' \in 0..MaxBuffer
    BY BufferParts DEF ServiceSend, QueueInv, TypeOK
  <2>2. QED
    BY <1>5, <2>1 DEF ServiceSend, QueueInv, TypeOK
<1>8. LockOwned' /\ InHand'
  BY <1>6 DEF ServiceSend, QueueInv, LockOwned, InHand
<1>9. OnlySent'
  <2>1. \A f \in Events : writes'[f] > 0 => f <= sent
    BY <1>1, <1>5, BufferParts DEF QueueInv, OnlySent
  <2>2. QED
    BY <1>1, <2>1 DEF ServiceSend, QueueInv, OnlySent
<1>10. Distinct'
  <2>1. \A f \in Events : writes'[f] <= 1
    BY <1>5 DEF QueueInv, Distinct
  <2>2. QED
    BY <1>1, <2>1 DEF ServiceSend, QueueInv, Distinct
<1>11. Apart'
  BY <1>1, <1>2, <1>5 DEF ServiceSend, QueueInv, Apart
<1>12. Somewhere'
  BY <1>1, <1>2, <1>5, BufferParts DEF ServiceSend, QueueInv, Somewhere
<1>13. QED
  BY <1>7, <1>8, <1>9, <1>10, <1>11, <1>12 DEF QueueInv

\* What the service loop does beside it leaves the queues alone: it takes and
\* gives back the lock, and serves the callbacks of the browsers.
LEMMA ServiceInv ==
  ASSUME QueueInv,
         \/ ServiceLock \/ ServiceUnlock
         \/ \E b \in Browsers : \/ Welcome(b) \/ Writeable(b)
                                \/ Hello(b) \/ Established(b) \/ Closed(b)
  PROVE  QueueInv'
<1> USE DEF ServiceAt, event, buffer, core, browsers
<1> USE DEF ServiceLock, ServiceUnlock, Welcome, Writeable, Hello, Established,
            Closed
<1>1. UNCHANGED <<data_to_send, unsent_data, epc, ecur, inbox, sent, writes,
                  status>>
  OBVIOUS
<1>2. \A e : (InInbox(e)' <=> InInbox(e)) /\ (InBuffer(e)' <=> InBuffer(e))
  BY <1>1 DEF InInbox, InBuffer
<1>3. TypeOK'
  <2>1. hellos' \in 0..MaxHellos
    BY BridgeBounds DEF QueueInv, TypeOK
  <2>2. conn' \subseteq Browsers /\ wanted' \subseteq conn'
    BY DEF QueueInv, TypeOK
  <2>3. /\ datalock' \in {"free", "event", "service"}
        /\ welcome_message_sent' \in BOOLEAN
        /\ spc' \in {"idle", "lock", "drain"}
    BY DEF QueueInv, TypeOK
  <2>4. QED
    BY <1>1, <2>1, <2>2, <2>3 DEF QueueInv, TypeOK
<1>4. LockOwned'
  BY <1>1 DEF QueueInv, LockOwned
<1>5. InHand' /\ OnlySent' /\ Distinct'
  BY <1>1 DEF QueueInv, InHand, OnlySent, Distinct
<1>6. Apart' /\ Somewhere'
  BY <1>1, <1>2 DEF QueueInv, Apart, Somewhere
<1>7. QED
  BY <1>3, <1>4, <1>5, <1>6 DEF QueueInv

\* The core sends an event.
LEMMA CoreSendInv ==
  ASSUME QueueInv, CoreSend
  PROVE  QueueInv'
<1> USE DEF event, buffer, browsers
<1>1. /\ inbox' \in Seq(Events)
      /\ \A i \in 1..Len(inbox') : inbox'[i] \in 1..(sent + 1)
      /\ \A i, j \in 1..Len(inbox') : inbox'[i] = inbox'[j] => i = j
      /\ \A e : InInbox(e)' <=> InInbox(e) \/ e = sent + 1
  BY AddedToInbox DEF CoreSend
<1>2. \A e : InBuffer(e)' <=> InBuffer(e)
  BY DEF CoreSend, InBuffer
<1>3. sent \in Nat /\ sent + 1 \in Events /\ sent' = sent + 1
  BY BufferParts, BridgeBounds DEF CoreSend, Events
<1>4. ~InBuffer(sent + 1) /\ ecur # sent + 1 /\ ~(writes[sent + 1] > 0)
  BY <1>3 DEF QueueInv, OnlySent, InBuffer
<1>5. TypeOK'
  BY <1>1, <1>3, BridgeBounds DEF CoreSend, QueueInv, TypeOK
<1>6. LockOwned' /\ InHand'
  BY DEF CoreSend, QueueInv, LockOwned, InHand
<1>7. OnlySent'
  <2>1. 1..sent \subseteq 1..sent' /\ 0..sent \subseteq 0..sent'
    BY <1>3
  <2>2. \A e \in Events : e <= sent => e <= sent'
    BY <1>3 DEF Events
  <2>3. QED
    BY <1>1, <1>3, <2>1, <2>2 DEF CoreSend, QueueInv, OnlySent
<1>8. Distinct'
  BY <1>1 DEF CoreSend, QueueInv, Distinct
<1>9. Apart'
  BY <1>1, <1>2, <1>4 DEF CoreSend, QueueInv, Apart
<1>10. Somewhere'
  BY <1>1, <1>2, <1>3 DEF CoreSend, QueueInv, Somewhere
<1>11. QED
  BY <1>5, <1>6, <1>7, <1>8, <1>9, <1>10 DEF QueueInv

-----------------------------------------------------------------------------
\* The theorems

\* The places of an event exclude each other, and those whose data is UTF-8 are
\* somewhere: this is inductive.
THEOREM QueuesKept == Spec => []QueueInv
<1>1. ASSUME QueueInv, [Next]_vars
      PROVE  QueueInv'
  <2>1. CASE UNCHANGED vars
    <3>1. \A e : (InInbox(e)' <=> InInbox(e)) /\ (InBuffer(e)' <=> InBuffer(e))
      BY <2>1 DEF vars, InInbox, InBuffer
    <3>2. TypeOK' /\ LockOwned' /\ InHand' /\ OnlySent' /\ Distinct'
      BY <1>1, <2>1
         DEF vars, QueueInv, TypeOK, LockOwned, InHand, OnlySent, Distinct
    <3>3. Apart' /\ Somewhere'
      BY <1>1, <2>1, <3>1 DEF vars, QueueInv, Apart, Somewhere
    <3>4. QED
      BY <3>2, <3>3 DEF QueueInv
  <2>2. CASE EventStep
    BY <1>1, <2>2, RecvInv, EventLockInv, EventStoreInv, EventCountInv
       DEF EventStep
  <2>3. CASE ServiceStep
    BY <1>1, <2>3, ServiceInv, ServiceSendInv DEF ServiceStep
  <2>4. CASE \E b \in Browsers : Hello(b) \/ Established(b) \/ Closed(b)
    BY <1>1, <2>4, ServiceInv
  <2>5. CASE CoreSend
    BY <1>1, <2>5, CoreSendInv
  <2>6. QED
    BY <1>1, <2>1, <2>2, <2>3, <2>4, <2>5 DEF Next
<1>2. QED
  BY <1>1, QueueInit, PTL DEF Spec

\* A set of at most one position has as many members as it should.
LEMMA AtMostOne ==
  ASSUME NEW S, \A i, j \in S : i = j
  PROVE  /\ Cardinality(S) \in {0, 1}
         /\ Cardinality(S) = 1 <=> S # {}
<1>1. CASE S = {}
  BY <1>1, FS_EmptySet
<1>2. CASE S # {}
  <2>1. PICK i \in S : S = {i}
    BY <1>2
  <2>2. QED
    BY <1>2, <2>1, FS_Singleton
<1>3. QED
  BY <1>1, <1>2

\* The counts of ExactlyOnce are those of places that exclude each other.
LEMMA PlacesCounted ==
  ASSUME QueueInv
  PROVE  ExactlyOnce
<1>1. ASSUME NEW e \in 1..sent
      PROVE  LET places ==
                   writes[e]
                   + Cardinality({i \in 0..(unsent_data - 1) :
                                    data_to_send[i] = e})
                   + (IF ecur = e THEN 1 ELSE 0)
                   + Cardinality({i \in 1..Len(inbox) : inbox[i] = e})
             IN  places <= 1 /\ (places = 1 \/ e \in NoText)
  <2> DEFINE B == {i \in 0..(unsent_data - 1) : data_to_send[i] = e}
             I == {i \in 1..Len(inbox) : inbox[i] = e}
  <2>1. e \in Events
    BY BufferParts
  <2>2. writes[e] \in {0, 1}
    <3>1. writes[e] \in Nat /\ writes[e] <= 1
      BY <2>1 DEF QueueInv, TypeOK, Distinct
    <3>2. QED
      BY <3>1
  <2>3. /\ Cardinality(B) \in {0, 1}
        /\ Cardinality(B) = 1 <=> InBuffer(e)
    <3>1. (\A i, j \in B : i = j) /\ (B # {} <=> InBuffer(e))
      BY DEF QueueInv, Distinct, InBuffer
    <3>2. QED
      BY <3>1, AtMostOne
  <2>4. /\ Cardinality(I) \in {0, 1}
        /\ Cardinality(I) = 1 <=> InInbox(e)
    <3>1. (\A i, j \in I : i = j) /\ (I # {} <=> InInbox(e))
      BY DEF QueueInv, Distinct, InInbox
    <3>2. QED
      BY <3>1, AtMostOne
  <2>5. /\ writes[e] > 0 => ~InBuffer(e) /\ ecur # e /\ ~InInbox(e)
        /\ InBuffer(e) => ecur # e /\ ~InInbox(e)
        /\ ecur = e => ~InInbox(e)
        /\ e \notin NoText => \/ writes[e] > 0 \/ InBuffer(e)
                            \/ ecur = e \/ InInbox(e)
    BY <2>1 DEF QueueInv, Apart, Somewhere
  <2> HIDE DEF B, I
  <2>6. LET places == writes[e] + Cardinality(B)
                      + (IF ecur = e THEN 1 ELSE 0) + Cardinality(I)
        IN  places <= 1 /\ (places = 1 \/ e \in NoText)
    BY <2>2, <2>3, <2>4, <2>5
  <2>7. QED
    BY <2>6 DEF B, I
<1>2. QED
  BY <1>1 DEF ExactlyOnce

\* No event of the core is written twice or in two places, and none whose data is
\* UTF-8 is lost, whatever the two threads do at the same time and however many
\* events there are.
THEOREM BridgeKeepsEvents == Spec => []BridgeInv
<1>1. QueueInv => BridgeInv
  BY PlacesCounted DEF QueueInv, BridgeInv
<1>2. QED
  BY <1>1, QueuesKept, PTL
=============================================================================

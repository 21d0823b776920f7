------------------------ MODULE FileTransfer_proofs ------------------------
(***************************************************************************)
(* What holds of the file transfers for every number of files and slots:    *)
(* locks have owners and downloads have rows however the threads and the    *)
(* handlers interleave; and while the uploads of a node end before its next *)
(* message is handled, the slots are in order, so that a download gets the  *)
(* data it is named after and no file is used after it was closed.          *)
(***************************************************************************)
EXTENDS FileTransfer, SequenceTheorems, FiniteSetTheorems,
        WellFoundedInduction, TLAPS

RowT == [sha : Files, ready : 0..1]

\* TypeOK with what it leaves open: rows and channels are sequences, and an
\* upload that has read holds what it read.
Typed ==
  /\ slots \in [Nodes -> [Slot -> FileT]]
  /\ uploads \subseteq Upload
  /\ \A u \in uploads : u.pc # "read" => u.buf \in Handles
  /\ rows \in [Nodes -> Seq(RowT)]
  /\ \A n \in Nodes : Len(rows[n]) <= MaxTransfers
  /\ disk \in [Nodes -> [Files -> Handles \cup {NoHandle}]]
  /\ chan \in [Nodes -> Seq(Messages)]
  /\ requested \subseteq setup.wanted
  /\ status \in {"ok", "undefined"}
  /\ setup \in Setups

\* The file an upload was started with.
OwnFile(u) == <<IF u.type = "Metadata" THEN "meta" ELSE "data", u.file>>

\* What an upload finds in its slot s is what it was given, until it has
\* cleared it, and it has read that.
Finds(u, s) ==
  /\ u.pc # "read" => u.buf = OwnFile(u)
  /\ u.type = "FilePart" => s.sha = u.file
  /\ IF u.type = "Metadata" /\ u.pc = "unlock"
     THEN s.file = NoHandle /\ s.sha = NoFile
     ELSE s.file = OwnFile(u)

\* A slot s that no upload uses is empty or holds the destination of the
\* download it is named after, if this one could be opened.
AtRest(s, unopenable) ==
  \/ s.sha = NoFile /\ s.file = NoHandle
  \/ s.sha \in Files /\ s.file = <<"dest", s.sha>>
  \/ s.sha \in Files /\ s.file = NoHandle /\ unopenable # {}

\* A message carries what its type and its name say.
Truthful(msg) ==
  /\ msg.type = "Metadata" => msg.data[1] = "meta"
  /\ msg.type = "FilePart" => msg.sha \in Files /\ msg.data = <<"data", msg.sha>>

\* A node has one upload at a time, which has its slot to itself; the other
\* slots are at rest.
OneUpload == \A u, v \in uploads : u.node = v.node => u = v
SlotKept == \A u \in uploads : Finds(u, SlotOf(u))
SlotsInOrder == \A n \in Nodes, i \in Slot :
                  \/ \E u \in uploads : u.node = n /\ u.slot = i
                  \/ AtRest(slots[n][i], setup.unopenable)
MessagesTrue == \A n \in Nodes : \A k \in 1..Len(chan[n]) : Truthful(chan[n][k])

OnTime == OneUpload /\ SlotKept /\ SlotsInOrder /\ MessagesTrue

\* What prompt uploads give.
Prompt == setup.prompt => OnTime

\* The inductive invariant.
TransferInv == /\ Typed /\ LocksHaveOwners /\ RowFound
               /\ Prompt /\ ContentIntact /\ FilesOpen

-----------------------------------------------------------------------------
\* Facts about nodes, slots and channels

\* The other node is another node.
LEMMA OtherNode ==
  ASSUME NEW n \in Nodes
  PROVE  Other(n) \in Nodes /\ Other(n) # n
<1>1. \E m \in Nodes : m # n
  <2>1. SUFFICES ASSUME \A m \in Nodes : m = n
                 PROVE  FALSE
    OBVIOUS
  <2>2. Nodes = {n}
    BY <2>1
  <2>3. Cardinality(Nodes) = 1
    BY <2>2, FS_Singleton
  <2>4. QED
    BY <2>3, NodesAssumption
<1>2. QED
  BY <1>1 DEF Other

\* The first of some slots is one of them.
LEMMA LeastSlot ==
  ASSUME NEW S \in SUBSET Nat, S # {}
  PROVE  Least(S) \in S
<1>1. PICK m \in S : \A k \in S : <<k, m>> \notin OpToRel(<, Nat)
  BY NatLessThanWellFounded, WFMin
<1>2. OpToRel(<, Nat) = {ss \in Nat \X Nat : ss[1] < ss[2]}
  BY DEF OpToRel
<1>3. ASSUME NEW k \in S, k < m
      PROVE  FALSE
  <2>1. <<k, m>> \in {ss \in Nat \X Nat : ss[1] < ss[2]}
    BY <1>3
  <2>2. QED
    BY <1>1, <1>2, <2>1
<1>4. \A k \in S : k \in Nat /\ m \in Nat
  OBVIOUS
<1>5. \E i \in S : \A j \in S : i <= j
  BY <1>3, <1>4
<1>6. QED
  BY <1>5 DEF Least

\* A new transfer gets a slot that nobody has locked.
LEMMA FreeSlot ==
  ASSUME NEW n \in Nodes, FreeSlots(n) # {}
  PROVE  Least(FreeSlots(n)) \in Slot /\ ~slots[n][Least(FreeSlots(n))].locked
<1>1. FreeSlots(n) \in SUBSET Nat
  BY TransfersAssumption DEF FreeSlots, Slot
<1>2. Least(FreeSlots(n)) \in FreeSlots(n)
  BY <1>1, LeastSlot
<1>3. QED
  BY <1>2 DEF FreeSlots

\* The slot found for a file is named after it.
LEMMA NamedSlot ==
  ASSUME NEW n \in Nodes, NEW f, SlotsOf(n, f) # {}
  PROVE  Least(SlotsOf(n, f)) \in Slot /\ slots[n][Least(SlotsOf(n, f))].sha = f
<1>1. SlotsOf(n, f) \in SUBSET Nat
  BY TransfersAssumption DEF SlotsOf, Slot
<1>2. Least(SlotsOf(n, f)) \in SlotsOf(n, f)
  BY <1>1, LeastSlot
<1>3. QED
  BY <1>2 DEF SlotsOf

\* A message that is received is the oldest, and has the fields of its type.
LEMMA Received ==
  ASSUME Typed, NEW n \in Nodes, NEW t, Receives(n, t)
  PROVE  /\ Msg(n) \in Messages /\ Msg(n).type = t /\ status = "ok"
         /\ Msg(n) = chan[n][1] /\ 1 \in 1..Len(chan[n])
         /\ t \in {"RequestFileTransfer", "RequestFilePart"} =>
              Msg(n).sha \in Files
         /\ t = "Metadata" => Msg(n).data \in Handles
         /\ t = "FilePart" => /\ Msg(n).data \in Handles
                              /\ Msg(n).sha \in Files \cup {NoFile}
<1>1. chan[n] \in Seq(Messages) /\ chan[n] # <<>>
  BY DEF Typed, Receives
<1>2. Len(chan[n]) \in Nat \ {0}
  BY <1>1, EmptySeq
<1>3. Head(chan[n]) = chan[n][1] /\ 1 \in 1..Len(chan[n])
  BY <1>1, <1>2
<1>4. Head(chan[n]) \in Messages
  BY <1>1, <1>3
<1>5. Msg(n).type = t /\ status = "ok"
  BY DEF Receives, Msg
<1>6. QED
  BY <1>3, <1>4, <1>5 DEF Msg, Messages

\* Receiving a message removes it and no other.
LEMMA Taken ==
  ASSUME Typed, NEW n \in Nodes, NEW t, Receives(n, t), chan' = Take(n)
  PROVE  /\ chan' \in [Nodes -> Seq(Messages)]
         /\ \A m \in Nodes : \A k \in 1..Len(chan'[m]) :
              \E j \in 1..Len(chan[m]) : chan'[m][k] = chan[m][j]
<1>1. chan \in [Nodes -> Seq(Messages)] /\ chan[n] # <<>>
  BY DEF Typed, Receives
<1>2. /\ Tail(chan[n]) \in Seq(Messages)
      /\ Len(Tail(chan[n])) = Len(chan[n]) - 1
      /\ \A i \in 1..Len(Tail(chan[n])) : Tail(chan[n])[i] = chan[n][i + 1]
      /\ Len(chan[n]) \in Nat
  BY <1>1, HeadTailProperties, LenProperties
<1>3. \A m \in Nodes : chan'[m] = IF m = n THEN Tail(chan[n]) ELSE chan[m]
  BY <1>1 DEF Take
<1>4. chan' \in [Nodes -> Seq(Messages)]
  BY <1>1, <1>2 DEF Take
<1>5. ASSUME NEW m \in Nodes, NEW k \in 1..Len(chan'[m])
      PROVE  \E j \in 1..Len(chan[m]) : chan'[m][k] = chan[m][j]
  <2>1. CASE m = n
    <3>1. chan'[n] = Tail(chan[n]) /\ k \in 1..Len(Tail(chan[n]))
      BY <1>3, <2>1
    <3>2. k + 1 \in 1..Len(chan[n])
      BY <1>2, <3>1
    <3>3. chan'[n][k] = chan[n][k + 1]
      BY <1>2, <3>1
    <3>4. QED
      BY <2>1, <3>2, <3>3
  <2>2. CASE m # n
    BY <1>3, <2>2
  <2>3. QED
    BY <2>1, <2>2
<1>6. QED
  BY <1>4, <1>5

\* Sending a message adds it to the channel of a node and nothing else.
LEMMA Sent ==
  ASSUME Typed, NEW n \in Nodes, NEW msg \in Messages,
         chan' = [chan EXCEPT ![n] = Append(@, msg)]
  PROVE  /\ chan' \in [Nodes -> Seq(Messages)]
         /\ \A m \in Nodes : \A k \in 1..Len(chan'[m]) :
              \/ \E j \in 1..Len(chan[m]) : chan'[m][k] = chan[m][j]
              \/ chan'[m][k] = msg
<1>1. chan \in [Nodes -> Seq(Messages)]
  BY DEF Typed
<1>2. /\ Append(chan[n], msg) \in Seq(Messages)
      /\ Len(Append(chan[n], msg)) = Len(chan[n]) + 1
      /\ \A i \in 1..Len(chan[n]) : Append(chan[n], msg)[i] = chan[n][i]
      /\ Append(chan[n], msg)[Len(chan[n]) + 1] = msg
      /\ Len(chan[n]) \in Nat
  BY <1>1, AppendProperties, LenProperties
<1>3. \A m \in Nodes : chan'[m] = IF m = n THEN Append(chan[n], msg) ELSE chan[m]
  BY <1>1
<1>4. chan' \in [Nodes -> Seq(Messages)]
  BY <1>1, <1>2
<1>5. ASSUME NEW m \in Nodes, NEW k \in 1..Len(chan'[m])
      PROVE  \/ \E j \in 1..Len(chan[m]) : chan'[m][k] = chan[m][j]
             \/ chan'[m][k] = msg
  <2>1. CASE m = n
    <3>1. k \in 1..Len(chan[n]) \/ k = Len(chan[n]) + 1
      BY <1>2, <1>3, <2>1
    <3>2. QED
      BY <1>2, <1>3, <2>1, <3>1
  <2>2. CASE m # n
    BY <1>3, <2>2
  <2>3. QED
    BY <2>1, <2>2
<1>6. QED
  BY <1>4, <1>5

\* A handler that answers does both.
LEMMA TakenAndSent ==
  ASSUME Typed, NEW n \in Nodes, NEW t, Receives(n, t), NEW msg \in Messages,
         chan' = TakeAndSend(n, msg)
  PROVE  /\ chan' \in [Nodes -> Seq(Messages)]
         /\ \A m \in Nodes : \A k \in 1..Len(chan'[m]) :
              \/ \E j \in 1..Len(chan[m]) : chan'[m][k] = chan[m][j]
              \/ chan'[m][k] = msg
<1> DEFINE o == Other(n)
<1>1. chan \in [Nodes -> Seq(Messages)] /\ chan[n] # <<>>
  BY DEF Typed, Receives
<1>2. o \in Nodes /\ o # n
  BY OtherNode
<1>3. /\ Tail(chan[n]) \in Seq(Messages)
      /\ Len(Tail(chan[n])) = Len(chan[n]) - 1
      /\ \A i \in 1..Len(Tail(chan[n])) : Tail(chan[n])[i] = chan[n][i + 1]
      /\ Len(chan[n]) \in Nat
  BY <1>1, HeadTailProperties, LenProperties
<1>4. /\ Append(chan[o], msg) \in Seq(Messages)
      /\ Len(Append(chan[o], msg)) = Len(chan[o]) + 1
      /\ \A i \in 1..Len(chan[o]) : Append(chan[o], msg)[i] = chan[o][i]
      /\ Append(chan[o], msg)[Len(chan[o]) + 1] = msg
      /\ Len(chan[o]) \in Nat
  BY <1>1, <1>2, AppendProperties, LenProperties
<1>5. \A m \in Nodes : chan'[m] = IF m = o THEN Append(chan[o], msg)
                                  ELSE IF m = n THEN Tail(chan[n]) ELSE chan[m]
  BY <1>1, <1>2 DEF TakeAndSend
<1>6. chan' \in [Nodes -> Seq(Messages)]
  BY <1>1, <1>2, <1>3, <1>4 DEF TakeAndSend
<1> HIDE DEF o
<1>7. ASSUME NEW m \in Nodes, NEW k \in 1..Len(chan'[m])
      PROVE  \/ \E j \in 1..Len(chan[m]) : chan'[m][k] = chan[m][j]
             \/ chan'[m][k] = msg
  <2>1. CASE m = o
    <3>1. chan'[o] = Append(chan[o], msg) /\ k \in 1..Len(Append(chan[o], msg))
      BY <1>5, <2>1
    <3>2. k \in 1..Len(chan[o]) \/ k = Len(chan[o]) + 1
      BY <1>4, <3>1
    <3>3. QED
      BY <1>4, <2>1, <3>1, <3>2
  <2>2. CASE m = n
    <3>1. chan'[n] = Tail(chan[n]) /\ k \in 1..Len(Tail(chan[n]))
      BY <1>2, <1>5, <2>2
    <3>2. k + 1 \in 1..Len(chan[n])
      BY <1>3, <3>1
    <3>3. chan'[n][k] = chan[n][k + 1]
      BY <1>3, <3>1
    <3>4. QED
      BY <2>2, <3>2, <3>3
  <2>3. CASE m # o /\ m # n
    BY <1>5, <2>3
  <2>4. QED
    BY <2>1, <2>2, <2>3
<1>8. QED
  BY <1>6, <1>7

\* The rows of a node are what they were, in place, and any new ones follow.
RowsStay ==
  \A n \in Nodes :
    /\ Len(rows[n]) \in Nat /\ Len(rows'[n]) \in Nat
    /\ Len(rows[n]) <= Len(rows'[n]) /\ Len(rows'[n]) <= MaxTransfers
    /\ \A k \in 1..Len(rows[n]) : rows'[n][k].sha = rows[n][k].sha

\* The rows r of a node have one for the file, or no room for one.
Listed(r, f) == \/ \E k \in 1..Len(r) : r[k].sha = f
                \/ Len(r) = MaxTransfers

\* filetransfer_add leaves a row for the file, if there is room.
LEMMA RowAdded ==
  ASSUME Typed, NEW n \in Nodes, NEW f \in Files, FiletransferAdd(n, f)
  PROVE  /\ rows' \in [Nodes -> Seq(RowT)] /\ RowsStay
         /\ Listed(rows'[n], f)
<1> DEFINE r == [sha |-> f, ready |-> 0]
<1>0. r \in RowT /\ r.sha = f
  BY DEF RowT
<1>1. /\ rows \in [Nodes -> Seq(RowT)] /\ MaxTransfers \in Nat
      /\ \A m \in Nodes : Len(rows[m]) \in Nat /\ Len(rows[m]) <= MaxTransfers
  BY TransfersAssumption, LenProperties DEF Typed
<1>a. FiletransferAdd(n, f) <=>
        rows' = [rows EXCEPT ![n] = IF Len(@) < MaxTransfers
                                    THEN Append(@, r) ELSE @]
  BY DEF FiletransferAdd
<1> HIDE DEF r
<1>2. /\ Append(rows[n], r) \in Seq(RowT)
      /\ Len(Append(rows[n], r)) = Len(rows[n]) + 1
      /\ \A i \in 1..Len(rows[n]) : Append(rows[n], r)[i] = rows[n][i]
      /\ Append(rows[n], r)[Len(rows[n]) + 1] = r
  BY <1>0, <1>1, AppendProperties
<1>3. CASE Len(rows[n]) < MaxTransfers
  <2>1. \A m \in Nodes : rows'[m] = IF m = n THEN Append(rows[n], r) ELSE rows[m]
    BY <1>1, <1>3, <1>a
  <2>2. rows' \in [Nodes -> Seq(RowT)]
    BY <1>1, <1>2, <1>3, <1>a
  <2>8. rows'[n] = Append(rows[n], r)
    BY <2>1
  <2>3. RowsStay
    <3>1. SUFFICES ASSUME NEW m \in Nodes
                   PROVE  /\ Len(rows[m]) \in Nat /\ Len(rows'[m]) \in Nat
                          /\ Len(rows[m]) <= Len(rows'[m])
                          /\ Len(rows'[m]) <= MaxTransfers
                          /\ \A k \in 1..Len(rows[m]) :
                               rows'[m][k].sha = rows[m][k].sha
      BY DEF RowsStay
    <3>2. CASE m = n
      BY <1>1, <1>2, <1>3, <2>8, <3>2
    <3>3. CASE m # n
      BY <1>1, <2>1, <3>3
    <3>4. QED
      BY <3>2, <3>3
  <2>4. Len(rows[n]) + 1 \in 1..Len(rows'[n])
    BY <1>1, <1>2, <2>8
  <2>5. rows'[n][Len(rows[n]) + 1].sha = f
    BY <1>0, <1>2, <2>8
  <2>6. Listed(rows'[n], f)
    BY <2>4, <2>5 DEF Listed
  <2>7. QED
    BY <2>2, <2>3, <2>6
<1>4. CASE ~(Len(rows[n]) < MaxTransfers)
  <2>1. rows' = rows
    BY <1>1, <1>4, <1>a
  <2>2. Len(rows[n]) = MaxTransfers
    BY <1>1, <1>4
  <2>3. RowsStay
    BY <1>1, <2>1 DEF RowsStay
  <2>4. QED
    BY <1>1, <2>1, <2>2, <2>3 DEF Listed
<1>5. QED
  BY <1>3, <1>4

\* filetransfer_part_ready changes no name.
LEMMA RowReady ==
  ASSUME Typed, NEW n \in Nodes, NEW f, FiletransferPartReady(n, f)
  PROVE  rows' \in [Nodes -> Seq(RowT)] /\ RowsStay
<1>1. /\ rows \in [Nodes -> Seq(RowT)] /\ MaxTransfers \in Nat
      /\ \A m \in Nodes : Len(rows[m]) \in Nat /\ Len(rows[m]) <= MaxTransfers
  BY TransfersAssumption, LenProperties DEF Typed
<1>2. CASE RowsOf(n, f) = {}
  BY <1>1, <1>2 DEF FiletransferPartReady, RowsStay
<1>3. CASE RowsOf(n, f) # {}
  <2> DEFINE k == Least(RowsOf(n, f))
             e == [rows[n][k] EXCEPT !.ready = 1]
             q == [rows[n] EXCEPT ![k] = e]
  <2>1. k \in 1..Len(rows[n])
    <3>1. RowsOf(n, f) \in SUBSET Nat
      BY <1>1 DEF RowsOf
    <3>2. k \in RowsOf(n, f)
      BY <1>3, <3>1, LeastSlot
    <3>3. QED
      BY <3>2 DEF RowsOf
  <2> HIDE DEF k
  <2>2. rows[n][k] \in RowT
    BY <1>1, <2>1, ElementOfSeq
  <2>3. e \in RowT /\ e.sha = rows[n][k].sha
    BY <2>2 DEF RowT
  <2>4. rows' = [rows EXCEPT ![n] = q]
    BY <1>3 DEF FiletransferPartReady, k
  <2> HIDE DEF e
  <2>5. /\ q \in Seq(RowT) /\ Len(q) = Len(rows[n])
        /\ \A i \in 1..Len(rows[n]) : q[i] = IF i = k THEN e ELSE rows[n][i]
    BY <1>1, <2>1, <2>3, ExceptSeq
  <2>6. \A i \in 1..Len(rows[n]) : q[i].sha = rows[n][i].sha
    BY <2>3, <2>5
  <2> HIDE DEF q
  <2>7. rows' \in [Nodes -> Seq(RowT)]
    BY <1>1, <2>4, <2>5
  <2>8. \A m \in Nodes : rows'[m] = IF m = n THEN q ELSE rows[m]
    BY <1>1, <2>4
  <2>9. RowsStay
    BY <1>1, <2>5, <2>6, <2>8 DEF RowsStay
  <2>10. QED
    BY <2>7, <2>9
<1>4. QED
  BY <1>2, <1>3

-----------------------------------------------------------------------------
\* Types

\* What an action leaves alone keeps its type.
LEMMA TypedSame ==
  ASSUME Typed
  PROVE  /\ slots' = slots => slots' \in [Nodes -> [Slot -> FileT]]
         /\ uploads' = uploads =>
              /\ uploads' \subseteq Upload
              /\ \A u \in uploads' : u.pc # "read" => u.buf \in Handles
         /\ rows' = rows => /\ rows' \in [Nodes -> Seq(RowT)]
                            /\ \A n \in Nodes : Len(rows'[n]) <= MaxTransfers
         /\ disk' = disk => disk' \in [Nodes -> [Files -> Handles \cup {NoHandle}]]
         /\ chan' = chan => chan' \in [Nodes -> Seq(Messages)]
         /\ requested' = requested => requested' \subseteq setup.wanted
         /\ status' = status => status' \in {"ok", "undefined"}
BY DEF Typed

\* A slot that is replaced by a slot.
LEMMA SlotSet ==
  ASSUME Typed, NEW n \in Nodes, NEW i \in Slot, NEW t \in FileT,
         slots' = [slots EXCEPT ![n][i] = t]
  PROVE  /\ slots' \in [Nodes -> [Slot -> FileT]]
         /\ \A m \in Nodes, j \in Slot :
              slots'[m][j] = IF m = n /\ j = i THEN t ELSE slots[m][j]
BY DEF Typed

\* The threads go on as they are written, and a started thread is one.
LEMMA UploadsTyped ==
  ASSUME Typed, NEW U \in SUBSET uploads, NEW v \in Upload,
         v.pc # "read" => v.buf \in Handles,
         uploads' = U \cup {v}
  PROVE  /\ uploads' \subseteq Upload
         /\ \A u \in uploads' : u.pc # "read" => u.buf \in Handles
BY DEF Typed

\* A slot after CreateFileTransfer.
LEMMA Created ==
  ASSUME Typed, NEW n \in Nodes, NEW f \in Files, FreeSlots(n) # {},
         NEW h \in Handles \cup {NoHandle}, CreateFileTransfer(n, f, h)
  PROVE  /\ slots' \in [Nodes -> [Slot -> FileT]]
         /\ \A m \in Nodes, j \in Slot :
              slots'[m][j] = IF m = n /\ j = Least(FreeSlots(n))
                             THEN [locked |-> FALSE, sha |-> f, file |-> h]
                             ELSE slots[m][j]
<1>1. Least(FreeSlots(n)) \in Slot
  BY FreeSlot
<1>2. [locked |-> FALSE, sha |-> f, file |-> h] \in FileT
  BY DEF FileT
<1>3. QED
  BY ZenonT(40), <1>1, <1>2, SlotSet DEF CreateFileTransfer

\* What a slot consists of.
LEMMA Fields ==
  ASSUME Typed, NEW n \in Nodes, NEW i \in Slot
  PROVE  /\ slots[n][i] \in FileT
         /\ slots[n][i].locked \in BOOLEAN
         /\ slots[n][i].sha \in Files \cup {NoFile}
         /\ slots[n][i].file \in Handles \cup {NoHandle}
<1>1. slots[n][i] \in FileT
  BY DEF Typed
<1>2. QED
  BY <1>1 DEF FileT

\* Replacing a field of a slot.
LEMMA FieldSet ==
  ASSUME NEW s \in FileT
  PROVE  /\ \A h \in Handles \cup {NoHandle} :
              [s EXCEPT !.file = h] \in FileT
         /\ [s EXCEPT !.file = NoHandle, !.sha = NoFile] \in FileT
         /\ [s EXCEPT !.locked = FALSE] \in FileT
BY DEF FileT

\* A slot gets another file and keeps its name.
LEMMA FileSet ==
  ASSUME Typed, NEW n \in Nodes, NEW i \in Slot,
         NEW h \in Handles \cup {NoHandle},
         slots' = [slots EXCEPT ![n][i].file = h]
  PROVE  /\ slots' \in [Nodes -> [Slot -> FileT]]
         /\ \A m \in Nodes, j \in Slot :
              slots'[m][j] = IF m = n /\ j = i
                             THEN [slots[m][j] EXCEPT !.file = h]
                             ELSE slots[m][j]
<1> DEFINE t == [slots[n][i] EXCEPT !.file = h]
<1>1. t \in FileT
  BY Fields, FieldSet
<1>2. slots' = [slots EXCEPT ![n][i] = t]
  OBVIOUS
<1> HIDE DEF t
<1>3. slots' \in [Nodes -> [Slot -> FileT]]
  <2>1. [slots[n] EXCEPT ![i] = t] \in [Slot -> FileT]
    BY <1>1 DEF Typed
  <2>2. slots' = [slots EXCEPT ![n] = [slots[n] EXCEPT ![i] = t]]
    BY <1>2
  <2>3. QED
    BY <2>1, <2>2, Zenon DEF Typed
<1>4. ASSUME NEW m \in Nodes, NEW j \in Slot
      PROVE  slots'[m][j] = IF m = n /\ j = i THEN t ELSE slots[m][j]
  BY <1>2 DEF Typed
<1>5. QED
  BY <1>3, <1>4 DEF t

\* clear_file_transfer.
LEMMA Cleared ==
  ASSUME Typed, NEW u \in uploads, ClearTransfer(u)
  PROVE  /\ slots' \in [Nodes -> [Slot -> FileT]]
         /\ \A m \in Nodes, j \in Slot :
              slots'[m][j] = IF m = u.node /\ j = u.slot
                             THEN [slots[m][j] EXCEPT !.file = NoHandle,
                                                      !.sha = NoFile]
                             ELSE slots[m][j]
<1> DEFINE n == u.node
           i == u.slot
           t == [slots[n][i] EXCEPT !.file = NoHandle, !.sha = NoFile]
<1>1. n \in Nodes /\ i \in Slot
  BY DEF Typed, Upload
<1>2. t \in FileT
  BY <1>1, Fields, FieldSet
<1>3. slots' = [slots EXCEPT ![n][i] = t]
  BY <1>1 DEF ClearTransfer, Typed
<1> HIDE DEF t, n, i
<1>4. QED
  BY ZenonT(40), <1>1, <1>2, <1>3, SlotSet DEF t, n, i

\* unlock_file_transfer.
LEMMA Unlocked ==
  ASSUME Typed, NEW u \in uploads, UnlockTransfer(u)
  PROVE  /\ slots' \in [Nodes -> [Slot -> FileT]]
         /\ \A m \in Nodes, j \in Slot :
              slots'[m][j] = IF m = u.node /\ j = u.slot
                             THEN [slots[m][j] EXCEPT !.locked = FALSE]
                             ELSE slots[m][j]
<1> DEFINE n == u.node
           i == u.slot
           t == [slots[n][i] EXCEPT !.locked = FALSE]
<1>1. n \in Nodes /\ i \in Slot
  BY DEF Typed, Upload
<1>2. t \in FileT
  BY <1>1, Fields, FieldSet
<1>3. slots' = [slots EXCEPT ![n][i] = t]
  BY <1>1 DEF UnlockTransfer, Typed
<1> HIDE DEF t, n, i
<1>4. QED
  BY ZenonT(40), <1>1, <1>2, <1>3, SlotSet DEF t, n, i

\* A step of a thread that goes on.
LEMMA Stepped ==
  ASSUME Typed, NEW u \in uploads, NEW v, Step(u, v),
         v \in Upload, v.pc # "read" => v.buf \in Handles
  PROVE  /\ uploads' \subseteq Upload
         /\ \A w \in uploads' : w.pc # "read" => w.buf \in Handles
BY DEF Typed, Step

\* What an upload consists of, and its next step.
LEMMA UploadFields ==
  ASSUME Typed, NEW u \in uploads
  PROVE  /\ u \in Upload /\ u.node \in Nodes /\ u.slot \in Slot /\ u.file \in Files
         /\ u.type \in {"Metadata", "FilePart"}
         /\ \A p \in {"read", "send", "clear", "unlock"} :
              /\ [u EXCEPT !.pc = p] \in Upload
              /\ [u EXCEPT !.pc = p].buf = u.buf
              /\ \A b \in Handles : [u EXCEPT !.buf = b, !.pc = p] \in Upload
<1>1. u \in Upload
  BY DEF Typed
<1>2. \A p \in {"read", "send", "clear", "unlock"} :
        /\ [u EXCEPT !.pc = p] \in Upload
        /\ [u EXCEPT !.pc = p].buf = u.buf
        /\ \A b \in Handles : [u EXCEPT !.buf = b, !.pc = p] \in Upload
  BY <1>1 DEF Upload
<1>3. QED
  BY <1>1, <1>2 DEF Upload

\* The initial state.
LEMMA TypedInit == Init => Typed
<1> SUFFICES ASSUME Init PROVE Typed
  OBVIOUS
<1>1. Empty \in FileT
  BY DEF Empty, FileT
<1>2. slots \in [Nodes -> [Slot -> FileT]]
  BY <1>1 DEF Init
<1>3. rows \in [Nodes -> Seq(RowT)] /\ chan \in [Nodes -> Seq(Messages)]
  BY DEF Init
<1>4. \A n \in Nodes : Len(rows[n]) <= MaxTransfers
  BY TransfersAssumption, EmptySeq DEF Init
<1>5. uploads = {} /\ requested = {}
  BY DEF Init
<1>6. disk \in [Nodes -> [Files -> Handles \cup {NoHandle}]]
  BY DEF Init
<1>7. status = "ok" /\ setup \in Setups
  BY DEF Init
<1>8. QED
  BY <1>2, <1>3, <1>4, <1>5, <1>6, <1>7 DEF Typed

\* Every step keeps the types.
LEMMA TypedNext == Typed /\ [Next]_vars => Typed'
<1> SUFFICES ASSUME Typed, [Next]_vars PROVE Typed'
  OBVIOUS
<1> USE TypedSame
<1>s. setup' = setup /\ setup \in Setups
  BY DEF Next, vars, Typed
<1>1. ASSUME NEW f \in Files, Request(f)
      PROVE  Typed'
  <2> DEFINE msg == [type |-> "RequestFileTransfer", sha |-> f]
  <2>1. msg \in Messages /\ Owner[f] \in Nodes
    BY OwnerAssumption DEF Messages
  <2>2. chan' = [chan EXCEPT ![Owner[f]] = Append(@, msg)]
    BY <1>1 DEF Request
  <2> HIDE DEF msg
  <2>3. chan' \in [Nodes -> Seq(Messages)]
    BY <2>1, <2>2, Sent
  <2>4. requested' \subseteq setup'.wanted
    BY <1>1, <1>s DEF Request, Typed
  <2>5. QED
    BY <1>1, <1>s, <2>3, <2>4 DEF Request, Typed
<1>2. ASSUME NEW n \in Nodes, HandleFileTransfer(n)
      PROVE  Typed'
  <2>1. Receives(n, "RequestFileTransfer") /\ chan' = Take(n)
    BY <1>2 DEF HandleFileTransfer
  <2>2. chan' \in [Nodes -> Seq(Messages)] /\ Msg(n).sha \in Files
    BY <2>1, Taken, Received
  <2>3. CASE UNCHANGED <<slots, uploads>>
    BY <1>2, <1>s, <2>2, <2>3 DEF HandleFileTransfer, Typed
  <2>4. CASE ~UNCHANGED <<slots, uploads>>
    <3> DEFINE f == Msg(n).sha
               i == Least(FreeSlots(n))
               v == [node |-> n, type |-> "Metadata", slot |-> i,
                     file |-> f, buf |-> NoHandle, pc |-> "read"]
               h == <<"meta", f>>
    <3>1. /\ FreeSlots(n) # {} /\ slots' = [slots EXCEPT ![n][i].file = h]
          /\ uploads' = uploads \cup {v}
      BY <1>2, <2>4 DEF HandleFileTransfer
    <3>2. i \in Slot
      BY <3>1, FreeSlot
    <3>3. h \in Handles
      BY <2>2 DEF Handles
    <3>4. v \in Upload /\ v.pc = "read"
      BY <2>2, <3>2 DEF Upload
    <3> HIDE DEF v, h, i
    <3>5. slots' \in [Nodes -> [Slot -> FileT]]
      BY <3>1, <3>2, <3>3, FileSet
    <3>6. /\ uploads' \subseteq Upload
          /\ \A u \in uploads' : u.pc # "read" => u.buf \in Handles
      BY <3>1, <3>4, UploadsTyped
    <3>7. QED
      BY <1>2, <1>s, <2>2, <3>5, <3>6 DEF HandleFileTransfer, Typed
  <2>5. QED
    BY <2>3, <2>4
<1>3. ASSUME NEW n \in Nodes, HandleMetadata(n)
      PROVE  Typed'
  <2> DEFINE f == Msg(n).data[2]
             msg == [type |-> "RequestFilePart", sha |-> f]
             h == <<"dest", f>>
  <2>1. Receives(n, "Metadata") /\ FiletransferAdd(n, f)
    BY <1>3 DEF HandleMetadata
  <2>2. f \in Files
    BY <2>1, Received DEF Handles
  <2>3. msg \in Messages /\ h \in Handles
    BY <2>2 DEF Messages, Handles
  <2>4. \/ FreeSlots(n) = {} /\ chan' = Take(n) /\ slots' = slots
        \/ /\ FreeSlots(n) # {} /\ chan' = Take(n)
           /\ CreateFileTransfer(n, f, NoHandle)
        \/ /\ FreeSlots(n) # {} /\ chan' = TakeAndSend(n, msg)
           /\ CreateFileTransfer(n, f, h)
    BY <1>3 DEF HandleMetadata
  <2> HIDE DEF f, msg, h
  <2>5. chan' \in [Nodes -> Seq(Messages)]
    BY <2>1, <2>3, <2>4, Taken, TakenAndSent
  <2>6. slots' \in [Nodes -> [Slot -> FileT]]
    BY <2>2, <2>3, <2>4, Created
  <2>7. /\ rows' \in [Nodes -> Seq(RowT)]
        /\ \A m \in Nodes : Len(rows'[m]) <= MaxTransfers
    BY <2>1, <2>2, RowAdded DEF RowsStay
  <2>8. QED
    BY <1>3, <1>s, <2>5, <2>6, <2>7 DEF HandleMetadata, Typed
<1>4. ASSUME NEW n \in Nodes, HandleFilePartRequest(n)
      PROVE  Typed'
  <2>1. Receives(n, "RequestFilePart") /\ chan' = Take(n)
    BY <1>4 DEF HandleFilePartRequest
  <2>2. chan' \in [Nodes -> Seq(Messages)] /\ Msg(n).sha \in Files
    BY <2>1, Taken, Received
  <2>3. CASE UNCHANGED <<slots, uploads>>
    BY <1>4, <1>s, <2>2, <2>3 DEF HandleFilePartRequest, Typed
  <2>4. CASE ~UNCHANGED <<slots, uploads>>
    <3> DEFINE f == Msg(n).sha
               i == Least(FreeSlots(n))
               v == [node |-> n, type |-> "FilePart", slot |-> i,
                     file |-> f, buf |-> NoHandle, pc |-> "read"]
               t == [locked |-> TRUE, sha |-> f, file |-> <<"data", f>>]
    <3>1. /\ FreeSlots(n) # {} /\ slots' = [slots EXCEPT ![n][i] = t]
          /\ uploads' = uploads \cup {v}
      BY <1>4, <2>4 DEF HandleFilePartRequest
    <3>2. i \in Slot
      BY <3>1, FreeSlot
    <3>3. t \in FileT
      BY <2>2 DEF Handles, FileT
    <3>4. v \in Upload /\ v.pc = "read"
      BY <2>2, <3>2 DEF Upload
    <3> HIDE DEF v, t, i
    <3>5. slots' \in [Nodes -> [Slot -> FileT]]
      BY <3>1, <3>2, <3>3, SlotSet
    <3>6. /\ uploads' \subseteq Upload
          /\ \A u \in uploads' : u.pc # "read" => u.buf \in Handles
      BY <3>1, <3>4, UploadsTyped
    <3>7. QED
      BY <1>4, <1>s, <2>2, <3>5, <3>6 DEF HandleFilePartRequest, Typed
  <2>5. QED
    BY <2>3, <2>4
<1>5. ASSUME NEW n \in Nodes, HandleFilePart(n)
      PROVE  Typed'
  <2>1. Receives(n, "FilePart") /\ chan' = Take(n)
    BY <1>5 DEF HandleFilePart
  <2>2. chan' \in [Nodes -> Seq(Messages)] /\ Msg(n).data \in Handles
    BY <2>1, Taken, Received
  <2>3. CASE UNCHANGED <<slots, rows, disk>>
    BY <1>5, <1>s, <2>2, <2>3 DEF HandleFilePart, Typed
  <2>4. CASE ~UNCHANGED <<slots, rows, disk>>
    <3> DEFINE f == Msg(n).sha
               i == Least(SlotsOf(n, f))
               g == slots[n][i].file[2]
    <3>1. /\ SlotsOf(n, f) # {} /\ slots[n][i].file[1] = "dest"
          /\ disk' = [disk EXCEPT ![n][g] = Msg(n).data]
          /\ FiletransferPartReady(n, f)
          /\ slots' = slots \/ slots' = [slots EXCEPT ![n][i] = Empty]
      BY <1>5, <2>4 DEF HandleFilePart
    <3>2. i \in Slot
      BY <3>1, NamedSlot
    <3>3. slots[n][i].file \in Handles \cup {NoHandle}
      BY <3>2, Fields
    <3>4. g \in Files
      BY <3>1, <3>3 DEF Handles, NoHandle
    <3>5. Empty \in FileT
      BY DEF Empty, FileT
    <3> HIDE DEF i, g
    <3>6. slots' \in [Nodes -> [Slot -> FileT]]
      BY <3>1, <3>2, <3>5, SlotSet
    <3>7. disk' \in [Nodes -> [Files -> Handles \cup {NoHandle}]]
      BY <2>2, <3>1, <3>4 DEF Typed
    <3>8. /\ rows' \in [Nodes -> Seq(RowT)]
          /\ \A m \in Nodes : Len(rows'[m]) <= MaxTransfers
      BY <3>1, RowReady DEF RowsStay
    <3>9. QED
      BY <1>5, <1>s, <2>2, <3>6, <3>7, <3>8 DEF HandleFilePart, Typed
  <2>5. QED
    BY <2>3, <2>4
<1>6. ASSUME NEW n \in Nodes, MissingFile(n) \/ BadMessage(n)
      PROVE  Typed'
  BY <1>6, <1>s DEF MissingFile, BadMessage, Typed
<1>7. ASSUME NEW u \in uploads, ReadPart(u)
      PROVE  Typed'
  <2>1. SlotOf(u).file \in Handles
    BY <1>7, UploadFields, Fields DEF ReadPart, SlotOf
  <2> DEFINE v == [u EXCEPT !.buf = SlotOf(u).file, !.pc = "send"]
  <2>2. v \in Upload
    BY <2>1, UploadFields
  <2>3. v.buf = SlotOf(u).file
    BY ZenonT(40), <2>2, UploadFields DEF Upload
  <2>4. Step(u, v)
    BY <1>7 DEF ReadPart
  <2> HIDE DEF v
  <2>5. /\ uploads' \subseteq Upload
        /\ \A w \in uploads' : w.pc # "read" => w.buf \in Handles
    BY <2>1, <2>2, <2>3, <2>4, Stepped
  <2>6. QED
    BY <1>7, <1>s, <2>5 DEF ReadPart, Typed
<1>8. ASSUME NEW u \in uploads, SendPart(u)
      PROVE  Typed'
  <2> DEFINE msg == IF u.type = "Metadata"
                    THEN [type |-> "Metadata", data |-> u.buf]
                    ELSE [type |-> "FilePart", sha |-> SlotOf(u).sha,
                          data |-> u.buf]
             v == [u EXCEPT !.pc = IF u.type = "Metadata" THEN "clear"
                                   ELSE "unlock"]
  <2>1. u.pc = "send" /\ u.buf \in Handles
    BY <1>8 DEF SendPart, At, Typed
  <2>2. SlotOf(u).sha \in Files \cup {NoFile}
    BY UploadFields, Fields DEF SlotOf
  <2>3. msg \in Messages
    BY <2>1, <2>2 DEF Messages
  <2>4. v \in Upload
    BY UploadFields
  <2>5. v.buf = u.buf
    BY UploadFields
  <2>6. /\ chan' = [chan EXCEPT ![Other(u.node)] = Append(@, msg)]
        /\ Step(u, v)
    BY <1>8 DEF SendPart
  <2> HIDE DEF v, msg
  <2>7. chan' \in [Nodes -> Seq(Messages)]
    BY <2>3, <2>6, Sent, OtherNode, UploadFields
  <2>8. /\ uploads' \subseteq Upload
        /\ \A w \in uploads' : w.pc # "read" => w.buf \in Handles
    BY <2>1, <2>4, <2>5, <2>6, Stepped
  <2>9. QED
    BY <1>8, <1>s, <2>7, <2>8 DEF SendPart, Typed
<1>9. ASSUME NEW u \in uploads, ClearTransfer(u)
      PROVE  Typed'
  <2> DEFINE v == [u EXCEPT !.pc = "unlock"]
  <2>1. u.pc = "clear" /\ u.buf \in Handles
    BY <1>9 DEF ClearTransfer, At, Typed
  <2>2. v \in Upload /\ v.buf = u.buf
    BY UploadFields
  <2>3. uploads' = uploads \ {u} \/ Step(u, v)
    BY <1>9 DEF ClearTransfer
  <2> HIDE DEF v
  <2>4. /\ uploads' \subseteq Upload
        /\ \A w \in uploads' : w.pc # "read" => w.buf \in Handles
    BY <2>1, <2>2, <2>3, Stepped DEF Typed
  <2>5. slots' \in [Nodes -> [Slot -> FileT]]
    BY <1>9, Cleared
  <2>6. QED
    BY <1>9, <1>s, <2>4, <2>5 DEF ClearTransfer, Typed
<1>10. ASSUME NEW u \in uploads, UnlockTransfer(u)
      PROVE  Typed'
  <2> DEFINE v == [u EXCEPT !.pc = "clear"]
  <2>1. u.pc = "unlock" /\ u.buf \in Handles
    BY <1>10 DEF UnlockTransfer, At, Typed
  <2>2. v \in Upload /\ v.buf = u.buf
    BY UploadFields
  <2>3. uploads' = uploads \ {u} \/ Step(u, v)
    BY <1>10 DEF UnlockTransfer
  <2> HIDE DEF v
  <2>4. /\ uploads' \subseteq Upload
        /\ \A w \in uploads' : w.pc # "read" => w.buf \in Handles
    BY <2>1, <2>2, <2>3, Stepped DEF Typed
  <2>5. slots' \in [Nodes -> [Slot -> FileT]]
    BY <1>10, Unlocked
  <2>6. QED
    BY <1>10, <1>s, <2>4, <2>5 DEF UnlockTransfer, Typed
<1>11. ASSUME NEW u \in uploads, NullFile(u)
       PROVE  Typed'
  BY <1>11, <1>s DEF NullFile, Typed
<1>12. CASE UNCHANGED vars
  BY <1>12 DEF vars, Typed
<1>13. QED
  BY <1>1, <1>2, <1>3, <1>4, <1>5, <1>6, <1>7, <1>8, <1>9, <1>10, <1>11,
     <1>12 DEF Next, Handle, Run

\* The types of the specification.
LEMMA TypedOK == Typed => TypeOK
<1> SUFFICES ASSUME Typed PROVE TypeOK
  OBVIOUS
<1>1. \A n \in Nodes : \A i \in 1..Len(rows[n]) : rows[n][i] \in RowT
  BY ElementOfSeq DEF Typed
<1>2. \A n \in Nodes : \A i \in 1..Len(chan[n]) : chan[n][i] \in Messages
  BY ElementOfSeq DEF Typed
<1>3. QED
  BY <1>1, <1>2 DEF Typed, TypeOK, RowT

-----------------------------------------------------------------------------
\* Locks

\* The upload will unlock the slot.
Owns(w, n, i) == /\ w.node = n /\ w.slot = i
                 /\ w.type = "FilePart" /\ w.pc # "clear"

\* An upload that goes on stays with its slot.
LEMMA SteppedFields ==
  ASSUME Typed, NEW u \in uploads
  PROVE  /\ \A p \in {"read", "send", "clear", "unlock"} :
              LET v == [u EXCEPT !.pc = p]
              IN  /\ v.node = u.node /\ v.type = u.type /\ v.slot = u.slot
                  /\ v.file = u.file /\ v.buf = u.buf /\ v.pc = p
         /\ \A b \in Handles, p \in {"read", "send", "clear", "unlock"} :
              LET v == [u EXCEPT !.buf = b, !.pc = p]
              IN  /\ v.node = u.node /\ v.type = u.type /\ v.slot = u.slot
                  /\ v.file = u.file /\ v.buf = b /\ v.pc = p
<1>1. u \in Upload
  BY UploadFields
<1>2. QED
  BY <1>1 DEF Upload

\* Slots that are locked keep their owners if no slot is locked anew and every
\* owner goes on as one.
LEMMA OwnersKept ==
  ASSUME LocksHaveOwners,
         \A n \in Nodes, i \in Slot :
           slots'[n][i].locked = TRUE =>
             /\ slots[n][i].locked = TRUE
             /\ \A w \in uploads :
                  Owns(w, n, i) => \E v \in uploads' : Owns(v, n, i)
  PROVE  \A n \in Nodes, i \in Slot :
           slots'[n][i].locked = TRUE => \E v \in uploads' : Owns(v, n, i)
BY DEF LocksHaveOwners, Owns

\* No step leaves a locked slot without an owner.
LEMMA OwnersNext == Typed /\ LocksHaveOwners /\ [Next]_vars => LocksHaveOwners'
<1> SUFFICES ASSUME Typed, LocksHaveOwners, [Next]_vars
             PROVE  LocksHaveOwners'
  OBVIOUS
<1>1. ASSUME UNCHANGED <<slots, uploads>>
      PROVE  \A m \in Nodes, i \in Slot :
               slots'[m][i].locked = TRUE => \E v \in uploads' : Owns(v, m, i)
  BY <1>1, OwnersKept
<1>2. ASSUME NEW n \in Nodes, HandleFileTransfer(n), ~UNCHANGED <<slots, uploads>>
      PROVE  \A m \in Nodes, i \in Slot :
               slots'[m][i].locked = TRUE => \E v \in uploads' : Owns(v, m, i)
  <2>1. PICK v : /\ FreeSlots(n) # {} /\ uploads' = uploads \cup {v}
                 /\ slots' = [slots EXCEPT
                      ![n][Least(FreeSlots(n))].file = <<"meta", Msg(n).sha>>]
    BY <1>2 DEF HandleFileTransfer
  <2>2. <<"meta", Msg(n).sha>> \in Handles
    BY <1>2, Received DEF HandleFileTransfer, Handles
  <2>3. \A m \in Nodes, j \in Slot :
          slots'[m][j] = IF m = n /\ j = Least(FreeSlots(n))
                         THEN [slots[m][j] EXCEPT !.file = <<"meta", Msg(n).sha>>]
                         ELSE slots[m][j]
    BY <2>1, <2>2, FreeSlot, FileSet
  <2>4. \A m \in Nodes, j \in Slot : slots'[m][j].locked = slots[m][j].locked
    BY ZenonT(40), <2>3, Fields DEF FileT
  <2>5. QED
    BY <2>1, <2>4, OwnersKept
<1>3. ASSUME NEW n \in Nodes, HandleMetadata(n), ~UNCHANGED <<slots, uploads>>
      PROVE  \A m \in Nodes, i \in Slot :
               slots'[m][i].locked = TRUE => \E v \in uploads' : Owns(v, m, i)
  <2>1. PICK h \in Handles \cup {NoHandle} :
          FreeSlots(n) # {} /\ CreateFileTransfer(n, Msg(n).data[2], h)
    <3>1. Msg(n).data[2] \in Files
      BY <1>3, Received DEF HandleMetadata, Handles
    <3>2. <<"dest", Msg(n).data[2]>> \in Handles
      BY <3>1 DEF Handles
    <3>3. QED
      BY <1>3, <3>2 DEF HandleMetadata
  <2>2. Msg(n).data[2] \in Files /\ uploads' = uploads
    BY <1>3, Received DEF HandleMetadata, Handles
  <2>3. \A m \in Nodes, j \in Slot :
          slots'[m][j] = IF m = n /\ j = Least(FreeSlots(n))
                         THEN [locked |-> FALSE, sha |-> Msg(n).data[2], file |-> h]
                         ELSE slots[m][j]
    BY <2>1, <2>2, Created
  <2>4. \A m \in Nodes, j \in Slot :
          slots'[m][j].locked = TRUE => slots[m][j].locked = TRUE
    BY <2>3
  <2>5. QED
    BY <2>2, <2>4, OwnersKept
<1>4. ASSUME NEW n \in Nodes, HandleFilePartRequest(n),
             ~UNCHANGED <<slots, uploads>>
      PROVE  \A m \in Nodes, i \in Slot :
               slots'[m][i].locked = TRUE => \E v \in uploads' : Owns(v, m, i)
  <2> DEFINE f == Msg(n).sha
             k == Least(FreeSlots(n))
             u == [node |-> n, type |-> "FilePart", slot |-> k,
                   file |-> f, buf |-> NoHandle, pc |-> "read"]
             t == [locked |-> TRUE, sha |-> f, file |-> <<"data", f>>]
  <2>1. /\ FreeSlots(n) # {} /\ slots' = [slots EXCEPT ![n][k] = t]
        /\ uploads' = uploads \cup {u}
    BY <1>4 DEF HandleFilePartRequest
  <2>2. k \in Slot /\ f \in Files
    BY <1>4, <2>1, FreeSlot, Received DEF HandleFilePartRequest
  <2>3. t \in FileT /\ Owns(u, n, k)
    BY <2>2 DEF FileT, Handles, Owns
  <2> HIDE DEF t, u, k
  <2>4. \A m \in Nodes, j \in Slot :
          slots'[m][j] = IF m = n /\ j = k THEN t ELSE slots[m][j]
    BY <2>1, <2>2, <2>3, SlotSet
  <2>5. ASSUME NEW m \in Nodes, NEW i \in Slot, slots'[m][i].locked = TRUE
        PROVE  \E v \in uploads' : Owns(v, m, i)
    <3>1. CASE m = n /\ i = k
      BY <2>1, <2>3, <3>1
    <3>2. CASE ~(m = n /\ i = k)
      <4>1. slots[m][i].locked = TRUE
        BY <2>4, <2>5, <3>2
      <4>2. \E v \in uploads : Owns(v, m, i)
        BY <4>1 DEF LocksHaveOwners, Owns
      <4>3. QED
        BY <2>1, <4>2
    <3>3. QED
      BY <3>1, <3>2
  <2>6. QED
    BY <2>5
<1>5. ASSUME NEW n \in Nodes, HandleFilePart(n), ~UNCHANGED <<slots, uploads>>
      PROVE  \A m \in Nodes, i \in Slot :
               slots'[m][i].locked = TRUE => \E v \in uploads' : Owns(v, m, i)
  <2> DEFINE k == Least(SlotsOf(n, Msg(n).sha))
  <2>1. /\ SlotsOf(n, Msg(n).sha) # {} /\ uploads' = uploads
        /\ slots' = [slots EXCEPT ![n][k] = Empty]
    BY <1>5 DEF HandleFilePart
  <2>2. k \in Slot
    BY <2>1, NamedSlot
  <2>3. Empty \in FileT /\ Empty.locked = FALSE
    BY DEF Empty, FileT
  <2> HIDE DEF k
  <2>4. \A m \in Nodes, j \in Slot :
          slots'[m][j] = IF m = n /\ j = k THEN Empty ELSE slots[m][j]
    BY <2>1, <2>2, <2>3, SlotSet
  <2>5. \A m \in Nodes, j \in Slot :
          slots'[m][j].locked = TRUE => slots[m][j].locked = TRUE
    BY <2>3, <2>4
  <2>6. QED
    BY <2>1, <2>5, OwnersKept
<1>6. ASSUME NEW u \in uploads, ReadPart(u) \/ SendPart(u)
      PROVE  \A m \in Nodes, i \in Slot :
               slots'[m][i].locked = TRUE => \E v \in uploads' : Owns(v, m, i)
  <2>1. PICK v : /\ Step(u, v)
                 /\ v.node = u.node /\ v.slot = u.slot /\ v.type = u.type
                 /\ u.type = "FilePart" => v.pc # "clear"
    <3>1. CASE ReadPart(u)
      <4>1. SlotOf(u).file \in Handles
        BY <3>1, UploadFields, Fields DEF ReadPart, SlotOf
      <4>2. Step(u, [u EXCEPT !.buf = SlotOf(u).file, !.pc = "send"])
        BY <3>1 DEF ReadPart
      <4>3. QED
        BY ZenonT(40), <4>1, <4>2, SteppedFields
    <3>2. CASE SendPart(u)
      <4>1. Step(u, [u EXCEPT !.pc = IF u.type = "Metadata" THEN "clear"
                                     ELSE "unlock"])
        BY <3>2 DEF SendPart
      <4>2. CASE u.type = "Metadata"
        BY <4>1, <4>2, SteppedFields
      <4>3. CASE u.type # "Metadata"
        BY <4>1, <4>3, SteppedFields
      <4>4. QED
        BY <4>2, <4>3
    <3>3. QED
      BY <1>6, <3>1, <3>2
  <2>2. slots' = slots /\ uploads' = (uploads \ {u}) \cup {v}
    BY <1>6, <2>1 DEF ReadPart, SendPart, Step
  <2>3. \A m \in Nodes, i \in Slot : \A w \in uploads :
          Owns(w, m, i) => \E x \in uploads' : Owns(x, m, i)
    BY <2>1, <2>2 DEF Owns
  <2>4. QED
    BY <2>2, <2>3, OwnersKept
<1>7. ASSUME NEW u \in uploads, ClearTransfer(u)
      PROVE  \A m \in Nodes, i \in Slot :
               slots'[m][i].locked = TRUE => \E v \in uploads' : Owns(v, m, i)
  <2>1. \A m \in Nodes, j \in Slot : slots'[m][j].locked = slots[m][j].locked
    <3>1. \A m \in Nodes, j \in Slot :
            slots'[m][j] = IF m = u.node /\ j = u.slot
                           THEN [slots[m][j] EXCEPT !.file = NoHandle,
                                                    !.sha = NoFile]
                           ELSE slots[m][j]
      BY <1>7, Cleared
    <3>2. QED
      BY <3>1, Fields DEF FileT
  <2>2. u.pc = "clear" /\ uploads \ {u} \subseteq uploads'
    BY <1>7 DEF ClearTransfer, At, Step
  <2>3. \A m \in Nodes, i \in Slot : \A w \in uploads :
          Owns(w, m, i) => \E x \in uploads' : Owns(x, m, i)
    BY <2>2 DEF Owns
  <2>4. QED
    BY <2>1, <2>3, OwnersKept
<1>8. ASSUME NEW u \in uploads, UnlockTransfer(u)
      PROVE  \A m \in Nodes, i \in Slot :
               slots'[m][i].locked = TRUE => \E v \in uploads' : Owns(v, m, i)
  <2>1. \A m \in Nodes, j \in Slot :
          slots'[m][j] = IF m = u.node /\ j = u.slot
                         THEN [slots[m][j] EXCEPT !.locked = FALSE]
                         ELSE slots[m][j]
    BY <1>8, Unlocked
  <2>2. uploads \ {u} \subseteq uploads'
    BY <1>8 DEF UnlockTransfer, Step
  <2>3. ASSUME NEW m \in Nodes, NEW i \in Slot, slots'[m][i].locked = TRUE
        PROVE  \E v \in uploads' : Owns(v, m, i)
    <3>1. ~(m = u.node /\ i = u.slot)
      <4>1. slots[m][i] \in FileT
        BY Fields
      <4>2. [slots[m][i] EXCEPT !.locked = FALSE].locked = FALSE
        BY <4>1 DEF FileT
      <4>3. QED
        BY <2>1, <2>3, <4>2
    <3>2. slots[m][i].locked = TRUE
      BY <2>1, <2>3, <3>1
    <3>3. \E v \in uploads : Owns(v, m, i)
      BY <3>2 DEF LocksHaveOwners, Owns
    <3>4. QED
      BY <2>2, <3>1, <3>3 DEF Owns
  <2>4. QED
    BY <2>3
<1>9. \A m \in Nodes, i \in Slot :
        slots'[m][i].locked = TRUE => \E v \in uploads' : Owns(v, m, i)
  <2>1. CASE UNCHANGED vars
    BY <1>1, <2>1 DEF vars
  <2>2. CASE \E f \in Files : Request(f)
    BY <1>1, <2>2 DEF Request
  <2>3. CASE \E n \in Nodes : MissingFile(n) \/ BadMessage(n)
    BY <1>1, <2>3 DEF MissingFile, BadMessage
  <2>4. CASE \E u \in uploads : NullFile(u)
    BY <1>1, <2>4 DEF NullFile
  <2>5. CASE \E n \in Nodes : Handle(n)
    BY <1>1, <1>2, <1>3, <1>4, <1>5, <2>5 DEF Handle
  <2>6. CASE \E u \in uploads : Run(u)
    BY <1>6, <1>7, <1>8, <2>6 DEF Run
  <2>7. QED
    BY <2>1, <2>2, <2>3, <2>4, <2>5, <2>6 DEF Next
<1>10. \A n \in Nodes, i \in Slot : slots'[n][i].locked \in BOOLEAN
  BY TypedNext DEF Typed, FileT
<1>11. QED
  BY <1>9, <1>10 DEF LocksHaveOwners, Owns

-----------------------------------------------------------------------------
\* Rows

\* A file that is listed stays so.
LEMMA ListedStays ==
  ASSUME RowsStay, NEW n \in Nodes, NEW f, Listed(rows[n], f)
  PROVE  Listed(rows'[n], f)
<1>1. /\ Len(rows[n]) \in Nat /\ Len(rows'[n]) \in Nat
      /\ Len(rows[n]) <= Len(rows'[n]) /\ Len(rows'[n]) <= MaxTransfers
      /\ \A k \in 1..Len(rows[n]) : rows'[n][k].sha = rows[n][k].sha
  BY DEF RowsStay
<1>2. CASE \E k \in 1..Len(rows[n]) : rows[n][k].sha = f
  <2>1. PICK k \in 1..Len(rows[n]) : rows[n][k].sha = f
    BY <1>2
  <2>2. k \in 1..Len(rows'[n]) /\ rows'[n][k].sha = f
    BY <1>1, <2>1
  <2>3. QED
    BY <2>2 DEF Listed
<1>3. CASE Len(rows[n]) = MaxTransfers
  BY <1>1, <1>3, TransfersAssumption DEF Listed
<1>4. QED
  BY <1>2, <1>3 DEF Listed

\* No row is removed or renamed.
LEMMA RowsNext ==
  ASSUME Typed, rows' = rows
  PROVE  RowsStay
BY LenProperties DEF Typed, RowsStay

\* Downloads keep their rows, if every slot keeps file and name, or loses its
\* download, or gets one that is listed.
LEMMA RowFoundKept ==
  ASSUME RowFound, RowsStay,
         \A n \in Nodes, i \in Slot :
           \/ /\ slots'[n][i].file = slots[n][i].file
              /\ slots'[n][i].sha = slots[n][i].sha
           \/ slots'[n][i].file[1] # "dest"
           \/ Listed(rows'[n], slots'[n][i].sha)
  PROVE  RowFound'
<1>1. \A n \in Nodes, i \in Slot :
        slots[n][i].file[1] = "dest" => Listed(rows[n], slots[n][i].sha)
  BY DEF RowFound, RowsOf, Listed
<1>2. \A n \in Nodes, i \in Slot :
        slots'[n][i].file[1] = "dest" => Listed(rows'[n], slots'[n][i].sha)
  BY <1>1, ListedStays
<1>3. QED
  BY <1>2 DEF RowFound, RowsOf, Listed

\* No step leaves a download without a row.
LEMMA RowFoundNext == Typed /\ RowFound /\ [Next]_vars => RowFound'
<1> SUFFICES ASSUME Typed, RowFound, [Next]_vars PROVE RowFound'
  OBVIOUS
<1>1. CASE UNCHANGED <<slots, rows>>
  BY <1>1, RowsNext, RowFoundKept
<1>2. ASSUME NEW n \in Nodes, HandleFileTransfer(n), ~UNCHANGED <<slots, rows>>
      PROVE  RowFound'
  <2> DEFINE k == Least(FreeSlots(n))
             h == <<"meta", Msg(n).sha>>
  <2>1. /\ FreeSlots(n) # {} /\ rows' = rows
        /\ slots' = [slots EXCEPT ![n][k].file = h]
    BY <1>2 DEF HandleFileTransfer
  <2>2. h \in Handles /\ k \in Slot /\ h[1] # "dest"
    BY <1>2, <2>1, Received, FreeSlot DEF HandleFileTransfer, Handles
  <2> HIDE DEF h, k
  <2>3. \A m \in Nodes, j \in Slot :
          slots'[m][j] = IF m = n /\ j = k
                         THEN [slots[m][j] EXCEPT !.file = h] ELSE slots[m][j]
    BY <2>1, <2>2, FileSet
  <2>4. \A m \in Nodes, j \in Slot :
          slots'[m][j] = slots[m][j] \/ slots'[m][j].file[1] # "dest"
    BY ZenonT(40), <2>2, <2>3, Fields DEF FileT
  <2>5. QED
    BY <2>1, <2>4, RowsNext, RowFoundKept
<1>3. ASSUME NEW n \in Nodes, HandleMetadata(n)
      PROVE  RowFound'
  <2> DEFINE f == Msg(n).data[2]
             k == Least(FreeSlots(n))
  <2>1. Receives(n, "Metadata") /\ FiletransferAdd(n, f)
    BY <1>3 DEF HandleMetadata
  <2>2. f \in Files
    BY <2>1, Received DEF Handles
  <2>3. RowsStay /\ Listed(rows'[n], f)
    BY <2>1, <2>2, RowAdded
  <2>5. CASE slots' = slots
    BY <2>3, <2>5, RowFoundKept DEF Listed
  <2>6. CASE slots' # slots
    <3>1. PICK h \in Handles \cup {NoHandle} :
            FreeSlots(n) # {} /\ CreateFileTransfer(n, f, h)
      <4>1. <<"dest", f>> \in Handles
        BY <2>2 DEF Handles
      <4>2. QED
        BY <1>3, <2>6, <4>1 DEF HandleMetadata
    <3> HIDE DEF f
    <3>2. \A m \in Nodes, j \in Slot :
            slots'[m][j] = IF m = n /\ j = k
                           THEN [locked |-> FALSE, sha |-> f, file |-> h]
                           ELSE slots[m][j]
      BY <2>2, <3>1, Created
    <3>3. \A m \in Nodes, j \in Slot :
            slots'[m][j] = slots[m][j] \/ (m = n /\ slots'[m][j].sha = f)
      BY <3>2
    <3>4. QED
      BY <2>3, <3>3, RowFoundKept
  <2>7. QED
    BY <2>5, <2>6
<1>4. ASSUME NEW n \in Nodes, HandleFilePartRequest(n), ~UNCHANGED <<slots, rows>>
      PROVE  RowFound'
  <2> DEFINE f == Msg(n).sha
             k == Least(FreeSlots(n))
             t == [locked |-> TRUE, sha |-> f, file |-> <<"data", f>>]
  <2>1. /\ FreeSlots(n) # {} /\ slots' = [slots EXCEPT ![n][k] = t]
        /\ rows' = rows
    BY <1>4 DEF HandleFilePartRequest
  <2>2. k \in Slot /\ f \in Files
    BY <1>4, <2>1, FreeSlot, Received DEF HandleFilePartRequest
  <2>3. t \in FileT /\ t.file[1] # "dest"
    BY <2>2 DEF FileT, Handles
  <2> HIDE DEF t, k
  <2>4. \A m \in Nodes, j \in Slot :
          slots'[m][j] = IF m = n /\ j = k THEN t ELSE slots[m][j]
    BY <2>1, <2>2, <2>3, SlotSet
  <2>5. QED
    BY <2>1, <2>3, <2>4, RowsNext, RowFoundKept
<1>5. ASSUME NEW n \in Nodes, HandleFilePart(n), ~UNCHANGED <<slots, rows>>
      PROVE  RowFound'
  <2> DEFINE f == Msg(n).sha
             k == Least(SlotsOf(n, f))
  <2>1. /\ SlotsOf(n, f) # {} /\ FiletransferPartReady(n, f)
        /\ slots' = slots \/ slots' = [slots EXCEPT ![n][k] = Empty]
    BY <1>5 DEF HandleFilePart
  <2>2. k \in Slot
    BY <2>1, NamedSlot
  <2>3. Empty \in FileT /\ Empty.file[1] # "dest"
    BY DEF Empty, FileT, NoHandle
  <2>4. RowsStay
    BY <2>1, RowReady
  <2> HIDE DEF k
  <2>5. \A m \in Nodes, j \in Slot :
          slots'[m][j] = slots[m][j] \/ slots'[m][j] = Empty
    BY <2>1, <2>2, <2>3, SlotSet
  <2>6. QED
    BY <2>3, <2>4, <2>5, RowFoundKept
<1>6. ASSUME NEW u \in uploads, ClearTransfer(u)
      PROVE  RowFound'
  <2>1. \A m \in Nodes, j \in Slot :
          slots'[m][j] = IF m = u.node /\ j = u.slot
                         THEN [slots[m][j] EXCEPT !.file = NoHandle,
                                                  !.sha = NoFile]
                         ELSE slots[m][j]
    BY <1>6, Cleared
  <2>2. \A s \in FileT :
          [s EXCEPT !.file = NoHandle, !.sha = NoFile].file = NoHandle
    BY DEF FileT
  <2>3. ASSUME NEW m \in Nodes, NEW j \in Slot
        PROVE  slots'[m][j] = slots[m][j] \/ slots'[m][j].file = NoHandle
    <3>1. slots[m][j] \in FileT
      BY Fields
    <3>2. CASE m = u.node /\ j = u.slot
      BY <2>1, <2>2, <3>1, <3>2
    <3>3. CASE ~(m = u.node /\ j = u.slot)
      BY <2>1, <3>3
    <3>4. QED
      BY <3>2, <3>3
  <2>4. NoHandle[1] # "dest" /\ rows' = rows
    BY <1>6 DEF NoHandle, ClearTransfer
  <2>5. QED
    BY <2>3, <2>4, RowsNext, RowFoundKept
<1>7. ASSUME NEW u \in uploads, UnlockTransfer(u)
      PROVE  RowFound'
  <2>1. \A m \in Nodes, j \in Slot :
          slots'[m][j] = IF m = u.node /\ j = u.slot
                         THEN [slots[m][j] EXCEPT !.locked = FALSE]
                         ELSE slots[m][j]
    BY <1>7, Unlocked
  <2>2. \A s \in FileT : LET t == [s EXCEPT !.locked = FALSE]
                         IN  t.file = s.file /\ t.sha = s.sha
    BY DEF FileT
  <2>3. \A m \in Nodes, j \in Slot : /\ slots'[m][j].file = slots[m][j].file
                                     /\ slots'[m][j].sha = slots[m][j].sha
    BY ZenonT(40), <2>1, <2>2, Fields
  <2>4. rows' = rows
    BY <1>7 DEF UnlockTransfer
  <2>5. QED
    BY <2>3, <2>4, RowsNext, RowFoundKept
<1>8. QED
  <2>1. CASE UNCHANGED vars
    BY <1>1, <2>1 DEF vars
  <2>2. CASE \E f \in Files : Request(f)
    BY <1>1, <2>2 DEF Request
  <2>3. CASE \E n \in Nodes : MissingFile(n) \/ BadMessage(n)
    BY <1>1, <2>3 DEF MissingFile, BadMessage
  <2>4. CASE \E u \in uploads : NullFile(u)
    BY <1>1, <2>4 DEF NullFile
  <2>5. CASE \E n \in Nodes : Handle(n)
    BY <1>1, <1>2, <1>3, <1>4, <1>5, <2>5 DEF Handle
  <2>6. CASE \E u \in uploads : Run(u)
    BY <1>1, <1>6, <1>7, <2>6 DEF Run, ReadPart, SendPart
  <2>7. QED
    BY <2>1, <2>2, <2>3, <2>4, <2>5, <2>6 DEF Next

-----------------------------------------------------------------------------
\* Prompt uploads

\* While a handler runs at a node, all its slots are at rest.
LEMMA AllAtRest ==
  ASSUME setup.prompt = TRUE, SlotsInOrder, NEW n \in Nodes, NEW t, Receives(n, t)
  PROVE  /\ \A u \in uploads : u.node # n
         /\ \A i \in Slot : AtRest(slots[n][i], setup.unopenable)
BY DEF Receives, SlotsInOrder

\* The messages stay truthful when a truthful one is added.
LEMMA TruthfulKept ==
  ASSUME MessagesTrue,
         \A n \in Nodes : \A k \in 1..Len(chan'[n]) :
           \/ \E j \in 1..Len(chan[n]) : chan'[n][k] = chan[n][j]
           \/ Truthful(chan'[n][k])
  PROVE  MessagesTrue'
BY DEF MessagesTrue

\* The message that is handled says what it should.
LEMMA ReceivedTruthful ==
  ASSUME Typed, MessagesTrue, NEW n \in Nodes, NEW t, Receives(n, t)
  PROVE  Truthful(Msg(n))
BY Received DEF MessagesTrue

\* An upload goes on in its slot and no other slot is touched.
LEMMA UploadGoesOn ==
  ASSUME Typed, OnTime, setup' = setup, NEW u \in uploads, NEW v, Step(u, v),
         v.node = u.node, v.slot = u.slot,
         \A m \in Nodes, j \in Slot :
           ~(m = u.node /\ j = u.slot) => slots'[m][j] = slots[m][j],
         Finds(v, slots'[u.node][u.slot])
  PROVE  OneUpload' /\ SlotKept' /\ SlotsInOrder'
<1>1. uploads' = (uploads \ {u}) \cup {v}
  BY DEF Step
<1>2. \A w \in uploads \ {u} : w.node # u.node
  BY DEF OnTime, OneUpload
<1>3. OneUpload'
  BY <1>1, <1>2 DEF OnTime, OneUpload
<1>4. ASSUME NEW w \in uploads'
      PROVE  Finds(w, slots'[w.node][w.slot])
  <2>1. CASE w = v
    BY <2>1
  <2>2. CASE w # v
    <3>1. w \in uploads /\ w.node # u.node
      BY <1>1, <1>2, <2>2
    <3>2. slots'[w.node][w.slot] = slots[w.node][w.slot]
      BY <3>1, UploadFields
    <3>3. QED
      BY <3>1, <3>2 DEF OnTime, SlotKept, SlotOf
  <2>3. QED
    BY <2>1, <2>2
<1>5. SlotKept'
  BY <1>4 DEF SlotKept, SlotOf
<1>6. ASSUME NEW m \in Nodes, NEW j \in Slot
      PROVE  \/ \E w \in uploads' : w.node = m /\ w.slot = j
             \/ AtRest(slots'[m][j], setup.unopenable)
  <2>1. CASE m = u.node /\ j = u.slot
    BY <1>1, <2>1
  <2>2. CASE ~(m = u.node /\ j = u.slot)
    <3>1. slots'[m][j] = slots[m][j]
      BY <2>2
    <3>2. CASE AtRest(slots[m][j], setup.unopenable)
      BY <3>1, <3>2
    <3>3. CASE \E w \in uploads : w.node = m /\ w.slot = j
      BY <1>1, <2>2, <3>3
    <3>4. QED
      BY <3>2, <3>3 DEF OnTime, SlotsInOrder
  <2>3. QED
    BY <2>1, <2>2
<1>7. SlotsInOrder'
  BY <1>6 DEF SlotsInOrder
<1>8. QED
  BY <1>3, <1>5, <1>7

\* An upload ends and leaves its slot at rest.
LEMMA UploadEnds ==
  ASSUME Typed, OnTime, setup' = setup, NEW u \in uploads,
         uploads' = uploads \ {u},
         \A m \in Nodes, j \in Slot :
           ~(m = u.node /\ j = u.slot) => slots'[m][j] = slots[m][j],
         AtRest(slots'[u.node][u.slot], setup.unopenable)
  PROVE  OneUpload' /\ SlotKept' /\ SlotsInOrder'
<1>1. OneUpload'
  BY DEF OnTime, OneUpload
<1>2. ASSUME NEW w \in uploads'
      PROVE  Finds(w, slots'[w.node][w.slot])
  <2>1. w \in uploads /\ w.node # u.node
    BY DEF OnTime, OneUpload
  <2>2. slots'[w.node][w.slot] = slots[w.node][w.slot]
    BY <2>1, UploadFields
  <2>3. QED
    BY <2>1, <2>2 DEF OnTime, SlotKept, SlotOf
<1>3. SlotKept'
  BY <1>2 DEF SlotKept, SlotOf
<1>4. ASSUME NEW m \in Nodes, NEW j \in Slot
      PROVE  \/ \E w \in uploads' : w.node = m /\ w.slot = j
             \/ AtRest(slots'[m][j], setup.unopenable)
  <2>1. CASE m = u.node /\ j = u.slot
    BY <2>1
  <2>2. CASE ~(m = u.node /\ j = u.slot)
    <3>1. slots'[m][j] = slots[m][j]
      BY <2>2
    <3>2. CASE AtRest(slots[m][j], setup.unopenable)
      BY <3>1, <3>2
    <3>3. CASE \E w \in uploads : w.node = m /\ w.slot = j
      BY <2>2, <3>3
    <3>4. QED
      BY <3>2, <3>3 DEF OnTime, SlotsInOrder
  <2>3. QED
    BY <2>1, <2>2
<1>5. SlotsInOrder'
  BY <1>4 DEF SlotsInOrder
<1>6. QED
  BY <1>1, <1>3, <1>5

\* A handler starts an upload in a slot of a node that has none.
LEMMA UploadStarts ==
  ASSUME Typed, OnTime, setup' = setup, NEW n \in Nodes,
         \A u \in uploads : u.node # n, NEW k \in Slot,
         NEW v, v.node = n, v.slot = k, uploads' = uploads \cup {v},
         \A m \in Nodes, j \in Slot :
           ~(m = n /\ j = k) => slots'[m][j] = slots[m][j],
         Finds(v, slots'[n][k])
  PROVE  OneUpload' /\ SlotKept' /\ SlotsInOrder'
<1>1. OneUpload'
  BY DEF OnTime, OneUpload
<1>2. ASSUME NEW w \in uploads'
      PROVE  Finds(w, slots'[w.node][w.slot])
  <2>1. CASE w = v
    BY <2>1
  <2>2. CASE w # v
    <3>1. w \in uploads /\ w.node # n
      BY <2>2
    <3>2. slots'[w.node][w.slot] = slots[w.node][w.slot]
      BY <3>1, UploadFields
    <3>3. QED
      BY <3>1, <3>2 DEF OnTime, SlotKept, SlotOf
  <2>3. QED
    BY <2>1, <2>2
<1>3. SlotKept'
  BY <1>2 DEF SlotKept, SlotOf
<1>4. ASSUME NEW m \in Nodes, NEW j \in Slot
      PROVE  \/ \E w \in uploads' : w.node = m /\ w.slot = j
             \/ AtRest(slots'[m][j], setup.unopenable)
  <2>1. CASE m = n /\ j = k
    BY <2>1
  <2>2. CASE ~(m = n /\ j = k)
    <3>1. slots'[m][j] = slots[m][j]
      BY <2>2
    <3>2. QED
      BY <3>1 DEF OnTime, SlotsInOrder
  <2>3. QED
    BY <2>1, <2>2
<1>5. SlotsInOrder'
  BY <1>4 DEF SlotsInOrder
<1>6. QED
  BY <1>1, <1>3, <1>5

\* A handler puts a slot of a node without uploads to rest.
LEMMA SlotRests ==
  ASSUME Typed, OnTime, setup' = setup, NEW n \in Nodes,
         \A u \in uploads : u.node # n, NEW k \in Slot, uploads' = uploads,
         \A m \in Nodes, j \in Slot :
           ~(m = n /\ j = k) => slots'[m][j] = slots[m][j],
         AtRest(slots'[n][k], setup.unopenable)
  PROVE  OneUpload' /\ SlotKept' /\ SlotsInOrder'
<1>1. OneUpload'
  BY DEF OnTime, OneUpload
<1>2. ASSUME NEW w \in uploads
      PROVE  Finds(w, slots'[w.node][w.slot])
  <2>1. slots'[w.node][w.slot] = slots[w.node][w.slot]
    BY UploadFields
  <2>2. QED
    BY <2>1 DEF OnTime, SlotKept, SlotOf
<1>3. SlotKept'
  BY <1>2 DEF SlotKept, SlotOf
<1>4. ASSUME NEW m \in Nodes, NEW j \in Slot
      PROVE  \/ \E w \in uploads' : w.node = m /\ w.slot = j
             \/ AtRest(slots'[m][j], setup.unopenable)
  <2>1. CASE m = n /\ j = k
    BY <2>1
  <2>2. CASE ~(m = n /\ j = k)
    <3>1. slots'[m][j] = slots[m][j]
      BY <2>2
    <3>2. QED
      BY <3>1 DEF OnTime, SlotsInOrder
  <2>3. QED
    BY <2>1, <2>2
<1>5. SlotsInOrder'
  BY <1>4 DEF SlotsInOrder
<1>6. QED
  BY <1>1, <1>3, <1>5

\* Nothing changes in the slots and the uploads.
LEMMA SlotsAlone ==
  ASSUME OnTime, UNCHANGED <<slots, uploads, setup>>
  PROVE  OneUpload' /\ SlotKept' /\ SlotsInOrder'
BY DEF OnTime, OneUpload, SlotKept, SlotOf, SlotsInOrder

\* What prompt uploads keep, and the two properties it is kept for.
LEMMA OnTimeNext ==
  ASSUME Typed, setup.prompt = TRUE, OnTime, ContentIntact, FilesOpen, Next
  PROVE  OnTime' /\ ContentIntact' /\ FilesOpen'
<1>s. setup' = setup
  BY DEF Next
<1>d. disk' = disk => ContentIntact'
  BY <1>s DEF ContentIntact
<1>o. status' = status => FilesOpen'
  BY <1>s DEF FilesOpen, AllOpens
<1>m. chan' = chan => MessagesTrue'
  BY DEF OnTime, MessagesTrue
<1>1. ASSUME NEW f \in Files, Request(f)
      PROVE  OnTime' /\ ContentIntact' /\ FilesOpen'
  <2> DEFINE msg == [type |-> "RequestFileTransfer", sha |-> f]
  <2>1. msg \in Messages /\ Owner[f] \in Nodes /\ Truthful(msg)
    BY OwnerAssumption DEF Messages, Truthful
  <2>2. chan' = [chan EXCEPT ![Owner[f]] = Append(@, msg)]
    BY <1>1 DEF Request
  <2> HIDE DEF msg
  <2>3. MessagesTrue'
    BY <2>1, <2>2, Sent, TruthfulKept DEF OnTime
  <2>4. QED
    BY <1>1, <1>s, <1>d, <1>o, <2>3, SlotsAlone DEF Request, OnTime
<1>2. ASSUME NEW n \in Nodes, HandleFileTransfer(n)
      PROVE  OnTime' /\ ContentIntact' /\ FilesOpen'
  <2>1. Receives(n, "RequestFileTransfer") /\ chan' = Take(n)
    BY <1>2 DEF HandleFileTransfer
  <2>2. MessagesTrue'
    BY <2>1, Taken, TruthfulKept DEF OnTime
  <2>3. Msg(n).sha \in Files /\ \A u \in uploads : u.node # n
    BY <2>1, Received, AllAtRest DEF OnTime
  <2>4. CASE UNCHANGED <<slots, uploads>>
    BY <1>2, <1>s, <1>d, <1>o, <2>2, <2>4, SlotsAlone
    DEF HandleFileTransfer, OnTime
  <2>5. CASE ~UNCHANGED <<slots, uploads>>
    <3> DEFINE f == Msg(n).sha
               i == Least(FreeSlots(n))
               v == [node |-> n, type |-> "Metadata", slot |-> i,
                     file |-> f, buf |-> NoHandle, pc |-> "read"]
               h == <<"meta", f>>
    <3>1. /\ FreeSlots(n) # {} /\ slots' = [slots EXCEPT ![n][i].file = h]
          /\ uploads' = uploads \cup {v}
      BY <1>2, <2>5 DEF HandleFileTransfer
    <3>2. i \in Slot
      BY <3>1, FreeSlot
    <3>3. h \in Handles
      BY <2>3 DEF Handles
    <3>4. /\ v.node = n /\ v.slot = i /\ v.type = "Metadata" /\ v.pc = "read"
          /\ OwnFile(v) = h
      BY DEF OwnFile
    <3> HIDE DEF v, h, i
    <3>5. \A m \in Nodes, j \in Slot :
            slots'[m][j] = IF m = n /\ j = i
                           THEN [slots[m][j] EXCEPT !.file = h]
                           ELSE slots[m][j]
      BY <3>1, <3>2, <3>3, FileSet
    <3>6. slots'[n][i].file = h
      <4>1. slots'[n][i] = [slots[n][i] EXCEPT !.file = h]
        BY <3>2, <3>5
      <4>2. slots[n][i] \in FileT
        BY <3>2, Fields
      <4>3. QED
        BY <4>1, <4>2 DEF FileT
    <3>7. Finds(v, slots'[n][i])
      BY <3>4, <3>6 DEF Finds
    <3>8. OneUpload' /\ SlotKept' /\ SlotsInOrder'
      BY <1>s, <2>3, <3>1, <3>2, <3>4, <3>5, <3>7, UploadStarts
    <3>9. QED
      BY <1>2, <1>d, <1>o, <2>2, <3>8 DEF HandleFileTransfer, OnTime
  <2>6. QED
    BY <2>4, <2>5
<1>3. ASSUME NEW n \in Nodes, HandleMetadata(n)
      PROVE  OnTime' /\ ContentIntact' /\ FilesOpen'
  <2> DEFINE f == Msg(n).data[2]
             i == Least(FreeSlots(n))
             msg == [type |-> "RequestFilePart", sha |-> f]
             d == <<"dest", f>>
  <2>1. Receives(n, "Metadata")
    BY <1>3 DEF HandleMetadata
  <2>2. f \in Files /\ \A u \in uploads : u.node # n
    BY <2>1, Received, AllAtRest DEF OnTime, Handles
  <2>3. msg \in Messages /\ Truthful(msg) /\ d \in Handles
    BY <2>2 DEF Messages, Truthful, Handles
  <2>4. chan' = Take(n) \/ chan' = TakeAndSend(n, msg)
    BY <1>3 DEF HandleMetadata
  <2>5. CASE slots' = slots
    <3> HIDE DEF msg, d
    <3>1. MessagesTrue'
      BY <2>1, <2>3, <2>4, Taken, TakenAndSent, TruthfulKept DEF OnTime
    <3>2. QED
      BY <1>3, <1>s, <1>d, <1>o, <2>5, <3>1, SlotsAlone
      DEF HandleMetadata, OnTime
  <2>6. CASE slots' # slots
    <3>1. PICK h : /\ FreeSlots(n) # {} /\ CreateFileTransfer(n, f, h)
                   /\ h = d \/ (h = NoHandle /\ setup.unopenable # {})
      BY <1>3, <2>6 DEF HandleMetadata
    <3> HIDE DEF msg, d
    <3>2. MessagesTrue'
      BY <2>1, <2>3, <2>4, Taken, TakenAndSent, TruthfulKept DEF OnTime
    <3>3. i \in Slot /\ h \in Handles \cup {NoHandle}
      BY <2>3, <3>1, FreeSlot
    <3> HIDE DEF f
    <3>4. \A m \in Nodes, j \in Slot :
            slots'[m][j] = IF m = n /\ j = i
                           THEN [locked |-> FALSE, sha |-> f, file |-> h]
                           ELSE slots[m][j]
      BY <2>2, <3>1, <3>3, Created
    <3> HIDE DEF i
    <3>5. AtRest(slots'[n][i], setup.unopenable)
      BY <2>2, <3>1, <3>3, <3>4 DEF AtRest, d
    <3>6. uploads' = uploads
      BY <1>3 DEF HandleMetadata
    <3>7. OneUpload' /\ SlotKept' /\ SlotsInOrder'
      BY <1>s, <2>2, <3>3, <3>4, <3>5, <3>6, SlotRests
    <3>8. QED
      BY <1>3, <1>d, <1>o, <3>2, <3>7 DEF HandleMetadata, OnTime
  <2>7. QED
    BY <2>5, <2>6
<1>4. ASSUME NEW n \in Nodes, HandleFilePartRequest(n)
      PROVE  OnTime' /\ ContentIntact' /\ FilesOpen'
  <2>1. Receives(n, "RequestFilePart") /\ chan' = Take(n)
    BY <1>4 DEF HandleFilePartRequest
  <2>2. MessagesTrue'
    BY <2>1, Taken, TruthfulKept DEF OnTime
  <2>3. Msg(n).sha \in Files /\ \A u \in uploads : u.node # n
    BY <2>1, Received, AllAtRest DEF OnTime
  <2>4. CASE UNCHANGED <<slots, uploads>>
    BY <1>4, <1>s, <1>d, <1>o, <2>2, <2>4, SlotsAlone
    DEF HandleFilePartRequest, OnTime
  <2>5. CASE ~UNCHANGED <<slots, uploads>>
    <3> DEFINE f == Msg(n).sha
               i == Least(FreeSlots(n))
               v == [node |-> n, type |-> "FilePart", slot |-> i,
                     file |-> f, buf |-> NoHandle, pc |-> "read"]
               t == [locked |-> TRUE, sha |-> f, file |-> <<"data", f>>]
    <3>1. /\ FreeSlots(n) # {} /\ slots' = [slots EXCEPT ![n][i] = t]
          /\ uploads' = uploads \cup {v}
      BY <1>4, <2>5 DEF HandleFilePartRequest
    <3>2. i \in Slot
      BY <3>1, FreeSlot
    <3>3. t \in FileT
      BY <2>3 DEF Handles, FileT
    <3>4. v.node = n /\ v.slot = i /\ Finds(v, t)
      BY DEF OwnFile, Finds
    <3> HIDE DEF v, t, i
    <3>5. \A m \in Nodes, j \in Slot :
            slots'[m][j] = IF m = n /\ j = i THEN t ELSE slots[m][j]
      BY <3>1, <3>2, <3>3, SlotSet
    <3>6. Finds(v, slots'[n][i])
      BY <3>2, <3>4, <3>5
    <3>7. OneUpload' /\ SlotKept' /\ SlotsInOrder'
      BY <1>s, <2>3, <3>1, <3>2, <3>4, <3>5, <3>6, UploadStarts
    <3>8. QED
      BY <1>4, <1>d, <1>o, <2>2, <3>7 DEF HandleFilePartRequest, OnTime
  <2>6. QED
    BY <2>4, <2>5
<1>5. ASSUME NEW n \in Nodes, HandleFilePart(n)
      PROVE  OnTime' /\ ContentIntact' /\ FilesOpen'
  <2> DEFINE f == Msg(n).sha
             i == Least(SlotsOf(n, f))
  <2>1. Receives(n, "FilePart") /\ chan' = Take(n)
    BY <1>5 DEF HandleFilePart
  <2>2. MessagesTrue'
    BY <2>1, Taken, TruthfulKept DEF OnTime
  <2>3. /\ \A u \in uploads : u.node # n
        /\ \A j \in Slot : AtRest(slots[n][j], setup.unopenable)
    BY <2>1, AllAtRest DEF OnTime
  <2>4. f \in Files /\ Msg(n).data = <<"data", f>>
    BY <2>1, Received, ReceivedTruthful DEF OnTime, Truthful
  <2>5. CASE UNCHANGED <<slots, rows, disk>>
    BY <1>5, <1>s, <1>d, <1>o, <2>2, <2>5, SlotsAlone DEF HandleFilePart, OnTime
  <2>6. CASE ~UNCHANGED <<slots, rows, disk>>
    <3>1. /\ SlotsOf(n, f) # {} /\ slots[n][i].file[1] = "dest"
          /\ disk' = [disk EXCEPT ![n][slots[n][i].file[2]] = Msg(n).data]
          /\ slots' = slots \/ slots' = [slots EXCEPT ![n][i] = Empty]
      BY <1>5, <2>6 DEF HandleFilePart
    <3>2. i \in Slot /\ slots[n][i].sha = f
      BY <3>1, NamedSlot
    <3>3. slots[n][i].file = <<"dest", f>>
      BY <2>3, <2>4, <3>1, <3>2 DEF AtRest, NoHandle
    <3>4. disk' = [disk EXCEPT ![n][f] = <<"data", f>>]
      BY <2>4, <3>1, <3>3
    <3>5. ContentIntact'
      <4>1. SUFFICES ASSUME NEW m \in Nodes, NEW g \in Files
                     PROVE  disk'[m][g] \in {NoHandle, <<"data", g>>}
        BY DEF ContentIntact
      <4>2. disk[m][g] \in {NoHandle, <<"data", g>>}
        BY DEF ContentIntact
      <4>3. CASE m = n /\ g = f
        BY <3>4, <4>3 DEF Typed
      <4>4. CASE ~(m = n /\ g = f)
        BY <3>4, <4>2, <4>4 DEF Typed
      <4>5. QED
        BY <4>3, <4>4
    <3>6. Empty \in FileT /\ AtRest(Empty, setup.unopenable)
      BY DEF Empty, FileT, AtRest
    <3> HIDE DEF i, f
    <3>7. /\ \A m \in Nodes, j \in Slot :
               ~(m = n /\ j = i) => slots'[m][j] = slots[m][j]
          /\ AtRest(slots'[n][i], setup.unopenable)
      BY <2>3, <3>1, <3>2, <3>6, SlotSet
    <3>8. uploads' = uploads
      BY <1>5 DEF HandleFilePart
    <3>9. OneUpload' /\ SlotKept' /\ SlotsInOrder'
      BY <1>s, <2>3, <3>2, <3>7, <3>8, SlotRests
    <3>10. QED
      BY <1>5, <1>o, <2>2, <3>5, <3>9 DEF HandleFilePart, OnTime
  <2>7. QED
    BY <2>5, <2>6
<1>6. ASSUME NEW n \in Nodes, MissingFile(n)
      PROVE  OnTime' /\ ContentIntact' /\ FilesOpen'
  <2>1. setup.unopenable # {}
    BY <1>6 DEF MissingFile
  <2>2. FilesOpen'
    BY <1>s, <2>1 DEF FilesOpen, AllOpens
  <2>3. QED
    BY <1>6, <1>s, <1>d, <1>m, <2>2, SlotsAlone DEF MissingFile, OnTime
<1>7. ASSUME NEW n \in Nodes, BadMessage(n)
      PROVE  OnTime' /\ ContentIntact' /\ FilesOpen'
  <2>1. setup.unopenable # {}
    <3>1. CASE Receives(n, "Metadata") /\ Msg(n).data[1] # "meta"
      BY <3>1, Received, ReceivedTruthful DEF OnTime, Truthful
    <3>2. CASE /\ Receives(n, "FilePart") /\ SlotsOf(n, Msg(n).sha) # {}
               /\ slots[n][Least(SlotsOf(n, Msg(n).sha))].file[1]
                    \in {"none", "data"}
      <4> DEFINE f == Msg(n).sha
                 i == Least(SlotsOf(n, f))
      <4>1. f \in Files
        BY <3>2, Received, ReceivedTruthful DEF OnTime, Truthful
      <4>2. i \in Slot /\ slots[n][i].sha = f
        BY <3>2, NamedSlot
      <4>3. AtRest(slots[n][i], setup.unopenable)
        BY <3>2, <4>2, AllAtRest DEF OnTime
      <4>4. slots[n][i].file # <<"dest", f>>
        BY <3>2
      <4>5. QED
        BY <4>1, <4>2, <4>3, <4>4, NoFileAssumption DEF AtRest
    <3>3. QED
      BY <1>7, <3>1, <3>2 DEF BadMessage
  <2>2. FilesOpen'
    BY <1>s, <2>1 DEF FilesOpen, AllOpens
  <2>3. QED
    BY <1>7, <1>s, <1>d, <1>m, <2>2, SlotsAlone DEF BadMessage, OnTime
<1>8. ASSUME NEW u \in uploads, ReadPart(u)
      PROVE  OnTime' /\ ContentIntact' /\ FilesOpen'
  <2> DEFINE v == [u EXCEPT !.buf = SlotOf(u).file, !.pc = "send"]
  <2>1. /\ u.pc = "read" /\ SlotOf(u).file # NoHandle /\ Step(u, v)
        /\ slots' = slots
    BY <1>8 DEF ReadPart, At
  <2>2. SlotOf(u).file \in Handles
    BY <2>1, UploadFields, Fields DEF SlotOf
  <2>3. /\ v.node = u.node /\ v.slot = u.slot /\ v.type = u.type
        /\ v.file = u.file /\ v.buf = SlotOf(u).file /\ v.pc = "send"
    BY <2>2, SteppedFields
  <2> HIDE DEF v
  <2>4. Finds(u, SlotOf(u))
    BY DEF OnTime, SlotKept
  <2>5. OwnFile(v) = OwnFile(u)
    BY <2>3 DEF OwnFile
  <2>6. Finds(v, SlotOf(u))
    BY <2>1, <2>3, <2>4, <2>5 DEF Finds
  <2>7. OneUpload' /\ SlotKept' /\ SlotsInOrder'
    BY <1>s, <2>1, <2>3, <2>6, UploadGoesOn DEF SlotOf
  <2>8. QED
    BY <1>8, <1>d, <1>o, <1>m, <2>7 DEF ReadPart, OnTime
<1>9. ASSUME NEW u \in uploads, SendPart(u)
      PROVE  OnTime' /\ ContentIntact' /\ FilesOpen'
  <2> DEFINE msg == IF u.type = "Metadata"
                    THEN [type |-> "Metadata", data |-> u.buf]
                    ELSE [type |-> "FilePart", sha |-> SlotOf(u).sha,
                          data |-> u.buf]
             p == IF u.type = "Metadata" THEN "clear" ELSE "unlock"
             v == [u EXCEPT !.pc = p]
  <2>1. /\ chan' = [chan EXCEPT ![Other(u.node)] = Append(@, msg)]
        /\ Step(u, v) /\ u.pc = "send" /\ slots' = slots
    BY <1>9 DEF SendPart, At
  <2>2. Finds(u, SlotOf(u)) /\ u.type \in {"Metadata", "FilePart"}
        /\ u.file \in Files
    BY UploadFields DEF OnTime, SlotKept
  <2>3. u.buf = OwnFile(u) /\ OwnFile(u) \in Handles
    BY <2>1, <2>2 DEF Finds, OwnFile, Handles
  <2>4. msg \in Messages /\ Truthful(msg)
    <3>1. CASE u.type = "Metadata"
      BY <2>3, <3>1 DEF Messages, Truthful, OwnFile
    <3>2. CASE u.type = "FilePart"
      BY <2>2, <2>3, <3>2 DEF Messages, Truthful, OwnFile, Finds
    <3>3. QED
      BY <2>2, <3>1, <3>2
  <2>5. p \in {"read", "send", "clear", "unlock"}
    OBVIOUS
  <2>6. /\ v.node = u.node /\ v.slot = u.slot /\ v.type = u.type
        /\ v.file = u.file /\ v.buf = u.buf /\ v.pc = p
    BY <2>5, SteppedFields
  <2> HIDE DEF v, msg
  <2>7. OwnFile(v) = OwnFile(u)
    BY <2>6 DEF OwnFile
  <2>8. Finds(v, SlotOf(u))
    BY <2>1, <2>2, <2>3, <2>6, <2>7 DEF Finds
  <2>9. OneUpload' /\ SlotKept' /\ SlotsInOrder'
    BY <1>s, <2>1, <2>6, <2>8, UploadGoesOn DEF SlotOf
  <2>10. MessagesTrue'
    <3>1. Other(u.node) \in Nodes
      BY OtherNode, UploadFields
    <3>2. \A m \in Nodes : \A k \in 1..Len(chan'[m]) :
            \/ \E j \in 1..Len(chan[m]) : chan'[m][k] = chan[m][j]
            \/ chan'[m][k] = msg
      BY <2>1, <2>4, <3>1, Sent
    <3>3. QED
      BY <2>4, <3>2, TruthfulKept DEF OnTime
  <2>11. QED
    BY <1>9, <1>d, <1>o, <2>9, <2>10 DEF SendPart, OnTime
<1>10. ASSUME NEW u \in uploads, ClearTransfer(u)
       PROVE  OnTime' /\ ContentIntact' /\ FilesOpen'
  <2> DEFINE v == [u EXCEPT !.pc = "unlock"]
  <2>1. \A m \in Nodes, j \in Slot :
          slots'[m][j] = IF m = u.node /\ j = u.slot
                         THEN [slots[m][j] EXCEPT !.file = NoHandle,
                                                  !.sha = NoFile]
                         ELSE slots[m][j]
    BY <1>10, Cleared
  <2>2. u.node \in Nodes /\ u.slot \in Slot
    BY UploadFields
  <2>3. slots'[u.node][u.slot].file = NoHandle /\ slots'[u.node][u.slot].sha = NoFile
    <3>1. slots[u.node][u.slot] \in FileT
      BY <2>2, Fields
    <3>2. slots'[u.node][u.slot]
          = [slots[u.node][u.slot] EXCEPT !.file = NoHandle, !.sha = NoFile]
      BY <2>1, <2>2
    <3>3. QED
      BY <3>1, <3>2 DEF FileT
  <2>4. /\ u.pc = "clear"
        /\ \/ u.type = "Metadata" /\ Step(u, v)
           \/ uploads' = uploads \ {u}
    BY <1>10 DEF ClearTransfer, At
  <2>5. OneUpload' /\ SlotKept' /\ SlotsInOrder'
    <3>1. CASE u.type = "Metadata" /\ Step(u, v)
      <4>1. /\ v.node = u.node /\ v.slot = u.slot /\ v.type = u.type
            /\ v.file = u.file /\ v.buf = u.buf /\ v.pc = "unlock"
        BY SteppedFields
      <4> HIDE DEF v
      <4>2. u.buf = OwnFile(u)
        BY <2>4 DEF OnTime, SlotKept, Finds
      <4>3. OwnFile(v) = OwnFile(u)
        BY <4>1 DEF OwnFile
      <4>4. Finds(v, slots'[u.node][u.slot])
        BY <2>3, <3>1, <4>1, <4>2, <4>3 DEF Finds
      <4>5. \A m \in Nodes, j \in Slot :
              ~(m = u.node /\ j = u.slot) => slots'[m][j] = slots[m][j]
        BY <2>1
      <4>6. Step(u, v) /\ v.node = u.node /\ v.slot = u.slot
        BY <3>1, <4>1
      <4>7. QED
        BY <1>s, <4>4, <4>5, <4>6, UploadGoesOn
    <3>2. CASE uploads' = uploads \ {u}
      <4>1. AtRest(slots'[u.node][u.slot], setup.unopenable)
        BY <2>3 DEF AtRest
      <4>2. QED
        BY ZenonT(40), <1>s, <2>1, <3>2, <4>1, UploadEnds
    <3>3. QED
      BY <2>4, <3>1, <3>2
  <2>6. QED
    BY <1>10, <1>d, <1>o, <1>m, <2>5 DEF ClearTransfer, OnTime
<1>11. ASSUME NEW u \in uploads, UnlockTransfer(u)
       PROVE  OnTime' /\ ContentIntact' /\ FilesOpen'
  <2> DEFINE v == [u EXCEPT !.pc = "clear"]
  <2>1. \A m \in Nodes, j \in Slot :
          slots'[m][j] = IF m = u.node /\ j = u.slot
                         THEN [slots[m][j] EXCEPT !.locked = FALSE]
                         ELSE slots[m][j]
    BY <1>11, Unlocked
  <2>2. u.node \in Nodes /\ u.slot \in Slot
    BY UploadFields
  <2>3. /\ slots'[u.node][u.slot].file = SlotOf(u).file
        /\ slots'[u.node][u.slot].sha = SlotOf(u).sha
    <3>1. slots[u.node][u.slot] \in FileT
      BY <2>2, Fields
    <3>2. slots'[u.node][u.slot] = [slots[u.node][u.slot] EXCEPT !.locked = FALSE]
      BY <2>1, <2>2
    <3>3. QED
      BY <3>1, <3>2 DEF FileT, SlotOf
  <2>4. /\ u.pc = "unlock"
        /\ \/ u.type = "FilePart" /\ Step(u, v)
           \/ u.type = "Metadata" /\ uploads' = uploads \ {u}
    BY <1>11 DEF UnlockTransfer, At
  <2>5. Finds(u, SlotOf(u))
    BY DEF OnTime, SlotKept
  <2>6. OneUpload' /\ SlotKept' /\ SlotsInOrder'
    <3>1. CASE u.type = "FilePart" /\ Step(u, v)
      <4>1. /\ v.node = u.node /\ v.slot = u.slot /\ v.type = u.type
            /\ v.file = u.file /\ v.buf = u.buf /\ v.pc = "clear"
        BY SteppedFields
      <4> HIDE DEF v
      <4>2. OwnFile(v) = OwnFile(u)
        BY <4>1 DEF OwnFile
      <4>3. Finds(v, slots'[u.node][u.slot])
        BY <2>3, <2>4, <2>5, <3>1, <4>1, <4>2 DEF Finds
      <4>4. \A m \in Nodes, j \in Slot :
              ~(m = u.node /\ j = u.slot) => slots'[m][j] = slots[m][j]
        BY <2>1
      <4>5. Step(u, v) /\ v.node = u.node /\ v.slot = u.slot
        BY <3>1, <4>1
      <4>6. QED
        BY <1>s, <4>3, <4>4, <4>5, UploadGoesOn
    <3>2. CASE u.type = "Metadata" /\ uploads' = uploads \ {u}
      <4>1. AtRest(slots'[u.node][u.slot], setup.unopenable)
        BY <2>3, <2>4, <2>5, <3>2 DEF AtRest, Finds
      <4>2. QED
        BY <1>s, <2>1, <3>2, <4>1, UploadEnds
    <3>3. QED
      BY <2>4, <3>1, <3>2
  <2>7. QED
    BY <1>11, <1>d, <1>o, <1>m, <2>6 DEF UnlockTransfer, OnTime
<1>12. ASSUME NEW u \in uploads, NullFile(u)
       PROVE  FALSE
  <2>1. SlotOf(u).file = NoHandle /\ u.pc \in {"read", "clear"}
    BY <1>12 DEF NullFile, At
  <2>2. Finds(u, SlotOf(u))
    BY DEF OnTime, SlotKept
  <2>3. QED
    BY <2>1, <2>2 DEF Finds, OwnFile, NoHandle
<1>13. QED
  BY <1>1, <1>2, <1>3, <1>4, <1>5, <1>6, <1>7, <1>8, <1>9, <1>10, <1>11,
     <1>12 DEF Next, Handle, Run

-----------------------------------------------------------------------------
\* Theorems

(***************************************************************************)
(* The inductive invariant holds: for any files, however many slots a peer  *)
(* has, and whatever the handlers and the upload threads do.                *)
(***************************************************************************)
THEOREM TransfersKept == Spec => []TransferInv
<1>1. Init => TransferInv
  <2> SUFFICES ASSUME Init PROVE TransferInv
    OBVIOUS
  <2>1. Typed
    BY TypedInit
  <2>2. \A n \in Nodes, i \in Slot : slots[n][i] = Empty
    BY DEF Init
  <2>3. \A n \in Nodes, i \in Slot :
          /\ slots[n][i].locked = FALSE /\ slots[n][i].sha = NoFile
          /\ slots[n][i].file = NoHandle
    BY <2>2 DEF Empty
  <2>4. LocksHaveOwners
    BY <2>3 DEF LocksHaveOwners
  <2>5. RowFound
    BY <2>3 DEF RowFound, NoHandle
  <2>6. uploads = {} /\ status = "ok"
    BY DEF Init
  <2>7. MessagesTrue
    <3>1. \A n \in Nodes : chan[n] = << >>
      BY DEF Init
    <3>2. \A n \in Nodes : Len(chan[n]) = 0
      BY <3>1, EmptySeq
    <3>3. QED
      BY <3>2 DEF MessagesTrue
  <2>8. OnTime
    BY <2>3, <2>6, <2>7
    DEF OnTime, OneUpload, SlotKept, SlotsInOrder, AtRest
  <2>9. ContentIntact
    BY DEF Init, ContentIntact
  <2>10. QED
    BY <2>1, <2>4, <2>5, <2>6, <2>8, <2>9
    DEF TransferInv, Prompt, FilesOpen
<1>2. TransferInv /\ [Next]_vars => TransferInv'
  <2> SUFFICES ASSUME TransferInv, [Next]_vars PROVE TransferInv'
    OBVIOUS
  <2>1. Typed' /\ LocksHaveOwners' /\ RowFound'
    BY TypedNext, OwnersNext, RowFoundNext DEF TransferInv
  <2>2. CASE UNCHANGED vars
    <3>1. UNCHANGED <<slots, uploads, setup>> /\ chan' = chan
          /\ disk' = disk /\ status' = status
      BY <2>2 DEF vars
    <3>2. OnTime => OnTime'
      BY <3>1, SlotsAlone DEF OnTime, MessagesTrue
    <3>3. ContentIntact' /\ FilesOpen'
      BY <3>1 DEF TransferInv, ContentIntact, FilesOpen, AllOpens
    <3>4. QED
      BY <2>1, <3>1, <3>2, <3>3 DEF TransferInv, Prompt
  <2>3. CASE Next /\ setup.prompt = TRUE
    BY <2>1, <2>3, OnTimeNext DEF TransferInv, Prompt
  <2>4. CASE Next /\ setup.prompt # TRUE
    <3>1. setup' = setup
      BY <2>4 DEF Next
    <3>2. setup.prompt \in BOOLEAN
      BY SetupsAssumption DEF TransferInv, Typed
    <3>3. setup'.prompt = FALSE
      BY <2>4, <3>1, <3>2
    <3>4. QED
      BY <2>1, <3>3 DEF TransferInv, Prompt, ContentIntact, FilesOpen, AllOpens
  <2>5. QED
    BY <2>2, <2>3, <2>4
<1>3. QED
  BY <1>1, <1>2, PTL DEF Spec

(***************************************************************************)
(* The slots of a peer: a lock always has an upload that will release it,   *)
(* and if uploads are prompt and every file opens, no handler and no thread *)
(* uses the file of a cleared slot (handlers.c, peer.c).                    *)
(***************************************************************************)
THEOREM SlotsOwned == Spec => []SlotsInv
<1>1. TransferInv => SlotsInv
  BY TypedOK DEF TransferInv, SlotsInv
<1>2. QED
  BY <1>1, TransfersKept, PTL

(***************************************************************************)
(* Every download has its row in the status table, or the table is full     *)
(* (filetransfer_add before create_file_transfer in handlemetadata).        *)
(***************************************************************************)
THEOREM DownloadsListed == Spec => []RowFound
<1>1. TransferInv => RowFound
  BY DEF TransferInv
<1>2. QED
  BY <1>1, TransfersKept, PTL

(***************************************************************************)
(* If uploads are prompt, what a download writes is the file it is named    *)
(* after, although send_file_part reads name and file of a slot at          *)
(* different times and a metadata transfer leaves the name alone.           *)
(***************************************************************************)
THEOREM DownloadsIntact == Spec => []ContentIntact
<1>1. TransferInv => ContentIntact
  BY DEF TransferInv
<1>2. QED
  BY <1>1, TransfersKept, PTL
=============================================================================

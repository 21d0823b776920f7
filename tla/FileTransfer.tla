---------------------------- MODULE FileTransfer ----------------------------
(***************************************************************************)
(* Transfers of files between two cores (handlers.c, peer.c,                *)
(* filetransfermanager.c).  A node has one struct peer for the other node;  *)
(* its file_transfers slots serve the uploads to that peer and the          *)
(* downloads from it.  Handlers run in the read thread of a node, one at a  *)
(* time; the uploads run in threads of their own.  Channels are reliable    *)
(* and in order, as TCP connections are.                                    *)
(***************************************************************************)
EXTENDS Integers, Sequences, FiniteSets

CONSTANTS Nodes,      \* the two nodes
          Files,      \* files, identified by their hash
          Owner,      \* [Files -> Nodes]: who shares a file
          MaxTransfers, \* MAX_TRANSFERS
          NoFile,
          Overlap,    \* whether a user starts a transfer before the last is over
          Setups      \* what the files are like and how fast the threads are

ASSUME NodesAssumption == Cardinality(Nodes) = 2
ASSUME OwnerAssumption == Owner \in [Files -> Nodes]
ASSUME TransfersAssumption == MaxTransfers \in Nat \ {0}
ASSUME NoFileAssumption == NoFile \notin Files
ASSUME OverlapAssumption == Overlap \in BOOLEAN
ASSUME SetupsAssumption ==
  Setups \subseteq
    [wanted : SUBSET Files,      \* what users ask for
     big : SUBSET Files,         \* the files of FILE_PART_BYTES or more
     unopenable : SUBSET {"meta", "data", "dest"},  \* what fopen may refuse
     prompt : BOOLEAN]           \* uploads end before their node's next message

Slot == 0..(MaxTransfers - 1)
Other(n) == CHOOSE m \in Nodes : m # n
Receiver(f) == Other(Owner[f])

(***************************************************************************)
(* A FILE* is what it was opened on: the metadata or the data of a shared   *)
(* file, or the destination of a download.                                  *)
(***************************************************************************)
Handles == {"meta", "data", "dest"} \X Files
NoHandle == <<"none", NoFile>>
FileT == [locked : BOOLEAN, sha : Files \cup {NoFile},
          file : Handles \cup {NoHandle}]

Messages == [type : {"RequestFileTransfer", "RequestFilePart"}, sha : Files]
            \cup [type : {"Metadata"}, data : Handles]
            \cup [type : {"FilePart"}, sha : Files \cup {NoFile},
                  data : Handles]

VARIABLES slots,     \* [Nodes -> [Slot -> FileT]]: file_transfers of the peer
          uploads,   \* the running threads
          rows,      \* [Nodes -> Seq]: the table of filetransfermanager.c
          disk,      \* [Nodes -> [Files -> Handles]]: contents of the downloads
          chan,      \* [Nodes -> Seq(Messages)]: what a node has yet to receive
          requested, \* the transfers users have asked for
          status,
          setup      \* the one of Setups, which stays what it is

vars == <<slots, uploads, rows, disk, chan, requested, status, setup>>

Upload == [node : Nodes, type : {"Metadata", "FilePart"}, slot : Slot,
           file : Files, buf : Handles \cup {NoHandle},
           pc : {"read", "send", "clear", "unlock"}]

TypeOK ==
  /\ slots \in [Nodes -> [Slot -> FileT]]
  /\ uploads \subseteq Upload
  /\ \A n \in Nodes : \A i \in 1..Len(rows[n]) :
       rows[n][i] \in [sha : Files, ready : 0..1]
  /\ \A n \in Nodes : Len(rows[n]) <= MaxTransfers
  /\ disk \in [Nodes -> [Files -> Handles \cup {NoHandle}]]
  /\ \A n \in Nodes : \A i \in 1..Len(chan[n]) : chan[n][i] \in Messages
  /\ requested \subseteq setup.wanted
  /\ status \in {"ok", "undefined"}

Empty == [locked |-> FALSE, sha |-> NoFile, file |-> NoHandle]

Init == /\ slots = [n \in Nodes |-> [i \in Slot |-> Empty]]
        /\ uploads = {}
        /\ rows = [n \in Nodes |-> <<>>]
        /\ disk = [n \in Nodes |-> [f \in Files |-> NoHandle]]
        /\ chan = [n \in Nodes |-> <<>>]
        /\ requested = {}
        /\ status = "ok"
        /\ setup \in Setups

-----------------------------------------------------------------------------

Least(S) == CHOOSE i \in S : \A j \in S : i <= j

\* get_and_lock_new_filetransfer: the first slot whose lock is free, in use or not.
FreeSlots(n) == {i \in Slot : ~slots[n][i].locked}

\* Mutant of SlotsOf: any slot in use is taken for the file's.
SlotsInUse(n, sha) == {i \in Slot : slots[n][i].sha # NoFile}

\* get_file_transfer_internal
SlotsOf(n, sha) == {i \in Slot : slots[n][i].sha = sha}

Msg(n) == Head(chan[n])
Receives(n, type) == /\ status = "ok"
                     /\ chan[n] # <<>> /\ Head(chan[n]).type = type
                     /\ setup.prompt => \A u \in uploads : u.node # n
Take(n) == [chan EXCEPT ![n] = Tail(@)]
TakeAndSend(n, msg) == [chan EXCEPT ![n] = Tail(@), ![Other(n)] = Append(@, msg)]

\* No transfer is under way.
Quiet == /\ uploads = {}
         /\ \A n \in Nodes : chan[n] = <<>>
         /\ \A n \in Nodes : \A i \in 1..Len(rows[n]) : rows[n][i].ready = 1

\* The user asks for a file; handlefiletransferlocal sends the request on.
Request(f) ==
  /\ status = "ok" /\ f \in setup.wanted \ requested
  /\ Overlap \/ Quiet
  /\ requested' = requested \cup {f}
  /\ chan' = [chan EXCEPT ![Owner[f]] =
                Append(@, [type |-> "RequestFileTransfer", sha |-> f])]
  /\ UNCHANGED <<slots, uploads, rows, disk, status>>

(***************************************************************************)
(* handlefiletransfer: the slot gets the metadata file and no name, and is  *)
(* unlocked as soon as the thread that uses it is created.                  *)
(***************************************************************************)
HandleFileTransfer(n) ==
  /\ Receives(n, "RequestFileTransfer")
  /\ LET f == Msg(n).sha
         i == Least(FreeSlots(n))
     IN  \/ /\ FreeSlots(n) = {} \/ "meta" \in setup.unopenable
            /\ UNCHANGED <<slots, uploads>>
         \/ /\ FreeSlots(n) # {}
            /\ slots' = [slots EXCEPT ![n][i].file = <<"meta", f>>]
            /\ uploads' = uploads \cup
                 {[node |-> n, type |-> "Metadata", slot |-> i,
                   file |-> f, buf |-> NoHandle, pc |-> "read"]}
  /\ chan' = Take(n)
  /\ UNCHANGED <<rows, disk, requested, status>>

\* Mutant of FiletransferAdd: there is no row.
FiletransferAddNothing(n, f) == rows' = rows

FiletransferAdd(n, f) ==
  rows' = [rows EXCEPT ![n] =
             IF Len(@) < MaxTransfers
             THEN Append(@, [sha |-> f, ready |-> 0]) ELSE @]

\* Mutants of CreateFileTransfer: the slot stays locked,
CreateFileTransferLocked(n, f, file) ==
  slots' = [slots EXCEPT ![n][Least(FreeSlots(n))] =
              [locked |-> TRUE, sha |-> f, file |-> file]]

\* or the file that was opened is not stored.
CreateFileTransferUnopened(n, f, file) ==
  slots' = [slots EXCEPT ![n][Least(FreeSlots(n))] =
              [locked |-> FALSE, sha |-> f, file |-> NoHandle]]

\* create_file_transfer, which unlocks the slot again in any case.
CreateFileTransfer(n, f, file) ==
  slots' = [slots EXCEPT ![n][Least(FreeSlots(n))] =
              [locked |-> FALSE, sha |-> f, file |-> file]]

(***************************************************************************)
(* handlemetadata: filetransfer_add, then create_file_transfer, then, if    *)
(* the destination could be opened, the request for part 0.                 *)
(***************************************************************************)
HandleMetadata(n) ==
  /\ Receives(n, "Metadata") /\ Msg(n).data[1] = "meta"
  /\ LET f == Msg(n).data[2]
     IN  /\ FiletransferAdd(n, f)
         /\ \/ /\ FreeSlots(n) = {}
               /\ chan' = Take(n)
               /\ UNCHANGED slots
            \/ /\ FreeSlots(n) # {} /\ "dest" \in setup.unopenable
               /\ CreateFileTransfer(n, f, NoHandle)
               /\ chan' = Take(n)
            \/ /\ FreeSlots(n) # {}
               /\ CreateFileTransfer(n, f, <<"dest", f>>)
               /\ chan' = TakeAndSend(n, [type |-> "RequestFilePart",
                                          sha |-> f])
  /\ UNCHANGED <<uploads, disk, requested, status>>

\* handlefilepartrequest leaves the slot locked; the thread unlocks it.
HandleFilePartRequest(n) ==
  /\ Receives(n, "RequestFilePart")
  /\ LET f == Msg(n).sha
         i == Least(FreeSlots(n))
     IN  \/ /\ FreeSlots(n) = {} \/ "data" \in setup.unopenable
            /\ UNCHANGED <<slots, uploads>>
         \/ /\ FreeSlots(n) # {}
            /\ slots' = [slots EXCEPT ![n][i] =
                           [locked |-> TRUE, sha |-> f, file |-> <<"data", f>>]]
            /\ uploads' = uploads \cup
                 {[node |-> n, type |-> "FilePart", slot |-> i,
                   file |-> f, buf |-> NoHandle, pc |-> "read"]}
  /\ chan' = Take(n)
  /\ UNCHANGED <<rows, disk, requested, status>>

\* filetransfer_part_ready marks the first row of the file.
RowsOf(n, f) == {k \in 1..Len(rows[n]) : rows[n][k].sha = f}
FiletransferPartReady(n, f) ==
  rows' = IF RowsOf(n, f) = {} THEN rows
          ELSE [rows EXCEPT ![n][Least(RowsOf(n, f))].ready = 1]

(***************************************************************************)
(* handlefilepart waits for the lock of the slot, writes through its file   *)
(* and clears it when the file consists of a single part.                   *)
(***************************************************************************)
HandleFilePart(n) ==
  /\ Receives(n, "FilePart")
  /\ LET f == Msg(n).sha
         i == Least(SlotsOf(n, f))
     IN  \/ /\ SlotsOf(n, f) = {}
            /\ UNCHANGED <<slots, rows, disk>>
         \/ /\ SlotsOf(n, f) # {} /\ ~slots[n][i].locked
            /\ slots[n][i].file[1] = "meta"           \* opened for reading
            /\ UNCHANGED <<slots, rows, disk>>
         \/ /\ SlotsOf(n, f) # {} /\ ~slots[n][i].locked
            /\ slots[n][i].file[1] = "dest"
            /\ disk' = [disk EXCEPT ![n][slots[n][i].file[2]] = Msg(n).data]
            /\ FiletransferPartReady(n, f)
            /\ slots' = IF Msg(n).data \in {"data"} \X setup.big THEN slots
                        ELSE [slots EXCEPT ![n][i] = Empty]
  /\ chan' = Take(n)
  /\ UNCHANGED <<uploads, requested, status>>

-----------------------------------------------------------------------------
\* The threads sendmetadata and send_file_part_thread

At(u, pc) == status = "ok" /\ u \in uploads /\ u.pc = pc
Step(u, v) == uploads' = (uploads \ {u}) \cup {v}
SlotOf(u) == slots[u.node][u.slot]

\* send_file_part: fread from whatever file the slot has now,
ReadPart(u) ==
  /\ At(u, "read") /\ SlotOf(u).file # NoHandle
  /\ Step(u, [u EXCEPT !.buf = SlotOf(u).file, !.pc = "send"])
  /\ UNCHANGED <<slots, rows, disk, chan, requested, status>>

\* then send it under whatever name the slot has now.
SendPart(u) ==
  /\ At(u, "send")
  /\ LET msg == IF u.type = "Metadata"
                THEN [type |-> "Metadata", data |-> u.buf]
                ELSE [type |-> "FilePart", sha |-> SlotOf(u).sha,
                      data |-> u.buf]
     IN  chan' = [chan EXCEPT ![Other(u.node)] = Append(@, msg)]
  /\ Step(u, [u EXCEPT !.pc = IF u.type = "Metadata" THEN "clear"
                              ELSE "unlock"])
  /\ UNCHANGED <<slots, rows, disk, requested, status>>

\* clear_file_transfer: before unlocking for metadata, after it for a part.
ClearTransfer(u) ==
  /\ At(u, "clear") /\ SlotOf(u).file # NoHandle
  /\ slots' = [slots EXCEPT ![u.node][u.slot].file = NoHandle,
                            ![u.node][u.slot].sha = NoFile]
  /\ \/ u.type = "Metadata" /\ Step(u, [u EXCEPT !.pc = "unlock"])
     \/ u.type = "FilePart" /\ uploads' = uploads \ {u}
  /\ UNCHANGED <<rows, disk, chan, requested, status>>

UnlockTransfer(u) ==
  /\ At(u, "unlock")
  /\ slots' = [slots EXCEPT ![u.node][u.slot].locked = FALSE]
  /\ \/ u.type = "FilePart" /\ Step(u, [u EXCEPT !.pc = "clear"])
     \/ u.type = "Metadata" /\ uploads' = uploads \ {u}
  /\ UNCHANGED <<rows, disk, chan, requested, status>>

-----------------------------------------------------------------------------
\* The standard library is given NULL, or a message is not what it says.

NullFile(u) ==
  /\ At(u, "read") \/ At(u, "clear")
  /\ SlotOf(u).file = NoHandle
  /\ status' = "undefined"
  /\ UNCHANGED <<slots, uploads, rows, disk, chan, requested>>

\* handlefiletransfer closes the data file without a look at what fopen returned.
MissingFile(n) ==
  /\ Receives(n, "RequestFileTransfer") /\ FreeSlots(n) # {}
  /\ "data" \in setup.unopenable
  /\ status' = "undefined"
  /\ UNCHANGED <<slots, uploads, rows, disk, chan, requested>>

BadMessage(n) ==
  /\ \/ Receives(n, "Metadata") /\ Msg(n).data[1] # "meta"
     \/ /\ Receives(n, "FilePart") /\ SlotsOf(n, Msg(n).sha) # {}
        /\ LET s == slots[n][Least(SlotsOf(n, Msg(n).sha))]
           IN  ~s.locked /\ s.file[1] \in {"none", "data"}
  /\ status' = "undefined"
  /\ UNCHANGED <<slots, uploads, rows, disk, chan, requested>>

Handle(n) == \/ HandleFileTransfer(n) \/ HandleMetadata(n)
             \/ HandleFilePartRequest(n) \/ HandleFilePart(n)
Run(u) == ReadPart(u) \/ SendPart(u) \/ ClearTransfer(u) \/ UnlockTransfer(u)

Next == /\ \/ \E f \in Files : Request(f)
           \/ \E n \in Nodes : Handle(n) \/ MissingFile(n) \/ BadMessage(n)
           \/ \E u \in uploads : Run(u) \/ NullFile(u)
        /\ UNCHANGED setup

Spec == Init /\ [][Next]_vars

\* Data that was sent arrives and threads are scheduled; users are free.
FairSpec == /\ Spec
            /\ \A n \in Nodes : WF_vars(Handle(n) /\ UNCHANGED setup)
            /\ WF_vars((\E u \in uploads : Run(u)) /\ UNCHANGED setup)

-----------------------------------------------------------------------------

(***************************************************************************)
(* What a download writes under a file's name is that file's data: neither  *)
(* another file nor another file's metadata (send_file_part reads file and  *)
(* name of its slot one after the other), if uploads are prompt.            *)
(***************************************************************************)
ContentIntact == setup.prompt =>
                   \A n \in Nodes, f \in Files :
                     disk[n][f] \in {NoHandle, <<"data", f>>}

AllOpens == setup.unopenable = {}

(***************************************************************************)
(* No handler and no thread uses the file of a slot that has been cleared,  *)
(* if uploads are prompt and every file opens.                              *)
(***************************************************************************)
FilesOpen == setup.prompt /\ AllOpens => status # "undefined"

(***************************************************************************)
(* A slot is locked only for a running upload, which will unlock it: an     *)
(* upload never leaves a slot locked for good.                              *)
(***************************************************************************)
LocksHaveOwners ==
  \A n \in Nodes, i \in Slot :
    slots[n][i].locked =>
      \E u \in uploads : /\ u.node = n /\ u.slot = i
                         /\ u.type = "FilePart" /\ u.pc # "clear"

(***************************************************************************)
(* The slots of a peer: what they hold is a file or nothing, a lock has     *)
(* its owner, and no file is used after its slot was cleared.               *)
(***************************************************************************)
SlotsInv == TypeOK /\ LocksHaveOwners /\ FilesOpen

(***************************************************************************)
(* A download that waits for its data has a row in the status table, so     *)
(* that filetransfer_part_ready finds it (gethelper would compare with the  *)
(* NULL name of an unused row otherwise), unless the table is full.         *)
(***************************************************************************)
RowFound ==
  \A n \in Nodes, i \in Slot :
    slots[n][i].file[1] = "dest" =>
      RowsOf(n, slots[n][i].sha) # {} \/ Len(rows[n]) = MaxTransfers

\* f is asked for and has not arrived.
Pending(f) == f \in requested /\ disk[Receiver(f)][f] = NoHandle

(***************************************************************************)
(* A file that both nodes can open and that is transferred while no other   *)
(* transfer runs arrives, whatever earlier transfers left in the slots and  *)
(* in the table of rows, if every upload ends before its node handles the   *)
(* next message (setup.prompt).  The code does not see to the latter, and   *)
(* without it even a lone transfer may fail: handlefiletransfer unlocks the *)
(* slot before sendmetadata has cleared it, the RequestFilePart that        *)
(* answers puts the file of this very transfer into it, and                 *)
(* clear_file_transfer then closes that.                                    *)
(***************************************************************************)
CompletesAlone ==
  setup.prompt /\ AllOpens => \A f \in Files :
    [](Pending(f) => \A g \in Files : Pending(g) => g = f)
    => (f \in requested ~> ~Pending(f))

(***************************************************************************)
(* The same without the premise about uploads, which the code refutes.      *)
(***************************************************************************)
CompletesLate ==
  AllOpens => \A f \in Files :
    [](Pending(f) => \A g \in Files : Pending(g) => g = f)
    => (f \in requested ~> ~Pending(f))

(***************************************************************************)
(* Every file a user asks for arrives.  With a slot for each of several     *)
(* transfers at a time, this includes transfers that overlap.               *)
(***************************************************************************)
Completes == \A f \in Files : f \in requested ~> disk[Receiver(f)][f] # NoHandle

(***************************************************************************)
(* "Returned struct should NOT be modified if file_lock is not locked":     *)
(* the file and the name of a slot change only while it is locked or by the *)
(* handler that locks it in the same step.                                  *)
(***************************************************************************)
ModifiedLocked ==
  [][ \A n \in Nodes, i \in Slot :
        (chan[n] = chan'[n] /\ slots[n][i].file # slots'[n][i].file)
        => slots[n][i].locked ]_vars
=============================================================================

# tapi2p in TLA+

Specifications of the tapi2p core, of the connections between cores and of the
websocket bridge, the TLC runs that check them on small instances, and proofs of
every safety property of the passing runs, for every instance. tapi2p is a
friend-to-friend chat and file-sharing program: a C *core* with four threads keeps
a table of peers, and user interfaces talk to it over a unix socket.

Everything here is translated from the source in `src/`; file and line of each
definition are in the `map` of `PROJECT.json`.

## The system

| part | source | state | operations |
|---|---|---|---|
| Peer table | `core/peermanager.c`, `peer.c`, `ptrlist.c` | `m_peers`, `m_peercount`, `m_peersize`, `m_iterator`, the descriptor sets and their maxima | `peer_new`, `peer_exists`, `peer_exists_simple`, `peer_remove`, `peer_next`, `peer_addtoset`, `peer_removefromset`, `list_add_node` |
| Core threads | `core/core.c`, `util.c` | the pointers and sockets each thread works on, `delptrs` | `connection_thread`, `connect_to_peers`, `read_thread`, `send_event_to_peer_internal`, the main loop |
| Pipes | `core/pipemanager.c`, `event.c` | `pipe_fds`, `pipe_slot`, `pipeset`, `fd_max` | `pipe_add`, `pipe_remove`, `poll_event_from_pipes`, `send_event_to_pipes`, `event_recv` |
| File transfers | `core/handlers.c`, `peer.c`, `filetransfermanager.c` | 64 slots with a lock per peer, the rows of the status table, sending threads | the handlers of the transfer events, `send_file_part_thread`, `sendmetadata` |
| Start and stop | `core/core.c`, `event.c`, `main.c` | `run_threads`, `setupstatus`, the listeners, the start semaphore | `core_start`, `handlesetup`, `handlestatus`, `core_stop` |
| Websocket bridge | `ui/web/server/tapi2p_websocket.c` | `data_to_send`, `unsent_data`, `welcome_message_sent` | `coreeventhandler`, `tapi2p_callback`, `send_json` |
| Frames and encryption | `core/core.c`, `crypto/aes.c`, `handlers.c` | `m_Salt`, `m_Encrypt`, `encdata`, `databuf`, `received`, O_NONBLOCK of the socket | `send_event_to_peer_internal`, `send_file_part`, `aes_encrypt_random_pass`, the loops of `read_thread` |
| Keys, configuration, metadata | `crypto/keygen.c`, `core/core.c`, `handlers.c`, `file.c`, `pathmanager.c` | the files `self`, `self.pub`, `config`, `public_key_*`, `metadata/*` and the configuration in memory | `generate`, `core_init`, `handlesetup`, `handleaddpeer`, `handleaddfile`, `handlemetadata` |
| Clients | `ui/cli`, `ui/curses_ui`, `ui/web/js` | | environment of the models |
| dtgconf | a submodule that is not in the repository | | external |

How they interact. `connection_thread` and `try_connect_loop` put peers into the
table; `read_thread` walks it, receives frames and runs the listeners of their
events inside the walk; the main loop receives the events of the interfaces and
runs handlers that walk the table or look a peer up. A frame of a peer may be
forwarded to the interfaces by the read thread while the main loop changes the
pipes. The handlers of transfer events start threads that share the slots of a
peer with later handlers. Everything is steered by `run_threads`. The websocket
bridge is one more interface: an event thread receives what the core sends, the
libwebsockets loop sends it on.

What is hard:

- **shared iterator, moving array**: `peer_next` walks with one iterator for all
  threads and holds the table's lock between two calls; `peer_new` may move the
  array and `peer_remove` shifts it while others hold pointers into it;
- **probes**: a lookup puts a half-filled entry into the table, compares it and
  removes it again, also in the middle of a walk;
- **select**: its sets and maxima are changed by three threads;
- **pipes without a lock**: the main loop and the read thread both scan and
  remove;
- **slot locks** that serve both to reserve a slot and to guard its contents;
- **one flag** that SIGINT, the Setup handler and the main thread assign;
- **ordering at the start**: threads run before the listeners are there;
- **two cores that dial each other**: an entry has two sockets that two threads
  fill in, and a peer may come back before its end was noticed;
- **one socket, several senders**: nothing serialises the threads that encrypt and
  send to a peer, and the socket's O_NONBLOCK is switched under them;
- **a stream read in pieces**: header and body loops take what `recv` gives;
- **crashes**: a core can be killed between any two of the files it writes.

`PROJECT.json` lists each hazard at its line, with the properties that cover it or
the reason why none does.

## The modules

`PeerTable` — the table as a value: a record of size, count, array, iterator and
generation, and one operator per function of `peermanager.c`. Entry `i` of the
array is `mem[i]`; a `struct peer*` is a record of generation and slot, so a
pointer into an array that `realloc` has moved can be told from a live one
(`Valid`). `memmove` in `peer_remove` is modelled by what it moves, the entry too
many included; `RemoveOverruns` says when it reads outside. Keys stand for the
bytes by which `peer_remove` compares whole entries.

`PeerRegistry` — what the table promises a single caller: a set of peers that is
visited in rounds, every peer once per round. `PeerTableSeq` — the table in the
hands of one thread, with `delptrs` as `list_add_node` really keeps it;
`ImplementsRegistry` is the refinement (`Registry == INSTANCE PeerRegistry WITH
registered <- the keys of the live entries, seen <- those before the iterator`).

`CoreThreads` — the four threads over one `PeerTable`. One action is one critical
section of `m_lock` or one stretch of code between two; `pc[t]` says where thread
`t` is, `ptr[t]` which entry it works on. `Shared(t)` holds the calls all threads
make, `Conn`, `Try`, `Read`, `Main` the thread's own code. Where the code uses a
pointer that no longer designates an entry, `UseDangling` ends the behaviour with
`status = "undefined"`: nothing after it is claimed. Failed assertions end it as
well. A pointer may also designate another peer's entry, into which the array's
shift has put it; the code goes on with that one, and so does the model, with the
history variable `strayed` set from then on. `FD_CLR` of the special values -1 and
-2 changes no set in the model. `read_thread` is in the loop that takes the body at
`r_body`, with `m_lock` held; the loop can end, or find the connection closed and go
round for ever. The pieces of a body are `PeerLink`'s matter.

`PipeManager` — the slots of the interfaces, scanned by the main loop and by one
thread that sends; each slot of a scan is a step. The other end of a descriptor
(`client`, `inbox`, `unread`) is external: an interface may write, read and close,
and closing a unix socket with unread data resets it.

`FileTransfer` — two nodes. `setup` is one of `Setups`: which files are wanted,
which are big, what `fopen` may refuse, and whether sending threads are prompt.
`chan[n]` is what node `n` still has to receive (TCP:
reliable and ordered), `slots[n]` are the transfer slots of the one peer it has,
`rows[n]` the status table, `uploads` the threads. A file handle is what it was
opened on, so that "which bytes go under which name" can be asked.

`CoreStart` — `core_start` from its first wait to its end, with the signal, the
event queue of the interfaces, the threads' start and the listeners. Of the
listeners, those are kept whose registration changes, and one that stands for
the events of peers. The state before line 707 of `core.c`, where `run_threads`
is assigned, is not modelled: a signal before it is another matter.

`Connections` — two cores, each with its accepting and its connecting thread and
the end of a connection in `read_thread`, over a network whose connections are
numbered. A core's table is the function `entries[n]` from places to entries; an entry
has the two sockets with the special values -1 and -2 of the code. `Setups` says
whose port can be reached and who has the other's key file at first. A connection
may be made although `check_writability` gave up, a core may go away and be
started again (both counted by `MaxTroubles`). Two states are the beginning of
behaviour nothing is claimed about, and end it: `overlap`, when a connection is
accepted while the connecting thread is at work on the same peer, and `stale`, when
a connection is given to an entry that is not an idle oneway one. How the threads
of one core meet in the table is `CoreThreads`' matter.

`PeerLink` — one connection from the threads that send on it to what the reader
decrypts. A frame is two units of header, with the salt in the first and the
lengths in the second, and a few of body, so that a header or a body can come in
pieces and be mixed. `Cipher` has the static data of `aes.c` as a value: a
ciphertext records the context that `EVP_EncryptUpdate` and `EVP_EncryptFinal_ex`
found, and decrypts if both were right for the message and the salt. `causes`
records the disturbances: two threads encrypt at once (`overlap`), one sends while
another waits in send (`interleaved`), a nonblocking send is cut short
(`truncated`), a header comes in two pieces (`short`), a piece of body reaches into
the next frame (`beyond`), the sender goes in the middle of a frame (`cut`).
`MessageStream` is what the handlers are promised; `ImplementsStream` is the
refinement (`broken <- causes # {}`). A cleaned context or a write behind
`databuf` ends the behaviour.

`Storage` — the files of a core over several lives. A file is `Torn` from `fopen`
to `fclose`: the texts are shorter than stdio's buffer, so that nothing is in the
file before it is closed, and what a torn configuration loads as is the empty one.
Two threads save: one step each for opening, `config_flush` and closing. A text
that lacks things another thread has put into the file meanwhile is shorter and
leaves its tail behind (`mixed`), which ends the behaviour. `config_add` and
`config_flush` are external and taken as one step each; an operation on the
configuration by the other thread in the middle of one is not modelled. `Crash`
kills the process in any state and records what it caught torn.

`WebBridge` — the event thread and the service loop around the buffer. An event
whose data is not UTF-8 does not become JSON and is dropped. This can happen to
the events in `NoText`: those whose text a peer has written in another encoding,
and those without data, for which the uninitialised byte behind the event is
taken. A configured nick is assumed, as a browser says Hello
only after a positive status (`tapi2p-backbone.js`).

The `MC*` modules give the constants values (`MCCoreTeams` those of `CoreTeams`, which
adds to `CoreThreads` a choice of the threads that a behaviour has); `*_proofs` hold the theorems.
Operators named like a definition with a suffix (`RewindNever`, `NextEndKeepsLock`)
are deliberate errors: each property is shown to fail when such an operator
replaces the original, see `mutants` in `PROJECT.json`.

## The runs

| run | instance | checked |
|---|---|---|
| `PeerTable` | 2 addresses, array of 2 that grows to 4 | `TableInv`, `LookupFinds`, `ImplementsRegistry`, `OnlyDeadDropped` |
| `CoreLocks` | one of two teams: accepting, reading and main thread, or connecting and reading thread; 1 address, 2 descriptors, connections begun while there are fewer than 2 entries, array 2 to 4, fair | `TypeOK`, `IteratorInBounds`, `LockDiscipline`, `SelectCovers`, `RoundExclusive`, `SetsOpen`, `LoneRoundComplete`, `LockReleased` |
| `Connect` | both reachable and keyed, or one of them unreachable, or one without the key at first; 6 connections, 1 trouble, fair | `EntriesInv`, `Watched`, `Agree`, `FindEachOther` |
| `Link` | the main thread sends an event and a nonblocking one, a thread a part of 2 units of body; 3 units in the socket, fair | `LinkInv`, `OnceInOrder`, `ImplementsStream`, `Delivered`, `BodyFinishes` |
| `Pipes` | 2 slots, 3 descriptors, 1 event each, a sender, interfaces that close, fair | `TypeOK`, `SlotsMatchSet`, `EventsReceived`, `BroadcastReaches` |
| `Transfers` | 2 slots, and either 3 files in both directions with prompt threads, or 2 files in opposite directions, one of them big, with every interleaving and every `fopen` failing at will; fair | `SlotsInv`, `ContentIntact`, `RowFound`, `CompletesAlone` |
| `Disk` | 2 shared files, 1 download, 1 peer, 3 lives | `KeysInv`, `Kept`, `ReferencesWhole`, `HashesTruthful` |
| `Start` | fresh or configured, 3 events of interfaces, 1 of a peer, SIGINT any time, fair | `SetupInv`, `StatusTruthful`, `StartsUp`, `StopsOnceSetUp` |
| `Bridge` | 1 browser, buffer of 2, 3 events, the data of one perhaps not UTF-8, 2 Hellos, fair | `BridgeInv`, `Forwarded`, `WelcomeAnswered` |
| `CorePointers` | accepting and main thread | refutes `PointersLive` |
| `TransferOverlap` | 2 files, 3 slots | refutes `Completes` |
| `StartStop` | as `Start` | refutes `StopHonoured` |

Some invariants are conjunctions of named parts, each stated in its module:
`TableInv` (`TypeOK`, `UniqueIdentity`), `EntriesInv` (`EntriesTypeOK`, `OneEntry`,
`StatusHonest`), `LinkInv` (`TypeOK`, `SafeAlone`, `OneGoodbye`), `SlotsInv`
(`TypeOK`, `LocksHaveOwners`, `FilesOpen`), `KeysInv` (`TypeOK`, `PairMatches`,
`StartsUnlessTorn`), `ReferencesWhole` (`PeersHaveKeys`, `MetadataBehindHash`),
`SetupInv` (`TypeOK`, `SetupOnce`), `BridgeInv` (`TypeOK`, `ExactlyOnce`).

What they show, and why the bounds are enough:

- `PeerTable`: two addresses give equal and different entries, a table of 2 that
  grows to 4 passes through empty, one short of full, full, `realloc` in place
  and `realloc` that moves. Array sizes 3 to 6 were run as well (2.9 million
  states) with the same result. To a single caller the table is a registry: probes
  in the middle of a round do not make it skip or repeat a peer.
- `CoreLocks`: with three threads there are two that add entries and one that
  removes; the array grows once. No interleaving leaves the lock with a thread
  that is not in a round, moves the iterator out of the table or lets `select`
  miss a descriptor; while a round holds the lock no other thread changes the
  table; and no step leaves a closed descriptor in a set unless a pointer has
  already gone stale. `LockReleased` says that rounds, their ends and the handlers
  inside them give the lock up, and has a premise: bodies that have begun arrive and
  what is sent is taken (`Served`). The code waits for both with the lock held, so
  without the premise TLC refutes it. TLC did not finish all four threads at
  once; the theorems below cover them.
  The second team adds and probes while the read thread walks and removes: with
  one walker and one thread beside it a round is complete. It is not with two
  walkers, nor with both dialling threads beside one: see the deviations.
- `Connect`: six connections are enough for both to dial at once, for each to
  dial back, and for all of that once more after a restart. `Agree` is about states
  in which nothing is under way; `FindEachOther` says that such a state with both
  directions in order is reached and kept. With nine connections and two troubles
  the invariants hold as well (2.2 million states).
- `Link`: a part of two units overruns a socket of three behind an event, so
  sends wait, are cut short and mix; every cause occurs. `OnceInOrder` shows that the
  magic number and the salt are enough: whatever is put together from pieces of
  different frames, it either does not decrypt or is the next message. `Delivered`
  and `BodyFinishes` are about behaviours without a cause.
- `Pipes`: with three descriptors both slots are used, freed and used up.
  An interface is heard as long as none has left; a
  broadcast reaches every interface that was connected throughout; and only one
  kind of step breaks the slots, a thread's removal of what the other has removed
  before (`RemovesNothing`): `pipe_remove(-1)` lowers `pipe_slot` although no slot is
  freed (`pipemanager.c:50`). That the main loop's second removal does so too shows
  only with three slots: TLC passes that instance as well (`MaxListeners = 3`, about
  four minutes), and the theorem holds for every number.
- `Transfers`: three files with two slots run out of slots, and two directions
  make handlers and sending threads of one node share them. `prompt` says that a
  sending thread ends before its node handles the next message, which the code does
  not see to. Without it `ContentIntact`, `FilesOpen` and `CompletesAlone` fail: a
  slot may be given to the next transfer, or to the next message of the same one,
  between the unlock and the clearing. So these three are claimed of the prompt setup
  only, the last two as long as every file opens; `RowFound` and `LocksHaveOwners` of
  both setups.
- `Disk`: three lives are one that is killed while it generates, saves or hashes,
  one that finds what is left, is killed too, and one that runs. Each property names
  the kill it excludes (`mishaps`), and the deviations show what that kill does.
- `Start`: three events suffice for a status, a set-up and one event behind it in
  every order; the peer's event falls into every phase of the start.
- `Bridge`: three events overrun a buffer of two, which ends the behaviour.

**Fairness.** Threads are scheduled. `CoreThreads`: a thread goes on where it does not
depend on somebody outside (`~Waits(t)`); nobody is obliged to connect, to send, to
complete a body, to take what is sent or to start a round. `PipeManager`: the main loop polls for ever and a send goes on,
which `select` with its timeouts justifies. `CoreStart`: the main thread and the
threads that leave are scheduled, `select` waits a second at most; SIGINT,
interfaces and peers are free. `FileTransfer`: what was sent arrives and threads
run. `WebBridge`: both threads run; libwebsockets calls back for a writable
socket, as the callback asks at its end. `Connections`: the three threads of each
core go on (`try_connect_loop` dials every 15 seconds) and a core that went away
is started again, which is the user's part. `PeerLink`: threads go on, and what was
sent arrives; the sending core may close the connection and need not. `Storage` has
no fairness and no liveness property. Except in `PeerLink` and `CoreThreads` a
frame or event that begins to arrive is assumed to arrive whole.

`CHECK_DEADLOCK FALSE` is set where the system may end (a failed assertion, a
dangling pointer, an exit) or where users may simply do nothing more.

## Known deviations

Three runs refute a statement of the code's own comments and documentation; the
findings of `PROJECT.json` quote them. The models contain more, which can be seen
by adding a definition to a configuration in place of its properties:

| definition | module | add to | what happens |
|---|---|---|---|
| `RemovalStaysInside` | PeerTableSeq | PeerTable | removing an entry of a full table moves one entry from behind the array (`peermanager.c:202`) |
| `DeadPeersRemoved` | PeerTableSeq | PeerTable | `list_add_node` keeps the last pointer only, so of two peers that hang up in one round one stays (`ptrlist.c:24`) |
| `LockReleased` without its premise `Served` | CoreThreads | CoreLocks | `read_thread` stays in the loop over a body, or in a send, with `m_lock` held (`core.c:485`, `core.c:645`) |
| `RoundComplete` | CoreThreads | CoreLocks | a second walker moves the iterator of the first, which misses peers (`peermanager.c:186`) |
| `LoneRoundComplete` | CoreTeams | CoreLocks with a team of `conn`, `try` and `read`, 4 descriptors, array and entries 4 | so does the removal of a probe that was visited already, with the entry of `connection_thread` behind it: `peer_remove` takes the iterator back only at the end of the table (`peermanager.c:204`) |
| `SendHasSocket` | CoreThreads | CoreLocks | a walk comes to an entry that is not filled yet: `assert(fd >= 0)` (`core.c:632`) |
| `NoneClosed` | CoreThreads | a configuration with `conn` and `try`, 2 addresses, 4 descriptors, 3 entries and an array of 8 | a probe is removed, the pointer of `connection_thread` then designates the entry that `try_connect_loop` has added, and it closes that one's socket, which stays in both sets (`core.c:413`) |
| `SocketsDiffer` | CoreThreads | CoreLocks | `peer_addtoset` gets an entry with two equal sockets (`peermanager.c:110`) |
| `NobodyDeaf` | PipeManager | Pipes with 4 slots, without a sender | `pipe_remove` puts the index of a slot into `fd_max` instead of a descriptor, and `select` asks too few (`pipemanager.c:46`) |
| `StaysInSlots` | PipeManager | Pipes | interfaces that come and go drive `pipe_slot` off the array (`pipemanager.c:22`) |
| `SurvivesDisconnect` | PipeManager | Pipes | an interface that closes with an unread answer ends the core (`event.c:98`) |
| `ModifiedLocked` | FileTransfer | Transfers | a sending thread clears a slot after it has unlocked it (`handlers.c:92`) |
| `FilesOpen` without its premise | FileTransfer | Transfers | and so closes the file of the next transfer |
| `CompletesLate` | FileTransfer | TransferOverlap with one file, not prompt | `sendmetadata` clears the slot that the part request of the same transfer has just filled (`handlers.c:119`, `handlers.c:272`, `handlers.c:293`) |
| `ContentIntact` without its premise | FileTransfer | Transfers with two files of one node | or sends that file under the name of another |
| `NoEventDropped` | CoreStart | Start | a peer's event finds no listener yet (`core.c:763`) |
| `WelcomeAnswered` | WebBridge | Bridge with two browsers | the welcome goes to the browser that is writable first (`tapi2p_websocket.c:142`) |
| `ExistingIsOneway` | Connections | Connect | a peer comes back before its last connection was removed, and its new connection goes to the old entry (`core.c:359`) |
| `ThreadsApart` | Connections | Connect | both threads are at work on one peer: two entries, or an upgrade that `check_peer_key` undoes (`core.c:581`, `core.c:595`) |
| `ReadSetOwned` | Connections | Connect | the socket of a oneway peer that hung up stays in the read set (`peermanager.c:73`) |
| `RoundTrip` | PeerLink | Link | two threads encrypt at once and a frame carries the other's salt (`aes.c:29`, `aes.c:85`) |
| `BodyAlwaysFinishes` | PeerLink | Link | the peer goes in the middle of a frame and `read_thread` stays in its loop (`core.c:488`) |
| `BufferHolds` | PeerLink | Link | a cleaned context is used, or a piece of the next frame goes behind `databuf` (`aes.c:75`, `core.c:487`) |
| `AlwaysStarts` | Storage | Disk | a private key that was left torn counts as there and is never generated again (`core.c:174`, `core.c:747`) |
| `SavedForGood` | Storage | Disk | a core killed between `fopen` and `fclose` has lost its configuration (`handlers.c:758`) |
| `SavesApart` | Storage | Disk | two threads save and the file has one text and the tail of another (`handlers.c:347`, `handlers.c:764`) |
| `MetadataAlwaysBehindHash` | Storage | Disk | metadata that was left torn "already exists" (`file.c:99`) |
| `MissingHashless` | Storage | Disk | a shared file that cannot be opened gets the hash of the file before it (`core.c:219`) |

## The proofs

`CoreThreads_proofs` proves for every set of threads, addresses and descriptors,
every initial and largest size of the array and every `MaxPeers`, from lemmas about
the table's operators (on a table whose iterator and count are in bounds,
`peer_new`, `peer_remove`, `peer_free` and the iterator's operators return one; a
fresh identity always exists; `peer_exists` returns a pointer or none):

- `Typing` : `Spec => []TypeInv`, where `TypeInv` is `TypeOK /\ IteratorInBounds`.
  `TypeOK` alone is not inductive: `peer_new` stores at index `m_peercount`,
  which lies in the array only because the count is at most the size, and
  `peer_next` reads at the iterator, which is below the count only because
  `peer_remove` takes it back when an entry before it goes. One lemma per thread
  (`SharedTypes`, `ConnTypes`, `TryTypes`, `ReadTypes`, `MainTypes`,
  `FailureTypes`) has a case per action.
- `CoreTypes` and `IteratorStaysInBounds`: its two halves.
- `LockIsDisciplined` : `Spec => []LockDiscipline`, inductive together with
  `TypeOK`. The lemmas split an action into "keeps the lock's owner and the
  places of the other threads" (`LockKept`) and the few that take or give it.
- `SelectSeesAll` : `Spec => []SelectCovers`, inductive with `TypeOK`; the only
  step that adds to a set raises the maximum with it (`AddCovers`), and maxima
  never fall.
- `RoundsAreExclusive` : `Spec => RoundExclusive`, an action property. `RoundStep`
  shows that every step which changes count, generation or iterator of the table
  is a step of a thread that may take the lock, hence of its owner, whose `pc`
  changes; `LockDiscipline` is not needed for it, `TypeInv` is.
- `SetsStayOpen` : `Spec => []SetsOpen`, from `SetsInv`: as long as no pointer has
  strayed, an open descriptor is in one entry or one thread's hands (`Open`,
  `Single`), and the one `connection_thread` may have to close is in no set and in
  no other place (`Closable`). `Derived` says how the entries of a table come from
  those of the one before, through growth, removal and a moved array; a step of
  that kind (`Quiet`) keeps the invariant, and each step that opens, stores or
  closes a descriptor has a lemma of its own. As an action property that asked for
  live pointers in the present state only, `SetsOpen` could not be proved, and TLC
  found the counterexample that is now under the known deviations: a pointer that
  was astray earlier has done its damage. It is an invariant now, with `strayed`.
- `LoneRounds` : `TeamSpec => LoneRoundComplete`. `LoneInv` follows a round with nobody
  but the connecting thread beside it. What is still due lies ahead of the iterator
  (`Ahead`), because during the round only the last entry is removed: the probe of
  `read_thread` is the last entry as long as it holds the lock, and what the pointer
  of `try_connect_loop` designates is the last of the others or, after a deferred
  removal, nothing or that probe (`OwnEntry`), which a removal by comparison cannot
  take for a peer, as entries differ in key or socket (`Distinct`, `StoredOnce`).
  `LoneInv` was checked by TLC first (3 descriptors, array 2 to 4; and as far
  as depth 79 with 2 addresses, 4 descriptors and an array of 6). With
  `connection_thread` as a third one the property does not hold (see the deviations).

The first half of `Peers_proofs` is about the table in the hands of one caller, for
every set of addresses and array size:

- `SeqTyping` : `Spec => []SeqInv`. Besides types and bounds `SeqInv` says that
  identities differ (`peer_remove` compares whole entries, and would remove
  another one), that every entry kept has its port (a probe has one too, and
  `peer_exists` compares both), that the iterator is back at the start outside a
  round, and what the loop's `p` and `delptrs` designate.
- `TableStays`, `LookupsFind`: `TableInv` and `LookupFinds`. For the second the probe
  is followed through `PeerNew`, `PeerExists` and `PeerRemove`: a pointer found while
  the probe is in the table still designates that peer after its removal, as the
  probe is the last entry.
- `DeadOnly` : `OnlyDeadDropped`, from the part of `SeqInv` about `delptrs`.
- `TableImplementsRegistry` : `ImplementsRegistry`. The initial state maps to that of
  `PeerRegistry`, and each action to one of it or to a stutter; what has been seen
  in a round are the identities before the iterator, so the step of `peer_next`
  adds one only because identities differ.

Its second half is about the connections of two cores, for every number of
connections and of troubles, whoever can be reached and has the other's key:

- `ConnInductive` : `ConnSpec => []ConnIInv`. Its parts are claimed as long as the
  mishaps that the properties exclude have not come: `One` without an overlap, what
  is about a single core (`Local`) and between the two (`Delivered`, `Kept`) while
  the behaviour is `Orderly`, `InSets` without any mishap.
  - `One` : there is one entry for the other core, and a second place only for the
    probe of `connect_to_peers`.
  - `Local` : what the entry can be (dialled, connected both ways, one way from the
    other side, or waiting for the connection back) at each place of the accepting,
    the connecting and the reading thread (`DialShape`, `AccShape`, `EntryShape`); a
    connection that waits to be accepted is known to nothing else in the core
    (`Numbers`); and when the connection out of an entry has ended, so has the one
    into it (`Paired`).
  - `Delivered` : a live connection out of an entry is, at the other core, the last
    of the queue, with the accepting thread, or in the entry.
  - `Kept` : a core whose peer could not be dialled back has cut off what that peer
    could believe in.

  A lemma named `...Effect` says what an action changes, `...Local` that the core that
  acts stays in order, `StepBeside` and `OtherLocal` that the other one does. For
  `Delivered` and `Kept` the two cores are taken together: `OutStep` and `ArrivedStep`,
  `OnewayStep` and `CutStep` say how each side of the implication can change.
- `ConnEntries` (`EntriesInv`) and `ConnSets` (`Watched`) are read off it.
- `ConnAgreement` (`Agree`) : with nothing under way, `Delivered` leads from the entry
  of one core to that of the other, and back by `Delivered` or `Kept`.

The parts were checked by TLC before they were proved (six connections, two
troubles, 1.7 million states). The proof needs `MaxConns` to be positive: with no
connection at all `made` stays 0 and the type of the threads' variables is empty.

`PeerLink_proofs`, for every set of threads and messages, every length of bodies
and size of the socket's buffer:

- `LinkInductive` : `Spec => []LinkIInv`. Every message is sent by one thread and once
  (`Apart`), and whatever is on the wire, in the header or in the buffer is a unit of
  a frame that has entered it (`Known`).
- `LinkSafe` (`LinkInv`) : what the reader counts stays within its types (`Bounds`), and
  no cleaned context or memory behind `databuf` is used without a cause. For that,
  as long as no two threads encrypt at once, the static salt and context belong to
  the one that does, step by step (`Keyed`, `Encrypted`).
- `LinkInOrder` (`OnceInOrder`) : headers come in the order in which frames entered the
  stream (`Headers`), however they are cut and mixed; what is decrypted has the
  salt of its header (`Encrypted`), so it is later than all that was decrypted before
  (`Ordered`).
- `LinkStreams` (`ImplementsStream`), the refinement of `MessageStream`: without a cause
  of trouble the wire has exactly the units from the one `read_thread` gets next to
  the last one sent (`Streaming`: each unit follows the one before, `Joined`; its
  beginning fits the reader, its ending the thread that waits), so the next body
  is complete and its own.

`PipeManager_proofs`, for every number of slots, interfaces and events:

- `PipesKept` : `Spec => []PipesInv`: types (`PipeTypes`), scan positions in the
  array, no event received that was not sent, nothing anywhere about a descriptor
  nobody has connected to, every slot in use within reach of the loops over
  `0..pipe_slot`, and the slots the sender has passed served.
- `EventReachesAll` : `BroadcastReaches`, from the last two: what comes and goes in
  the slots during a scan may not move a live descriptor behind the scan.
- `SlotsStayConsistent` : `SlotsMatchSet`. The first attempt failed in the removals,
  and TLC with three slots showed the statement of that time, which excused the
  sender's second removal only, to be wrong; it now excuses both threads'.

`FileTransfer_proofs`, for every set of files and number of slots (nodes are two):

- `TransfersKept` : `Spec => []TransferInv`. `Typed` says that rows and channels are
  sequences and that an upload holds what it has read; it is inductive alone, and
  so are, with it, `LocksHaveOwners` and `RowFound`, whatever the threads do. For
  the second, rows are never removed or renamed (`RowsStay`).
- The rest of it, `OnTime`, is kept if uploads are prompt: a node has one upload at
  a time, which finds its slot as it was given to it (`Finds`); a slot without
  upload is empty or holds the destination of the download it is named after, if
  this could be opened (`AtRest`); and messages say what they carry (`Truthful`).
  All four are needed at once: data arrives truthful because the upload's slot was
  left alone, that is so because handlers found the others at rest, and they are at
  rest because the metadata upload clears its slot before it ends.
  `UploadStarts`, `UploadGoesOn`, `UploadEnds` and `SlotRests` are the four ways a
  step changes slots; each action is one of them.
- `SlotsOwned` (`SlotsInv`), `DownloadsListed` (`RowFound`) and `DownloadsIntact`
  (`ContentIntact`) follow.

`CoreStart_proofs`, for every number of events:

- `StartKept` : `Spec => []StartInv`, which says place by place of the main thread
  which listeners are registered, what `run_threads` and `setupstatus` can be, and
  what the semaphore counts. `SetUpOnce` (`SetupInv`) follows.
- `AnswersTruthful` : `StatusTruthful`, an action property: there is one listener
  for Status whenever an event is taken, and it answers what `setupstatus` or the
  set-up phase implies.

`WebBridge_proofs`, for every length of the buffer and number of browsers and
events:

- `QueuesKept` : `Spec => []QueueInv`. `ExactlyOnce` counts places; `QueueInv` says
  that no queue holds an event twice (`Distinct`), that the places exclude each
  other (`Apart`), that an event with UTF-8 data is in one (`Somewhere`), and why the
  threads do not disturb each other: the lock has the owner whose `pc` says so,
  and what the event thread has stored and not yet counted is behind the
  buffer's end. `BridgeKeepsEvents` (`BridgeInv`) counts again.

`Storage_proofs`, for every number of lives, peers and files:

- `StorageKept` : `Spec => []StorageInv`. There are several copies of the
  configuration, on the disk, in memory and in the buffer of each thread that saves,
  and any of them may be what the next life reads. `Copies` is all of them, and what
  the properties say of one is shown of each. `Located` (in `Typed`) says what the
  place of the main thread tells about the life and the variables of the loops.
- `KeysFit` has the order of `generate`: the public key is written first, so a
  private key that is there has its public one, and only a kill between the opening
  and the closing of the private key leaves a pair that no start can load.
- `PeersInv`: the key of a peer is closed before the peer is named in any copy.
- `MetaInv` relates the copies to the metadata and to each other. `Backed` says that
  a hash that a copy has belongs to a file whose metadata is there, `Behind` that
  what has a hash in any copy has one in memory. With the second, an item that the
  start is about to hash has a hash in no copy, so that the metadata file it opens,
  and which is torn until it is closed, is one that no copy refers to.
- `TruthInv`: each hash is its file's own, and its name leads back to the file.
- `KeptInv`: `Safe` says why two threads may save without a lock. Either one is
  about to write its copy of the memory, or the one of the open buffers that has
  all the others have has what was promised, or the file has it; a thread that
  closes replaces the file by a text that is no shorter, or the behaviour has the
  mishap `mixed`. The promises are in the memory of every life.
- `KeysFitTogether`, `SavedStays`, `ReferencesHold` and `HashesRight` (`KeysInv`,
  `Kept`, `ReferencesWhole`, `HashesTruthful`) follow. `StorageInv` was checked by
  TLC on the instance of the run `Disk` before it was proved.

The proofs rest on the named assumptions of the modules, which TLC evaluates in
every run: descriptors are natural numbers, in `PipeManager` larger than the index
of any slot, sizes and limits are positive and ordered, there are two
cores, the plan of `PeerLink` has each message once and in one thread, each file has
an owner, the values that stand for "none" or for a torn file
are none of the real ones, and the active threads are threads.

Every safety property of the passing runs is proved. Out of the prover's reach, and
left to TLC for good: the liveness properties (`LockReleased`, `FindEachOther`,
`Delivered`, `BodyFinishes`, `EventsReceived`, `CompletesAlone`, `StartsUp`,
`StopsOnceSetUp`, `Forwarded`, `WelcomeAnswered`), ENABLED, and induction over
data.

## Not modelled

- What OpenSSL computes, and failures of its calls: a key is there or not, a
  frame decrypts or not.
- Malformed JSON, bad ports and bad keys, which the handlers refuse without a
  change; the layout of the configuration (dtgconf is not in the repository) and of
  the metadata file; a disk that is full.
- In `FileTransfer`: a peer that is not connected, a lost connection, a file that
  is asked for twice, and the parts of a file after the first, which the code
  never asks for.
- In `CoreThreads`: partial and failing sends (they are in `PeerLink`), and the
  sockets of dead peers, which nothing closes.
- In `Connections`: more than two cores, and several peers behind one address,
  whose section of the configuration is one. What follows an overlap or a stale
  entry. In `PeerLink`: what follows a use of a cleaned context.
- The bridge's JSON conversion, but for its failure on other encodings, its shutdown, a core that goes away, the order of
  the events (newest first), which no document promises otherwise.
- The command line and curses clients, beyond what they send.

## Plan

What comes next: several peers in `FileTransfer`, with a peer that leaves during a
transfer.

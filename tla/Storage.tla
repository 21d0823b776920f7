------------------------------ MODULE Storage ------------------------------
(***************************************************************************)
(* What a core keeps on the disk over several lives of the process: its    *)
(* pair of keys (keygen.c), the configuration, the keys of its peers and   *)
(* the metadata of its files.  A file is empty from the moment it is       *)
(* opened for writing until it is closed; a process that is killed in      *)
(* between leaves it torn.  The main thread starts the core and serves the *)
(* user; the reading thread stores what a peer tells about a file that is  *)
(* downloaded.  A hash is named after the file it is the hash of.          *)
(***************************************************************************)
EXTENDS Integers, Sequences, FiniteSets

CONSTANTS Shared,     \* the files the user shares
          Fetched,    \* the files that are downloaded
          Peers,
          MaxStarts,  \* bound: lives of the core
          None,       \* no such file, no such thing
          Torn,       \* a file that was opened and not closed
          Null,       \* the value of an item that has none (NULL)
          EmptyHash   \* the value ""

Files == Shared \cup Fetched
Hashes == Files \cup {EmptyHash}

\* The sections Account, Metadata, the one named after a hash, and Peers.
Item == [file : Files, hash : Hashes \cup {Null}]
Config == [account : BOOLEAN, items : Seq(Item),
           names : [Hashes -> Files \cup {None}], peers : SUBSET Peers]
NoConfig == [account |-> FALSE, items |-> <<>>,
             names |-> [h \in Hashes |-> None], peers |-> {}]

Threads == {"main", "reader"}
Lives == 1..MaxStarts
Whole(c) == c \notin {None, Torn}

ASSUME FilesAssumption ==
  /\ Shared \cap Fetched = {}
  /\ None # Torn /\ Null # EmptyHash
  /\ {None, Torn, Null, EmptyHash} \cap (Files \cup Peers) = {}
ASSUME StartsAssumption == MaxStarts \in Nat
ASSUME WholeAssumption ==
  \A x \in {None, Torn} : x \notin Config /\ x \notin Lives /\ x # "whole"

VARIABLES
  key,       \* self and self.pub: None, Torn or the life that generated it
  conf,      \* the file config
  pkey,      \* [Peers -> the key file of the peer]
  meta,      \* [Files -> the file of metadata named after the hash]
  pc,        \* [Threads -> where the thread is]
  n,         \* the file of the pair, or the item, that is looked at
  sha,       \* sha_str of core_init
  peer,      \* the peer of AddPeer
  told,      \* the file of Metadata
  mem,       \* the configuration in memory
  buffer,    \* [Threads -> what the thread has written but not closed]
  self,      \* deckey: the key the core runs with
  readable,  \* the shared files that can be opened in this life
  starts,    \* lives begun
  promised,  \* what was saved once or answered with success
  mishaps

disk == <<key, conf, pkey, meta>>
scan == <<n, sha, readable>>
ghosts == <<starts, promised, mishaps>>
vars == <<disk, pc, scan, peer, told, mem, buffer, self, ghosts>>

Runs == self # None
At(t, l) == pc[t] = l
Move(t, l) == pc' = [pc EXCEPT ![t] = l]

Saving == {"open", "flush", "close"}

\* core_init and core_start, the main loop, the user's commands, and the saves
\* of a thread.
Starting == {"keys", "gen", "genclose", "scan", "hash", "setup", "load"}
Serving == {"run", "keyclose", "peer", "reply"}
Places(t) ==
  Saving \cup IF t = "main" THEN {"off", "failed"} \cup Starting \cup Serving
                            ELSE {"idle", "create", "add"}

\* No item is listed twice.
Distinct(c) ==
  \A i, j \in DOMAIN c.items : c.items[i].file = c.items[j].file => i = j

TypeOK ==
  /\ key \in [{"priv", "pub"} -> Lives \cup {None, Torn}]
  /\ conf \in Config \cup {None, Torn}
  /\ pkey \in [Peers -> {None, Torn, "whole"}]
  /\ meta \in [Files -> {None, Torn, "whole"}]
  /\ pc \in [Threads -> Places("main") \cup Places("reader")]
  /\ \A t \in Threads : pc[t] \in Places(t)
  /\ n \in Nat /\ sha \in Hashes /\ readable \subseteq Shared
  /\ peer \in Peers \cup {None} /\ told \in Fetched \cup {None}
  /\ At("main", "run") => peer = None
  /\ mem \in Config /\ Distinct(mem)
  /\ buffer \in [Threads -> Config]
  /\ self \in Lives \cup {None}
  /\ starts \in 0..MaxStarts
  /\ mishaps \subseteq {"selfkey", "peerkey", "config", "metadata", "missing",
                        "mixed"}

Stopped == [t \in Threads |-> IF t = "main" THEN "off" ELSE "idle"]

Init == /\ key = [k \in {"priv", "pub"} |-> None] /\ conf = None
        /\ pkey = [p \in Peers |-> None] /\ meta = [f \in Files |-> None]
        /\ pc = Stopped
        /\ n = 0 /\ sha = EmptyHash /\ readable = {}
        /\ peer = None /\ told = None
        /\ mem = NoConfig /\ buffer = [t \in Threads |-> NoConfig]
        /\ self = None
        /\ starts = 0 /\ promised = {} /\ mishaps = {}


\* The things a configuration holds.
Contents(c) == (IF c.account THEN {"account"} ELSE {}) \cup c.peers
               \cup {c.items[i].file : i \in DOMAIN c.items}

\* config_add: an item is added or gets another value.
Place(c, f) == {i \in DOMAIN c.items : c.items[i].file = f}
AddItem(c, f, h) ==
  [c EXCEPT !.items = IF Place(c, f) = {}
                      THEN Append(@, [file |-> f, hash |-> h])
                      ELSE [i \in DOMAIN @ |-> IF i \in Place(c, f)
                                               THEN [file |-> f, hash |-> h]
                                               ELSE @[i]]]
AddName(c, h, f) == [c EXCEPT !.names[h] = f]

\* getconfig: a configuration that is missing or torn is an empty one.
Loaded == IF Whole(conf) THEN conf ELSE NoConfig
-----------------------------------------------------------------------------
\* core_init

Start(r) ==
  /\ At("main", "off") /\ starts < MaxStarts
  /\ starts' = starts + 1 /\ readable' = r /\ mem' = Loaded
  /\ Move("main", "keys")
  /\ UNCHANGED <<disk, n, sha, peer, told, buffer, self, promised, mishaps>>

\* An empty configuration waits for the user, another one has files to hash.
AfterKeys == Move("main", IF mem = NoConfig THEN "setup" ELSE "scan") /\ n' = 1

\* Both files of the pair can be opened, whatever is in them.
HasKeys == \A k \in DOMAIN key : key[k] # None

KeysThere ==
  /\ At("main", "keys") /\ HasKeys
  /\ AfterKeys
  /\ UNCHANGED <<disk, sha, readable, peer, told, mem, buffer, self, ghosts>>

Generate ==
  /\ At("main", "keys") /\ ~HasKeys
  /\ n' = 1 /\ Move("main", "gen")
  /\ UNCHANGED <<disk, sha, readable, peer, told, mem, buffer, self, ghosts>>

\* Mutant of Pair: the private key is written first.
PairReversed == <<"priv", "pub">>

\* The order in which generate writes them.
Pair == <<"pub", "priv">>

\* keygen_bio_init opens the file.
GenOpen ==
  /\ At("main", "gen")
  /\ key' = [key EXCEPT ![Pair[n]] = Torn]
  /\ Move("main", "genclose")
  /\ UNCHANGED <<conf, pkey, meta, scan, peer, told, mem, buffer, self, ghosts>>

\* It is closed when the BIO gets the name of the next one, or by keygen_free.
GenClose ==
  /\ At("main", "genclose")
  /\ key' = [key EXCEPT ![Pair[n]] = starts]
  /\ IF n < Len(Pair) THEN n' = n + 1 /\ Move("main", "gen") ELSE AfterKeys
  /\ UNCHANGED <<conf, pkey, meta, sha, readable, peer, told, mem, buffer, self,
                 ghosts>>

Current == mem.items[n]
Scanning == At("main", "scan") /\ n <= Len(mem.items)

\* stat of the metadata: the empty hash names the directory, which exists.
NeedsHash(i) == \/ i.hash = Null
                \/ i.hash \in Files /\ meta[i.hash] = None

\* The value of the item, and a name for its hash unless there is one.
Hashed(i, h) ==
  LET c == AddItem(mem, i.file, h)
  IN  IF c.names[h] = None THEN AddName(c, h, i.file) ELSE c

ScanSkip ==
  /\ Scanning /\ ~NeedsHash(Current)
  /\ mem' = Hashed(Current, Current.hash)
  /\ n' = n + 1
  /\ UNCHANGED <<disk, pc, sha, readable, peer, told, buffer, self, ghosts>>

\* create_metadata_file cannot open the file: sha_str is still the last one's.
ScanMissing ==
  /\ Scanning /\ NeedsHash(Current) /\ Current.file \notin readable
  /\ mem' = Hashed(Current, sha)
  /\ n' = n + 1
  /\ mishaps' = mishaps \cup {"missing"}
  /\ UNCHANGED <<disk, pc, sha, readable, peer, told, buffer, self, starts,
                 promised>>

\* Mutant of Digest: the buffer keeps the first one.
DigestKept(f) == IF sha = EmptyHash THEN f ELSE sha

\* sha_str of the file.
Digest(f) == f

ScanCreate ==
  /\ Scanning /\ NeedsHash(Current) /\ Current.file \in readable
  /\ sha' = Digest(Current.file)
  /\ meta' = [meta EXCEPT ![sha'] = Torn]
  /\ Move("main", "hash")
  /\ UNCHANGED <<key, conf, pkey, n, readable, peer, told, mem, buffer, self,
                 ghosts>>

\* Mutant of Closed: fclose is forgotten.
ClosedNot(files, f) == files

\* fclose of a file of metadata or of a peer's key.
Closed(files, f) == [files EXCEPT ![f] = "whole"]

ScanWritten ==
  /\ At("main", "hash")
  /\ meta' = Closed(meta, sha)
  /\ mem' = Hashed(Current, sha)
  /\ n' = n + 1 /\ Move("main", "scan")
  /\ UNCHANGED <<key, conf, pkey, sha, readable, peer, told, buffer, self,
                 ghosts>>

\* config_save, if there is a section of files.
ScanEnds ==
  /\ At("main", "scan") /\ n > Len(mem.items)
  /\ Move("main", IF mem.items = <<>> THEN "load" ELSE "open")
  /\ UNCHANGED <<disk, scan, peer, told, mem, buffer, self, ghosts>>

\* handlesetup with a good port.
Setup ==
  /\ At("main", "setup")
  /\ mem' = [mem EXCEPT !.account = TRUE]
  /\ Move("main", "open")
  /\ UNCHANGED <<disk, scan, peer, told, buffer, self, ghosts>>

\* privkey_load, without which the core does not start.
Load ==
  /\ At("main", "load")
  /\ \/ Whole(key["priv"]) /\ self' = key["priv"] /\ Move("main", "run")
     \/ ~Whole(key["priv"]) /\ Move("main", "failed") /\ UNCHANGED self
  /\ n' = 0 /\ sha' = EmptyHash /\ readable' = {}
  /\ UNCHANGED <<disk, peer, told, mem, buffer, ghosts>>
-----------------------------------------------------------------------------
\* A save: fopen, config_flush, fclose (config_save does the three as well).

\* fopen empties the file, also one that the other thread is writing.
SaveOpen(t) ==
  /\ At(t, "open")
  /\ conf' = Torn
  /\ Move(t, "flush")
  /\ UNCHANGED <<key, pkey, meta, scan, peer, told, mem, buffer, self, ghosts>>

\* Mutant of Flushed: the peers are left out.
FlushedFew == [mem EXCEPT !.peers = {}]

Flushed == mem

SaveFlush(t) ==
  /\ At(t, "flush")
  /\ buffer' = [buffer EXCEPT ![t] = Flushed]
  /\ Move(t, "close")
  /\ UNCHANGED <<disk, scan, peer, told, mem, self, ghosts>>

AfterSave(t) == CASE t = "reader" -> "idle"
                  [] t = "main" /\ ~Runs -> "load"
                  [] t = "main" /\ Runs /\ peer = None -> "run"
                  [] t = "main" /\ Runs /\ peer # None -> "reply"

\* The text goes to the front of the file.  Behind a text that lacks things the
\* file has already got from the other thread, the rest of that one stays.
Longer(t) == Whole(conf) /\ ~(Contents(conf) \subseteq Contents(buffer[t]))

SaveClose(t) ==
  /\ At(t, "close")
  /\ IF Longer(t) THEN conf' = Torn /\ mishaps' = mishaps \cup {"mixed"}
                  ELSE conf' = buffer[t] /\ UNCHANGED mishaps
  /\ promised' = promised \cup Contents(buffer[t])
  /\ buffer' = [buffer EXCEPT ![t] = NoConfig]
  /\ Move(t, AfterSave(t))
  /\ UNCHANGED <<key, pkey, meta, scan, peer, told, mem, self, starts>>

Save(t) == SaveOpen(t) \/ SaveFlush(t) \/ SaveClose(t)
-----------------------------------------------------------------------------
\* The user's commands, in the main thread

\* handleaddpeer, with good values: the key file,
AddPeerKey(p) ==
  /\ At("main", "run")
  /\ peer' = p
  /\ pkey' = [pkey EXCEPT ![p] = Torn]
  /\ Move("main", "keyclose")
  /\ UNCHANGED <<key, conf, meta, scan, told, mem, buffer, self, ghosts>>

AddPeerKeyClose ==
  /\ At("main", "keyclose")
  /\ pkey' = Closed(pkey, peer)
  /\ Move("main", "peer")
  /\ UNCHANGED <<key, conf, meta, scan, peer, told, mem, buffer, self, ghosts>>

\* then the configuration, which is saved,
AddPeer ==
  /\ At("main", "peer")
  /\ mem' = [mem EXCEPT !.peers = @ \cup {peer}]
  /\ Move("main", "open")
  /\ UNCHANGED <<disk, scan, peer, told, buffer, self, ghosts>>

\* and then the answer: success.
AddPeerReply ==
  /\ At("main", "reply")
  /\ peer' = None /\ Move("main", "run")
  /\ promised' = promised \cup {peer}
  /\ UNCHANGED <<disk, scan, told, mem, buffer, self, starts, mishaps>>

\* handleaddfile, for a file that is not listed.
AddFile(f) ==
  /\ At("main", "run") /\ Place(mem, f) = {}
  /\ mem' = AddItem(mem, f, Null)
  /\ Move("main", "open")
  /\ UNCHANGED <<disk, scan, peer, told, buffer, self, ghosts>>
-----------------------------------------------------------------------------
\* handlemetadata, in the reading thread

\* check_or_create_metadata keeps a file of that name, whatever is in it.
Metadata(f) ==
  /\ Runs /\ At("reader", "idle")
  /\ told' = f
  /\ \/ /\ meta[f] = None
        /\ meta' = [meta EXCEPT ![f] = Torn] /\ Move("reader", "create")
     \/ meta[f] # None /\ Move("reader", "add") /\ UNCHANGED meta
  /\ UNCHANGED <<key, conf, pkey, scan, peer, mem, buffer, self, ghosts>>

MetadataCreated ==
  /\ At("reader", "create")
  /\ meta' = Closed(meta, told)
  /\ Move("reader", "add")
  /\ UNCHANGED <<key, conf, pkey, scan, peer, told, mem, buffer, self, ghosts>>

MetadataAdd ==
  /\ At("reader", "add")
  /\ mem' = AddName(AddItem(mem, told, told), told, told)
  /\ Move("reader", "open") /\ told' = None
  /\ UNCHANGED <<disk, scan, peer, buffer, self, ghosts>>
-----------------------------------------------------------------------------
\* The process is killed, or ends because it could not load its key.

SavingNow == \E t \in Threads : pc[t] \in {"flush", "close"}

TornNow == {m \in {"selfkey", "config", "peerkey", "metadata"} :
              CASE m = "selfkey" -> key["priv"] = Torn
                [] m = "config" -> SavingNow
                [] m = "peerkey" -> \E p \in Loaded.peers : pkey[p] = Torn
                [] m = "metadata" -> \E f \in Fetched : meta[f] = Torn}

Crash ==
  /\ pc["main"] # "off"
  /\ pc' = Stopped
  /\ n' = 0 /\ sha' = EmptyHash /\ readable' = {}
  /\ peer' = None /\ told' = None
  /\ mem' = NoConfig /\ buffer' = [t \in Threads |-> NoConfig]
  /\ self' = None
  /\ mishaps' = mishaps \cup TornNow
  /\ UNCHANGED <<disk, starts, promised>>

\* What is in a mixed configuration is not followed.
Orderly == "mixed" \notin mishaps

Next ==
  /\ Orderly
  /\ \/ \E r \in SUBSET Shared : Start(r)
     \/ KeysThere \/ Generate \/ GenOpen \/ GenClose
     \/ ScanSkip \/ ScanMissing \/ ScanCreate \/ ScanWritten \/ ScanEnds
     \/ Setup \/ Load
     \/ \E t \in Threads : Save(t)
     \/ \E p \in Peers : AddPeerKey(p)
     \/ AddPeerKeyClose \/ AddPeer \/ AddPeerReply
     \/ \E f \in Shared : AddFile(f)
     \/ \E f \in Fetched : Metadata(f)
     \/ MetadataCreated \/ MetadataAdd
     \/ Crash

Spec == Init /\ [][Next]_vars
-----------------------------------------------------------------------------

(***************************************************************************)
(* The public key that GetPublicKey hands out belongs to the private key   *)
(* the core runs with, wherever an earlier life was killed while it        *)
(* generated the two (keygen.c:116-131, core.c:172-191).                   *)
(***************************************************************************)
PairMatches == Runs => key["pub"] = self

(***************************************************************************)
(* The core finds a private key it can load at every start, unless it was  *)
(* killed while that very file was written (core.c:748).                   *)
(***************************************************************************)
StartsUnlessTorn == At("main", "failed") => "selfkey" \in mishaps

(***************************************************************************)
(* The core's own keys over its lives: they fit together, and a start does  *)
(* not fail without the one kill that tears the private key.                *)
(***************************************************************************)
KeysInv == TypeOK /\ PairMatches /\ StartsUnlessTorn

(***************************************************************************)
(* What was saved once, the account, files and peers, or reported to the   *)
(* user as a success, is on the disk when no thread is saving, and in the  *)
(* memory of every later life, although the saves of two threads overlap,  *)
(* unless the core was killed during a save or a shorter text went over a  *)
(* longer one (handlers.c:347, 511, 764).                                  *)
(***************************************************************************)
Kept ==
  (Orderly /\ "config" \notin mishaps) =>
    /\ SavingNow \/ (promised # {} => /\ Whole(conf)
                                      /\ promised \subseteq Contents(conf))
    /\ Runs => promised \subseteq Contents(mem)

(***************************************************************************)
(* A peer in the saved configuration has its whole key, whenever the core  *)
(* is killed, unless that was while the peer was added again.              *)
(***************************************************************************)
PeersHaveKeys ==
  Whole(conf) => \A p \in conf.peers :
    \/ pkey[p] = "whole"
    \/ peer = p /\ At("main", "keyclose")
    \/ "peerkey" \in mishaps

(***************************************************************************)
(* A hash in the saved configuration has its whole file of metadata, from  *)
(* which RequestFileTransfer is answered, whenever the core is killed; for *)
(* a download only if it was not killed while it wrote that file.          *)
(***************************************************************************)
MetadataBehindHash ==
  Whole(conf) => \A i \in DOMAIN conf.items :
    LET h == conf.items[i].hash
    IN  (h \in Files /\ (h \in Fetched => "metadata" \notin mishaps))
        => meta[h] = "whole"

(***************************************************************************)
(* Whatever the saved configuration refers to in another file, the key of   *)
(* a peer or the metadata of a hash, is whole in that file.                 *)
(***************************************************************************)
ReferencesWhole == PeersHaveKeys /\ MetadataBehindHash

(***************************************************************************)
(* The list of files has the right hash for each, and the hash the name of *)
(* the file, over every life, if each file could be opened when it was     *)
(* hashed (core.c:204-228).                                                *)
(***************************************************************************)
HashesTruthful ==
  "missing" \notin mishaps =>
    \A i \in DOMAIN mem.items :
      LET it == mem.items[i]
      IN  it.hash # Null => it.hash = it.file /\ mem.names[it.file] = it.file
-----------------------------------------------------------------------------
(***************************************************************************)
(* What the code does not give; the README has the traces.                 *)
(***************************************************************************)

\* The core can be started again wherever it was killed.
AlwaysStarts == ~At("main", "failed")

\* What was saved once survives a core that is killed during a save.
SavedForGood == (Orderly /\ Runs) => promised \subseteq Contents(mem)

\* Two threads never write the configuration over each other.
SavesApart == Orderly

\* A download's metadata is whole behind its hash whenever the core is killed.
MetadataAlwaysBehindHash ==
  Whole(conf) => \A i \in DOMAIN conf.items :
    conf.items[i].hash \in Files => meta[conf.items[i].hash] = "whole"

\* A file that cannot be opened does not get another file's hash.
MissingHashless ==
  \A i \in DOMAIN mem.items : mem.items[i].hash \in {Null, mem.items[i].file}
=============================================================================

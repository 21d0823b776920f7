--------------------------- MODULE Storage_proofs ---------------------------
(***************************************************************************)
(* Theorems about what the core keeps on the disk.  The configuration      *)
(* exists in several copies, on the disk, in memory and in the buffer of   *)
(* each thread that saves; what is said of it is proved of all of them,    *)
(* since any may be the one that the next life reads.                      *)
(***************************************************************************)
EXTENDS Storage, TLAPS

\* Every configuration that a later life may read.
Copies == {mem} \cup {buffer[t] : t \in Threads}
          \cup (IF Whole(conf) THEN {conf} ELSE {})

\* Where the threads are says which life it is and what is filled in.
Located ==
  /\ pc["main"] # "off" => starts \in Lives
  /\ pc["main"] \in {"off", "failed"} \cup Starting => self = None
  /\ pc["main"] \in Serving => self # None
  /\ self = None => pc["reader"] = "idle" /\ peer = None
  /\ pc["main"] \in {"gen", "genclose"} => n \in {1, 2}
  /\ pc["main"] = "scan" => n \in 1..(Len(mem.items) + 1)
  /\ pc["main"] = "hash" => n \in 1..Len(mem.items)
  /\ pc["main"] \in {"off", "keys", "gen", "genclose"} => sha = EmptyHash
  /\ pc["main"] \in {"keyclose", "peer", "reply"} => peer \in Peers
  /\ pc["reader"] \in {"create", "add"} => told \in Fetched
  /\ \A t \in Threads : pc[t] # "close" => buffer[t] = NoConfig
  /\ pc["main"] = "off" => mem = NoConfig

Typed == TypeOK /\ Located /\ \A c \in Copies : Distinct(c)

\* The public key is written first, so a private one has its public one.
KeysFit ==
  /\ key["priv"] # None => Whole(key["pub"])
  /\ Whole(key["priv"]) => key["pub"] = key["priv"]
  /\ At("main", "gen") \/ (At("main", "genclose") /\ n = 1) => key["priv"] = None
  /\ pc["main"] \in {"gen", "genclose"} /\ n = 2 => key["pub"] = starts
  /\ At("main", "genclose") /\ n = 2 => key["priv"] = Torn
  /\ key["priv"] = Torn => \/ At("main", "genclose") /\ n = 2
                           \/ "selfkey" \in mishaps
  /\ pc["main"] \notin {"off", "keys", "gen", "genclose"} => key["priv"] # None
  /\ Runs => key["priv"] = self
  /\ StartsUnlessTorn

\* The keys of the peers in a copy.
PeersKeyed(c) ==
  \A p \in c.peers : \/ pkey[p] = "whole"
                     \/ peer = p /\ At("main", "keyclose")
                     \/ "peerkey" \in mishaps

PeersInv ==
  /\ \A c \in Copies : PeersKeyed(c)
  /\ At("main", "keyclose") => pkey[peer] = Torn
  /\ At("main", "peer") => pkey[peer] = "whole"

\* The item of a file has a hash.
HashedIn(c, f) == \E i \in DOMAIN c.items : c.items[i].file = f /\ c.items[i].hash # Null

\* An item has the hash of another file or its own.
Names(c, f) == \E i \in DOMAIN c.items : c.items[i].hash = f

\* The hashes of a copy have their metadata, and none of a shared file is a hash
\* of another file only.
Backed(c, files, past) ==
  /\ \A f \in Shared : Names(c, f) => files[f] = "whole" /\ HashedIn(c, f)
  /\ \A f \in Fetched : Names(c, f) =>
       /\ files[f] # None
       /\ "metadata" \notin past => files[f] = "whole"

\* What has a hash in c has one in d.
Behind(c, d) == \A f \in Files : HashedIn(c, f) => HashedIn(d, f)

\* The metadata of a download, which the reading thread writes.
Fetching ==
  /\ \A f \in Fetched :
       meta[f] = Torn => \/ At("reader", "create") /\ told = f
                         \/ "metadata" \in mishaps
  /\ At("reader", "add") =>
       /\ meta[told] # None
       /\ "metadata" \notin mishaps => meta[told] = "whole"

\* The metadata of a shared file, which the main thread writes.
Hashing ==
  /\ At("main", "hash") => /\ sha = Current.file /\ sha \in Shared
                           /\ Current.hash = Null /\ meta[sha] = Torn
  /\ At("main", "scan") /\ sha # EmptyHash =>
       sha \in Shared /\ meta[sha] = "whole" /\ HashedIn(mem, sha)

MetaInv ==
  /\ \A c \in Copies : Backed(c, meta, mishaps)
  /\ ~At("main", "off") => \A c \in Copies : Behind(c, mem)
  /\ Fetching /\ Hashing

\* The hashes of a copy are right.
Truthful(c) ==
  /\ \A i \in DOMAIN c.items :
       LET it == c.items[i]
       IN  it.hash # Null => it.hash = it.file /\ c.names[it.file] = it.file
  /\ \A h \in Hashes : c.names[h] \in {None, h}

TruthInv == "missing" \notin mishaps => \A c \in Copies : Truthful(c)

\* The last of the threads that write has all that was promised; if none writes,
\* the file has.
Closing == {t \in Threads : pc[t] = "close"}
Safe ==
  \/ \E t \in Threads : pc[t] = "flush"
  \/ \E t \in Closing : /\ promised \subseteq Contents(buffer[t])
                        /\ \A u \in Closing :
                             Contents(buffer[u]) \subseteq Contents(buffer[t])
  \/ promised \subseteq Contents(Loaded)

\* A peer that is being added, on its way from memory to the file.
PeerSaved ==
  /\ pc["main"] \in Saving /\ peer # None => peer \in mem.peers
  /\ At("main", "close") /\ peer # None => peer \in buffer["main"].peers
  /\ At("main", "reply") => peer \in promised

Undamaged(past) == "mixed" \notin past /\ "config" \notin past

KeptInv ==
  /\ \A t \in Threads : Contents(buffer[t]) \subseteq Contents(mem)
  /\ PeerSaved
  /\ Undamaged(mishaps) =>
       /\ Safe
       /\ ~At("main", "off") => promised \subseteq Contents(mem)

StorageInv == Typed /\ KeysFit /\ PeersInv /\ MetaInv /\ TruthInv /\ KeptInv

-----------------------------------------------------------------------------
\* Configurations

\* An item of file f gets the value h, and the others stay as they are.
Added(c, d, f, h) ==
  /\ d \in Config /\ Distinct(d)
  /\ d.account = c.account /\ d.peers = c.peers
  /\ \A i \in DOMAIN d.items :
       \/ d.items[i].file = f /\ d.items[i].hash = h
       \/ i \in DOMAIN c.items /\ d.items[i] = c.items[i] /\ c.items[i].file # f
  /\ \A i \in DOMAIN c.items :
       /\ i \in DOMAIN d.items /\ d.items[i].file = c.items[i].file
       /\ c.items[i].file # f => d.items[i] = c.items[i]
  /\ \E i \in DOMAIN d.items : d.items[i].file = f /\ d.items[i].hash = h
  /\ Place(c, f) # {} => Len(d.items) = Len(c.items)

\* The values None, Torn and Null are apart from all others.
LEMMA Apart ==
  /\ None \notin Config /\ Torn \notin Config
  /\ None \notin Lives /\ Torn \notin Lives
  /\ None # "whole" /\ Torn # "whole" /\ None # Torn
  /\ None \notin Files /\ Null \notin Hashes /\ EmptyHash \notin Files
  /\ None \notin Peers
BY FilesAssumption, WholeAssumption DEF Hashes

\* The configuration that getconfig makes of a missing file.
LEMMA EmptyConfig ==
  /\ NoConfig \in Config /\ NoConfig.items = <<>> /\ NoConfig.peers = {}
  /\ NoConfig.account = FALSE /\ DOMAIN NoConfig.items = {}
  /\ Distinct(NoConfig) /\ Contents(NoConfig) = {}
<1>1. /\ NoConfig \in Config /\ NoConfig.items = <<>> /\ NoConfig.peers = {}
      /\ NoConfig.account = FALSE
  BY DEF NoConfig, Config
<1>2. DOMAIN NoConfig.items = {}
  BY <1>1
<1>3. Contents(NoConfig) = {}
  BY <1>1, <1>2 DEF Contents
<1>4. QED
  BY <1>1, <1>2, <1>3 DEF Distinct

\* The parts of a configuration.
LEMMA Parts ==
  ASSUME NEW c \in Config
  PROVE  /\ c.items \in Seq(Item) /\ DOMAIN c.items = 1..Len(c.items)
         /\ Len(c.items) \in Nat
         /\ \A i \in DOMAIN c.items : /\ c.items[i] \in Item
                                      /\ c.items[i].file \in Files
                                      /\ c.items[i].hash \in Hashes \cup {Null}
         /\ c.account \in BOOLEAN /\ c.peers \subseteq Peers
         /\ c.names \in [Hashes -> Files \cup {None}]
<1>1. /\ c.items \in Seq(Item) /\ c.account \in BOOLEAN /\ c.peers \subseteq Peers
      /\ c.names \in [Hashes -> Files \cup {None}]
  BY DEF Config
<1>2. /\ DOMAIN c.items = 1..Len(c.items) /\ Len(c.items) \in Nat
      /\ \A i \in DOMAIN c.items : c.items[i] \in Item
  BY <1>1
<1>3. QED
  BY <1>1, <1>2 DEF Item

\* config_add of a value, to a list that has no file twice.
LEMMA ItemAdded ==
  ASSUME NEW c \in Config, Distinct(c), NEW f \in Files, NEW h \in Hashes \cup {Null}
  PROVE  Added(c, AddItem(c, f, h), f, h) /\ AddItem(c, f, h).names = c.names
<1> DEFINE it == [file |-> f, hash |-> h]
           d == AddItem(c, f, h)
<1>1. it \in Item /\ it.file = f /\ it.hash = h
  BY DEF Item
<1> HIDE DEF it
<1>2. CASE Place(c, f) = {}
  <2>1. d = [c EXCEPT !.items = Append(c.items, it)]
    BY <1>2 DEF AddItem, it
  <2>2. Append(c.items, it) \in Seq(Item)
    BY <1>1, Parts
  <2>3. d \in Config /\ d.items = Append(c.items, it) /\ d.account = c.account
        /\ d.peers = c.peers /\ d.names = c.names
    BY <2>1, <2>2 DEF Config
  <2> HIDE DEF d
  <2>4. /\ DOMAIN d.items = 1..(Len(c.items) + 1)
        /\ \A i \in 1..Len(c.items) : d.items[i] = c.items[i]
        /\ d.items[Len(c.items) + 1] = it
    BY <1>1, <2>3, Parts
  <2>5. \A i \in DOMAIN c.items : c.items[i].file # f
    BY <1>2 DEF Place
  <2>6. /\ \A i \in DOMAIN d.items :
             \/ d.items[i].file = f /\ d.items[i].hash = h
             \/ i \in DOMAIN c.items /\ d.items[i] = c.items[i] /\ c.items[i].file # f
        /\ \A i \in DOMAIN c.items :
             i \in DOMAIN d.items /\ d.items[i] = c.items[i]
        /\ \E i \in DOMAIN d.items : d.items[i].file = f /\ d.items[i].hash = h
    BY SMTT(40), <1>1, <2>4, <2>5, Parts
  <2>7. Distinct(d)
    BY SMTT(40), <1>1, <2>4, <2>5, Parts DEF Distinct
  <2>8. QED
    BY <1>2, <2>3, <2>6, <2>7 DEF Added, d
<1>3. CASE Place(c, f) # {}
  <2> DEFINE s == [i \in DOMAIN c.items |-> IF i \in Place(c, f) THEN it ELSE c.items[i]]
  <2>1. d = [c EXCEPT !.items = s]
    BY <1>3 DEF AddItem, it
  <2>2. /\ DOMAIN s = 1..Len(c.items)
        /\ \A i \in 1..Len(c.items) :
             s[i] = IF c.items[i].file = f THEN it ELSE c.items[i]
    BY Parts DEF Place
  <2>3. s \in [1..Len(c.items) -> Item]
    BY <1>1, Parts
  <2>4. s \in Seq(Item) /\ Len(s) = Len(c.items)
    BY SMTT(40), <2>3, Parts
  <2> HIDE DEF s
  <2>5. d \in Config /\ d.items = s /\ d.account = c.account
        /\ d.peers = c.peers /\ d.names = c.names
    BY <2>1, <2>4 DEF Config
  <2> HIDE DEF d
  <2>6. /\ \A i \in DOMAIN d.items :
             \/ d.items[i].file = f /\ d.items[i].hash = h
             \/ i \in DOMAIN c.items /\ d.items[i] = c.items[i] /\ c.items[i].file # f
        /\ \A i \in DOMAIN c.items :
             /\ i \in DOMAIN d.items /\ d.items[i].file = c.items[i].file
             /\ c.items[i].file # f => d.items[i] = c.items[i]
    BY <1>1, <2>2, <2>5, Parts
  <2>7. Distinct(d)
    BY <2>2, <2>5, <2>6, Parts DEF Distinct
  <2>8. PICK i \in DOMAIN c.items : c.items[i].file = f
    BY <1>3 DEF Place
  <2>9. i \in DOMAIN d.items /\ d.items[i].file = f /\ d.items[i].hash = h
    BY <1>1, <2>2, <2>5, <2>8, Parts
  <2>10. QED
    BY <2>4, <2>5, <2>6, <2>7, <2>9 DEF Added, d
<1>4. QED
  BY <1>2, <1>3

\* config_add of a name.
LEMMA NameAdded ==
  ASSUME NEW c, NEW d \in Config, NEW f \in Files, NEW h \in Hashes \cup {Null},
         Added(c, d, f, h), NEW g \in Hashes, NEW x \in Files
  PROVE  /\ Added(c, AddName(d, g, x), f, h)
         /\ AddName(d, g, x).names = [d.names EXCEPT ![g] = x]
<1> DEFINE e == AddName(d, g, x)
<1>1. /\ e \in Config /\ e.items = d.items /\ e.account = d.account
      /\ e.peers = d.peers /\ e.names = [d.names EXCEPT ![g] = x]
  BY DEF AddName, Config
<1> HIDE DEF e
<1>2. Added(c, e, f, h)
  BY <1>1 DEF Added, Distinct
<1>3. QED
  BY <1>1, <1>2 DEF e

\* What a file that is added changes.
LEMMA AddedFacts ==
  ASSUME NEW c \in Config, NEW d, NEW f \in Files, NEW h \in Hashes \cup {Null},
         Added(c, d, f, h)
  PROVE  /\ Contents(c) \subseteq Contents(d)
         /\ \A g : Names(d, g) => Names(c, g) \/ g = h
         /\ h # Null => HashedIn(d, f)
         /\ \A g : HashedIn(c, g) /\ (h # Null \/ ~HashedIn(c, f)) => HashedIn(d, g)
<1>1. \A x \in Contents(c) : x \in Contents(d)
  BY DEF Added, Contents
<1>2. \A g : Names(d, g) => Names(c, g) \/ g = h
  BY DEF Added, Names
<1>3. h # Null => HashedIn(d, f)
  BY DEF Added, HashedIn
<1>4. ASSUME NEW g, HashedIn(c, g), h # Null \/ ~HashedIn(c, f)
      PROVE  HashedIn(d, g)
  <2>1. CASE g = f
    BY <1>3, <1>4, <2>1
  <2>2. CASE g # f
    BY <1>4, <2>2 DEF Added, HashedIn
  <2>3. QED
    BY <2>1, <2>2
<1>5. QED
  BY <1>1, <1>2, <1>3, <1>4

\* The value of an item and, unless there is one, the name of its hash.
LEMMA HashedAdds ==
  ASSUME mem \in Config, Distinct(mem), NEW i \in Item, NEW h \in Hashes
  PROVE  /\ Added(mem, Hashed(i, h), i.file, h)
         /\ \A g \in Hashes : Hashed(i, h).names[g] =
              IF g = h /\ mem.names[h] = None THEN i.file ELSE mem.names[g]
<1> DEFINE c == AddItem(mem, i.file, h)
<1>1. i.file \in Files
  BY DEF Item
<1>2. Added(mem, c, i.file, h) /\ c.names = mem.names
  BY <1>1, ItemAdded
<1>3. c \in Config /\ mem.names \in [Hashes -> Files \cup {None}]
  BY <1>2, Parts DEF Added
<1>4. Hashed(i, h) = IF c.names[h] = None THEN AddName(c, h, i.file) ELSE c
  BY DEF Hashed
<1> HIDE DEF c
<1>5. CASE c.names[h] = None
  <2>1. /\ Added(mem, AddName(c, h, i.file), i.file, h)
        /\ AddName(c, h, i.file).names = [c.names EXCEPT ![h] = i.file]
    <3>1. h \in Hashes \cup {Null} /\ c \in Config /\ i.file \in Files
          /\ Added(mem, c, i.file, h)
      BY <1>1, <1>2, <1>3
    <3>2. QED
      BY SMTT(40), <3>1, NameAdded
  <2>2. QED
    BY <1>2, <1>3, <1>4, <1>5, <2>1
<1>6. CASE c.names[h] # None
  BY <1>2, <1>3, <1>4, <1>6
<1>7. QED
  BY <1>5, <1>6

\* The items stay when the account or a peer is added.
Grown(c, d) == /\ d \in Config /\ Distinct(d)
               /\ d.items = c.items /\ d.names = c.names
               /\ c.peers \subseteq d.peers /\ (c.account => d.account)

\* handlesetup.
LEMMA AccountGrows ==
  ASSUME mem \in Config, Distinct(mem)
  PROVE  /\ Grown(mem, [mem EXCEPT !.account = TRUE])
         /\ [mem EXCEPT !.account = TRUE].peers = mem.peers
<1> DEFINE d == [mem EXCEPT !.account = TRUE]
<1>1. /\ d \in Config /\ d.items = mem.items /\ d.names = mem.names
      /\ d.peers = mem.peers /\ d.account = TRUE
  BY DEF Config
<1> HIDE DEF d
<1>2. Grown(mem, d)
  BY <1>1 DEF Grown, Distinct
<1>3. QED
  BY <1>1, <1>2 DEF d

\* handleaddpeer.
LEMMA PeersGrow ==
  ASSUME mem \in Config, Distinct(mem), NEW p \in Peers
  PROVE  /\ Grown(mem, [mem EXCEPT !.peers = @ \cup {p}])
         /\ [mem EXCEPT !.peers = @ \cup {p}].peers = mem.peers \cup {p}
<1> DEFINE e == [mem EXCEPT !.peers = @ \cup {p}]
<1>1. /\ e \in Config /\ e.items = mem.items /\ e.names = mem.names
      /\ e.peers = mem.peers \cup {p} /\ e.account = mem.account
  BY DEF Config
<1> HIDE DEF e
<1>2. Grown(mem, e)
  BY <1>1 DEF Grown, Distinct
<1>3. QED
  BY <1>1, <1>2 DEF e

\* What is in a copy is in one that has grown.
LEMMA GrownFacts ==
  ASSUME NEW c, NEW d, Grown(c, d)
  PROVE  /\ Contents(c) \subseteq Contents(d)
         /\ \A g : Names(d, g) <=> Names(c, g)
         /\ \A g : HashedIn(d, g) <=> HashedIn(c, g)
<1>1. \A x \in Contents(c) : x \in Contents(d)
  BY DEF Grown, Contents
<1>2. QED
  BY <1>1 DEF Grown, Names, HashedIn
-----------------------------------------------------------------------------
\* Steps

\* The other thread stays where it is.
LEMMA Moved ==
  ASSUME TypeOK, NEW t \in Threads, NEW l \in Places(t), Move(t, l)
  PROVE  /\ pc' \in [Threads -> Places("main") \cup Places("reader")]
         /\ \A u \in Threads : pc'[u] = IF u = t THEN l ELSE pc[u]
         /\ \A u \in Threads : pc'[u] \in Places(u)
<1>1. pc \in [Threads -> Places("main") \cup Places("reader")]
      /\ \A u \in Threads : pc[u] \in Places(u)
  BY DEF TypeOK
<1>2. l \in Places("main") \cup Places("reader")
  BY DEF Threads
<1>3. QED
  BY <1>1, <1>2 DEF Move

\* Where the threads are when none runs.
LEMMA StoppedPlaces ==
  /\ Stopped \in [Threads -> Places("main") \cup Places("reader")]
  /\ Stopped["main"] = "off" /\ Stopped["reader"] = "idle"
  /\ \A t \in Threads : Stopped[t] \in Places(t)
BY DEF Stopped, Threads, Places

\* The item the main thread looks at.
LEMMA CurrentItem ==
  ASSUME Typed, Scanning \/ At("main", "hash")
  PROVE  /\ n \in DOMAIN mem.items /\ Current \in Item
         /\ Current.file \in Files /\ Current.hash \in Hashes \cup {Null}
         /\ Place(mem, Current.file) # {}
<1>1. mem \in Config /\ n \in 1..Len(mem.items)
  <2>1. mem \in Config /\ n \in Nat
    BY DEF Typed, TypeOK
  <2>2. QED
    BY <2>1, Parts DEF Typed, Located, Scanning, At
<1>2. QED
  BY <1>1, Parts DEF Current, Place

\* The items that the loop over the files writes.
LEMMA ScanAdds ==
  ASSUME Typed
  PROVE  /\ ScanSkip => /\ Current.hash \in Hashes
                        /\ Added(mem, mem', Current.file, Current.hash)
         /\ ScanMissing \/ ScanWritten => Added(mem, mem', Current.file, sha)
<1>1. mem \in Config /\ Distinct(mem) /\ sha \in Hashes
  BY DEF Typed, TypeOK
<1>2. ASSUME ScanSkip
      PROVE  Current.hash \in Hashes /\ Added(mem, mem', Current.file, Current.hash)
  <2>1. Current \in Item /\ Current.hash \in Hashes \cup {Null}
    BY <1>2, CurrentItem DEF ScanSkip
  <2>2. Current.hash \in Hashes /\ mem' = Hashed(Current, Current.hash)
    BY <1>2, <2>1 DEF ScanSkip, NeedsHash
  <2>3. QED
    BY <1>1, <2>1, <2>2, HashedAdds
<1>3. ASSUME ScanMissing \/ ScanWritten
      PROVE  Added(mem, mem', Current.file, sha)
  <2>1. Current \in Item
    BY <1>3, CurrentItem DEF ScanMissing, ScanWritten
  <2>2. mem' = Hashed(Current, sha)
    BY <1>3 DEF ScanMissing, ScanWritten
  <2>3. QED
    BY <1>1, <2>1, <2>2, HashedAdds
<1>4. QED
  BY <1>2, <1>3

\* The items that the commands write.
LEMMA CommandAdds ==
  ASSUME Typed
  PROVE  /\ \A f \in Shared : AddFile(f) => /\ Added(mem, mem', f, Null)
                                            /\ mem'.names = mem.names
         /\ MetadataAdd => /\ told \in Fetched /\ Added(mem, mem', told, told)
                           /\ mem'.names = [mem.names EXCEPT ![told] = told]
<1>1. mem \in Config /\ Distinct(mem)
  BY DEF Typed, TypeOK
<1>2. ASSUME NEW f \in Shared, AddFile(f)
      PROVE  Added(mem, mem', f, Null) /\ mem'.names = mem.names
  BY <1>1, <1>2, ItemAdded DEF AddFile, Files
<1>3. ASSUME MetadataAdd
      PROVE  /\ told \in Fetched /\ Added(mem, mem', told, told)
             /\ mem'.names = [mem.names EXCEPT ![told] = told]
  <2>1. told \in Fetched /\ told \in Files /\ told \in Hashes
    BY <1>3 DEF MetadataAdd, At, Typed, Located, Files, Hashes
  <2> DEFINE d == AddItem(mem, told, told)
  <2>2. Added(mem, d, told, told) /\ d.names = mem.names
    BY <1>1, <2>1, ItemAdded
  <2>3. d \in Config
    BY <2>2 DEF Added
  <2>4. mem' = AddName(d, told, told)
    BY <1>3 DEF MetadataAdd
  <2> HIDE DEF d
  <2>5. QED
    BY <2>1, <2>2, <2>3, <2>4, NameAdded
<1>4. QED
  BY <1>2, <1>3

\* What each copy is.
LEMMA CopyTypes ==
  ASSUME TypeOK
  PROVE  /\ \A c \in Copies : c \in Config
         /\ mem \in Copies /\ \A t \in Threads : buffer[t] \in Copies
         /\ Loaded \in Copies \/ Loaded = NoConfig
         /\ Loaded \in Config
<1>1. mem \in Config /\ buffer \in [Threads -> Config]
      /\ conf \in Config \cup {None, Torn}
  BY DEF TypeOK
<1>2. Whole(conf) => conf \in Config
  BY <1>1 DEF Whole
<1>3. \A c \in Copies : c \in Config
  BY <1>1, <1>2 DEF Copies
<1>4. mem \in Copies /\ \A t \in Threads : buffer[t] \in Copies
  BY DEF Copies
<1>5. Loaded \in Copies \/ Loaded = NoConfig
  BY DEF Copies, Loaded
<1>6. QED
  BY <1>3, <1>4, <1>5, EmptyConfig

\* A save writes what is in memory, and a kill leaves what is on the disk.
LEMMA Writers ==
  ASSUME Next
  PROVE  \/ UNCHANGED <<conf, buffer>>
         \/ \E t \in Threads : Save(t)
         \/ Crash
BY DEF Next, Start, KeysThere, Generate, GenOpen, GenClose, ScanSkip, ScanMissing,
       ScanCreate, ScanWritten, ScanEnds, Setup, Load, AddPeerKey, AddPeerKeyClose,
       AddPeer, AddPeerReply, AddFile, Metadata, MetadataCreated, MetadataAdd, disk

\* The copies after a step: those before it, and what the memory is now.
LEMMA CopiesNext ==
  ASSUME TypeOK, Next
  PROVE  \A c \in Copies' : c \in Copies \/ c = mem' \/ c = NoConfig
<1>1. buffer \in [Threads -> Config]
  BY DEF TypeOK
<1>2. /\ conf' = conf \/ conf' = Torn \/ \E t \in Threads : conf' = buffer[t]
      /\ \A t \in Threads : buffer'[t] \in {buffer[t], mem, NoConfig}
  <2>1. CASE UNCHANGED <<conf, buffer>>
    BY <2>1
  <2>2. ASSUME NEW t \in Threads, SaveOpen(t) \/ SaveFlush(t) \/ SaveClose(t)
        PROVE  <1>2!1 /\ <1>2!2
    BY <1>1, <2>2 DEF SaveOpen, SaveFlush, Flushed, SaveClose, disk
  <2>3. CASE Crash
    BY <2>3 DEF Crash, disk
  <2>4. QED
    BY <2>1, <2>2, <2>3, Writers DEF Save
<1>3. QED
  BY <1>2 DEF Copies, Whole

\* How the memory changes.
LEMMA MemNext ==
  ASSUME Typed, Next
  PROVE  \/ mem' = mem
         \/ At("main", "off") /\ mem' = Loaded
         \/ Crash /\ mem' = NoConfig
         \/ Grown(mem, mem') /\ (Setup \/ AddPeer)
         \/ /\ \E f \in Files, h \in Hashes \cup {Null} : Added(mem, mem', f, h)
            /\ \/ ScanSkip \/ ScanMissing \/ ScanWritten \/ MetadataAdd
               \/ \E f \in Shared : AddFile(f)
<1>1. CASE \/ KeysThere \/ Generate \/ GenOpen \/ GenClose \/ ScanCreate \/ ScanEnds
           \/ Load
  BY <1>1 DEF KeysThere, Generate, GenOpen, GenClose, ScanCreate, ScanEnds, Load
<1>2. CASE \/ AddPeerKeyClose \/ AddPeerReply \/ MetadataCreated
           \/ \E p \in Peers : AddPeerKey(p)
           \/ \E f \in Fetched : Metadata(f)
           \/ \E t \in Threads : Save(t)
  BY <1>2 DEF AddPeerKeyClose, AddPeerReply, MetadataCreated, AddPeerKey, Metadata,
              Save, SaveOpen, SaveFlush, SaveClose
<1>3. CASE \E r \in SUBSET Shared : Start(r)
  BY <1>3 DEF Start
<1>4. CASE Crash
  BY <1>4 DEF Crash
<1>5. mem \in Config /\ Distinct(mem)
  BY DEF Typed, TypeOK
<1>6. CASE Setup
  BY <1>5, <1>6, AccountGrows DEF Setup
<1>7. CASE AddPeer
  <2>1. peer \in Peers
    BY <1>7 DEF AddPeer, At, Typed, Located
  <2>2. QED
    BY <1>5, <1>7, <2>1, PeersGrow DEF AddPeer
<1>8. CASE ScanSkip \/ ScanMissing \/ ScanWritten
  <2>1. Current.file \in Files
    BY <1>8, CurrentItem DEF ScanSkip, ScanMissing, ScanWritten
  <2>2. sha \in Hashes
    BY DEF Typed, TypeOK
  <2>3. QED
    BY <1>8, <2>1, <2>2, ScanAdds
<1>9. CASE MetadataAdd \/ \E f \in Shared : AddFile(f)
  BY <1>9, CommandAdds DEF Files, Hashes
<1>10. QED
  BY <1>1, <1>2, <1>3, <1>4, <1>6, <1>7, <1>8, <1>9 DEF Next

\* The copies stay configurations that list no file twice.
LEMMA CopiesTyped ==
  ASSUME Typed, Next
  PROVE  /\ mem' \in Config /\ Distinct(mem')
         /\ conf' \in Config \cup {None, Torn} /\ buffer' \in [Threads -> Config]
         /\ \A c \in Copies' : Distinct(c)
<1>1. /\ TypeOK /\ mem \in Config /\ buffer \in [Threads -> Config]
      /\ conf \in Config \cup {None, Torn}
      /\ \A c \in Copies : c \in Config /\ Distinct(c)
      /\ Loaded \in Config /\ Distinct(Loaded)
  BY CopyTypes, EmptyConfig DEF Typed, TypeOK
<1>2. mem' \in Config /\ Distinct(mem')
  BY <1>1, MemNext, CopyTypes, EmptyConfig DEF Grown, Added
<1>3. \A c \in Copies' : Distinct(c)
  BY <1>1, <1>2, CopiesNext, EmptyConfig
<1>4. conf' \in Config \cup {None, Torn} /\ buffer' \in [Threads -> Config]
  <2>1. CASE UNCHANGED <<conf, buffer>>
    BY <1>1, <2>1
  <2>2. CASE \E t \in Threads : Save(t)
    BY <1>1, <2>2, EmptyConfig
       DEF Save, SaveOpen, SaveFlush, Flushed, SaveClose, disk
  <2>3. CASE Crash
    BY <1>1, <2>3, EmptyConfig DEF Crash, disk
  <2>4. QED
    BY <2>1, <2>2, <2>3, Writers
<1>5. QED
  BY <1>2, <1>3, <1>4

\* A thread that saves goes on where it belongs.
LEMMA AfterSavePlace ==
  ASSUME Typed, NEW t \in Threads, At(t, "close")
  PROVE  /\ AfterSave(t) \in Places(t)
         /\ t = "reader" => AfterSave(t) = "idle"
         /\ t = "main" => AfterSave(t) = IF self = None THEN "load"
                                         ELSE IF peer = None THEN "run" ELSE "reply"
BY DEF Threads, AfterSave, Runs, Places, Starting, Serving, Saving

\* Where a step leads the thread that takes it.
LEMMA MainSteps ==
  ASSUME Typed, Next
  PROVE  \/ pc' = pc
         \/ \E t \in Threads : \E l \in Places(t) : Move(t, l)
         \/ Crash
<1> USE DEF Places, Starting, Serving, Saving, Threads
<1>1. CASE \/ KeysThere \/ Generate \/ GenOpen \/ GenClose \/ ScanCreate \/ ScanEnds
           \/ Load \/ Setup \/ ScanWritten
           \/ \E r \in SUBSET Shared : Start(r)
  BY <1>1 DEF Start, KeysThere, Generate, GenOpen, GenClose, AfterKeys, ScanCreate,
              ScanEnds, Load, Setup, ScanWritten
<1>2. CASE \/ AddPeerKeyClose \/ AddPeer \/ AddPeerReply
           \/ \E p \in Peers : AddPeerKey(p)
           \/ \E f \in Shared : AddFile(f)
  BY <1>2 DEF AddPeerKeyClose, AddPeerReply, AddPeerKey, AddFile, AddPeer
<1>3. CASE \/ MetadataCreated \/ MetadataAdd
           \/ \E f \in Fetched : Metadata(f)
  BY <1>3 DEF MetadataCreated, Metadata, MetadataAdd
<1>4. CASE ScanSkip \/ ScanMissing
  BY <1>4 DEF ScanSkip, ScanMissing
<1>5. ASSUME NEW t \in Threads, SaveOpen(t) \/ SaveFlush(t)
      PROVE  \E l \in Places(t) : Move(t, l)
  BY <1>5 DEF SaveOpen, SaveFlush
<1>6. ASSUME NEW t \in Threads, SaveClose(t)
      PROVE  \E l \in Places(t) : Move(t, l)
  BY <1>6, AfterSavePlace DEF SaveClose
<1>7. QED
  BY <1>1, <1>2, <1>3, <1>4, <1>5, <1>6 DEF Next, Save

\* The files stay what a file can be.
LEMMA FilesTyped ==
  ASSUME Typed, Next
  PROVE  /\ key' \in [{"priv", "pub"} -> Lives \cup {None, Torn}]
         /\ pkey' \in [Peers -> {None, Torn, "whole"}]
         /\ meta' \in [Files -> {None, Torn, "whole"}]
<1>1. /\ key \in [{"priv", "pub"} -> Lives \cup {None, Torn}]
      /\ pkey \in [Peers -> {None, Torn, "whole"}]
      /\ meta \in [Files -> {None, Torn, "whole"}]
  BY DEF Typed, TypeOK
<1>2. CASE UNCHANGED <<key, pkey, meta>>
  BY <1>1, <1>2
<1>3. CASE GenOpen \/ GenClose
  <2>1. /\ pkey' = pkey /\ meta' = meta
        /\ \/ key' = [key EXCEPT ![Pair[n]] = Torn]
           \/ key' = [key EXCEPT ![Pair[n]] = starts] /\ starts \in Lives
    BY <1>3 DEF GenOpen, GenClose, At, Typed, Located
  <2>2. QED
    BY <1>1, <2>1
<1>4. CASE ScanCreate
  BY <1>1, <1>4 DEF ScanCreate
<1>5. CASE \/ AddPeerKeyClose \/ ScanWritten \/ MetadataCreated
           \/ \E p \in Peers : AddPeerKey(p)
           \/ \E f \in Fetched : Metadata(f)
  BY <1>1, <1>5 DEF AddPeerKeyClose, ScanWritten, MetadataCreated, AddPeerKey,
                    Metadata, Closed
<1>6. QED
  BY <1>2, <1>3, <1>4, <1>5
     DEF Next, Start, KeysThere, Generate, ScanSkip, ScanMissing, ScanEnds, Setup,
         Load, Save, SaveOpen, SaveFlush, SaveClose, AddPeer, AddPeerReply, AddFile,
         MetadataAdd, Crash, disk

\* What the steps count and look at stays in its bounds.
LEMMA ScansTyped ==
  ASSUME Typed, Next
  PROVE  /\ n' \in Nat /\ sha' \in Hashes /\ readable' \subseteq Shared
         /\ self' \in Lives \cup {None} /\ starts' \in 0..MaxStarts
<1>1. /\ n \in Nat /\ sha \in Hashes /\ readable \subseteq Shared
      /\ self \in Lives \cup {None} /\ starts \in 0..MaxStarts
      /\ MaxStarts \in Nat /\ EmptyHash \in Hashes
  BY StartsAssumption DEF Typed, TypeOK, Hashes
<1>2. CASE UNCHANGED <<n, sha, readable, self, starts>>
  BY <1>1, <1>2
<1>3. CASE \E r \in SUBSET Shared : Start(r)
  BY <1>1, <1>3 DEF Start
<1>4. CASE \/ KeysThere \/ Generate \/ GenClose \/ ScanSkip \/ ScanMissing
           \/ ScanWritten
  BY <1>1, <1>4 DEF KeysThere, Generate, GenClose, AfterKeys, ScanSkip, ScanMissing,
                    ScanWritten, ghosts
<1>5. CASE ScanCreate
  <2>1. Current.file \in Hashes
    BY <1>5, CurrentItem DEF ScanCreate, Hashes
  <2>2. QED
    BY <1>1, <1>5, <2>1 DEF ScanCreate, Digest, ghosts
<1>6. CASE Load
  <2>1. key["priv"] \in Lives \cup {None, Torn}
    BY DEF Typed, TypeOK
  <2>2. QED
    BY <1>1, <1>6, <2>1 DEF Load, Whole, ghosts
<1>7. CASE Crash
  BY <1>1, <1>7 DEF Crash
<1>8. QED
  BY <1>2, <1>3, <1>4, <1>5, <1>6, <1>7
     DEF Next, GenOpen, ScanEnds, Setup, Save, SaveOpen, SaveFlush, SaveClose,
         AddPeerKey, AddPeerKeyClose, AddPeer, AddPeerReply, AddFile, Metadata,
         MetadataCreated, MetadataAdd, scan, ghosts

\* The peer that is added and the file that is told of.
LEMMA NamesTyped ==
  ASSUME Typed, Next
  PROVE  peer' \in Peers \cup {None} /\ told' \in Fetched \cup {None}
<1>1. peer \in Peers \cup {None} /\ told \in Fetched \cup {None}
  BY DEF Typed, TypeOK
<1>2. QED
  BY <1>1
     DEF Next, Start, KeysThere, Generate, GenOpen, GenClose, ScanSkip, ScanMissing,
         ScanCreate, ScanWritten, ScanEnds, Setup, Load, Save, SaveOpen, SaveFlush,
         SaveClose, AddPeerKey, AddPeerKeyClose, AddPeer, AddPeerReply, AddFile,
         Metadata, MetadataCreated, MetadataAdd, Crash

\* What may be remembered of the past.
LEMMA MishapsTyped ==
  ASSUME Typed, Next
  PROVE  /\ mishaps' \subseteq {"selfkey", "peerkey", "config", "metadata",
                                "missing", "mixed"}
         /\ mishaps \subseteq mishaps'
<1>1. mishaps \subseteq {"selfkey", "peerkey", "config", "metadata", "missing",
                         "mixed"}
  BY DEF Typed, TypeOK
<1>2. CASE mishaps' = mishaps
  BY <1>1, <1>2
<1>3. CASE ScanMissing
  BY <1>1, <1>3 DEF ScanMissing
<1>4. CASE Crash
  BY <1>1, <1>4 DEF Crash, TornNow
<1>5. ASSUME NEW t \in Threads, SaveClose(t)
      PROVE  mishaps' = mishaps \/ mishaps' = mishaps \cup {"mixed"}
  BY <1>5 DEF SaveClose
<1>6. QED
  BY <1>1, <1>2, <1>3, <1>4, <1>5
     DEF Next, Start, KeysThere, Generate, GenOpen, GenClose, ScanSkip, ScanCreate,
         ScanWritten, ScanEnds, Setup, Load, Save, SaveOpen, SaveFlush, AddPeerKey,
         AddPeerKeyClose, AddPeer, AddPeerReply, AddFile, Metadata, MetadataCreated,
         MetadataAdd, ghosts

\* The places of the threads, and that a main loop that rests adds no peer.
LEMMA PlacesTyped ==
  ASSUME Typed, Next
  PROVE  /\ pc' \in [Threads -> Places("main") \cup Places("reader")]
         /\ \A t \in Threads : pc'[t] \in Places(t)
<1>1. CASE pc' = pc
  BY <1>1 DEF Typed, TypeOK
<1>2. CASE \E t \in Threads : \E l \in Places(t) : Move(t, l)
  BY <1>2, Moved DEF Typed
<1>3. CASE Crash
  BY <1>3, StoppedPlaces DEF Crash
<1>4. QED
  BY <1>1, <1>2, <1>3, MainSteps

\* Where the threads are says the same after a step.
LEMMA LocatedKept ==
  ASSUME Typed, Next
  PROVE  Located' /\ (At("main", "run") => peer = None)'
<1> USE DEF At, Threads, Starting, Serving
<1>1. /\ pc \in [Threads -> Places("main") \cup Places("reader")]
      /\ Located /\ n \in Nat /\ (pc["main"] = "run" => peer = None)
      /\ buffer \in [Threads -> Config] /\ mem \in Config /\ mem' \in Config
      /\ peer \in Peers \cup {None}
  BY CopiesTyped DEF Typed, TypeOK
<1>2. Len(mem.items) \in Nat /\ Len(mem'.items) \in Nat
  BY <1>1, Parts
<1>3. ASSUME NEW r \in SUBSET Shared, Start(r)
      PROVE  Located' /\ peer' = None
  <2>1. starts' \in Lives
    BY <1>3, StartsAssumption DEF Start, Lives, Typed, TypeOK
  <2>2. pc' = [pc EXCEPT !["main"] = "keys"]
    BY <1>3 DEF Start, Move
  <2>3. QED
    BY <1>1, <1>2, <1>3, <2>1, <2>2 DEF Start, Located
<1>4. CASE KeysThere \/ (GenClose /\ ~(n < Len(Pair)))
  <2>1. /\ \/ pc' = [pc EXCEPT !["main"] = "setup"]
           \/ pc' = [pc EXCEPT !["main"] = "scan"]
        /\ n' = 1
    BY <1>4 DEF KeysThere, GenClose, AfterKeys, Move
  <2>2. UNCHANGED <<sha, peer, told, mem, buffer, self, starts>>
    BY <1>4 DEF KeysThere, GenClose, ghosts
  <2>3. self = None /\ sha = EmptyHash
    BY <1>1, <1>4 DEF KeysThere, GenClose, Located
  <2>4. QED
    BY <1>1, <1>2, <1>4, <2>1, <2>2, <2>3 DEF Located, KeysThere, GenClose
<1>5. CASE Generate \/ GenOpen \/ (GenClose /\ n < Len(Pair))
  <2>1. /\ \/ pc' = [pc EXCEPT !["main"] = "gen"] /\ n' \in {1, 2}
           \/ pc' = [pc EXCEPT !["main"] = "genclose"] /\ n' = n
    BY <1>1, <1>5 DEF Generate, GenOpen, GenClose, Move, Located, Pair, scan
  <2>2. UNCHANGED <<sha, peer, told, mem, buffer, self, starts>>
    BY <1>5 DEF Generate, GenOpen, GenClose, scan, ghosts
  <2>3. pc["main"] \in {"keys", "gen", "genclose"}
        /\ (pc["main"] # "keys" => n \in {1, 2})
    BY <1>1, <1>5 DEF Generate, GenOpen, GenClose, Located
  <2>4. n' \in {1, 2} /\ pc'["main"] \in {"gen", "genclose"}
        /\ pc'["reader"] = pc["reader"] /\ self = None /\ sha = EmptyHash
    <3>1. pc["main"] = "keys" => n' \in {1, 2}
      BY <1>5 DEF Generate, GenOpen, GenClose
    <3>2. QED
      BY <1>1, <2>1, <2>3, <3>1 DEF Located
  <2>5. QED
    BY <1>1, <1>2, <2>2, <2>3, <2>4 DEF Located
<1>6. CASE ScanSkip \/ ScanMissing \/ ScanWritten
  <2>1. Len(mem'.items) = Len(mem.items) /\ n \in 1..Len(mem.items)
    BY <1>1, <1>6, <1>2, ScanAdds, CurrentItem, Parts
       DEF ScanSkip, ScanMissing, ScanWritten, Added
  <2>2. /\ pc' = [pc EXCEPT !["main"] = "scan"] /\ n' = n + 1
        /\ pc["main"] \in {"scan", "hash"}
    BY <1>1, <1>6 DEF ScanSkip, ScanMissing, ScanWritten, Scanning, Move
  <2>3. UNCHANGED <<sha, peer, told, buffer, self, starts>>
    BY <1>6 DEF ScanSkip, ScanMissing, ScanWritten, ghosts
  <2>4. /\ pc'["main"] = "scan" /\ pc'["reader"] = pc["reader"]
        /\ n' \in 1..(Len(mem'.items) + 1)
    BY <1>1, <2>1, <2>2
  <2>5. QED
    BY <1>1, <2>2, <2>3, <2>4 DEF Located
<1>7. CASE ScanCreate
  <2>1. n \in 1..Len(mem.items) /\ pc["main"] = "scan"
    BY <1>1, <1>2, <1>7 DEF ScanCreate, Scanning, Located
  <2>2. QED
    BY <1>1, <1>2, <1>7, <2>1 DEF ScanCreate, Move, Located, ghosts
<1>8. CASE ScanEnds \/ Setup
  <2>1. /\ pc["main"] \in {"scan", "setup"}
        /\ \/ pc' = [pc EXCEPT !["main"] = "load"]
           \/ pc' = [pc EXCEPT !["main"] = "open"]
    BY <1>8 DEF ScanEnds, Setup, Move
  <2>2. UNCHANGED <<n, sha, peer, told, buffer, self, starts>>
    BY <1>8 DEF ScanEnds, Setup, scan, ghosts
  <2>3. QED
    BY <1>1, <1>2, <2>1, <2>2 DEF Located
<1>9. CASE Load
  <2>1. Lives \cap {None} = {}
    BY Apart
  <2>2. self = None /\ (self' = None => pc'["main"] = "failed")
        /\ pc' \in {[pc EXCEPT !["main"] = "failed"], [pc EXCEPT !["main"] = "run"]}
    BY <1>1, <1>9 DEF Load, Whole, Located, Move
  <2>3. QED
    BY <1>1, <1>2, <1>9, <2>2 DEF Load, Move, Located, ghosts
<1>10. CASE Crash
  BY <1>10, StoppedPlaces DEF Crash, Located, ghosts
<1>11. ASSUME NEW t \in Threads, SaveOpen(t) \/ SaveFlush(t)
       PROVE  Located' /\ (At("main", "run") => peer = None)'
  <2>1. \/ pc' = [pc EXCEPT ![t] = "flush"] /\ pc[t] = "open" /\ buffer' = buffer
        \/ /\ pc' = [pc EXCEPT ![t] = "close"] /\ pc[t] = "flush"
           /\ \A u \in Threads : u # t => buffer'[u] = buffer[u]
    BY <1>1, <1>11 DEF SaveOpen, SaveFlush, Move
  <2>2. UNCHANGED <<n, sha, peer, told, mem, self, starts>>
    BY <1>11 DEF SaveOpen, SaveFlush, scan, ghosts
  <2>3. QED
    BY <1>1, <1>2, <2>1, <2>2 DEF Located
<1>12. ASSUME NEW t \in Threads, SaveClose(t)
       PROVE  Located' /\ (At("main", "run") => peer = None)'
  <2>1. /\ pc' = [pc EXCEPT ![t] = AfterSave(t)] /\ pc[t] = "close"
        /\ buffer' = [buffer EXCEPT ![t] = NoConfig]
        /\ UNCHANGED <<n, sha, peer, told, mem, self, starts>>
    BY <1>12 DEF SaveClose, Move, scan
  <2>2. /\ t = "reader" => AfterSave(t) = "idle"
        /\ t = "main" => AfterSave(t) = IF self = None THEN "load"
                                        ELSE IF peer = None THEN "run" ELSE "reply"
    BY <2>1, AfterSavePlace
  <2>3. QED
    BY <1>1, <1>2, <2>1, <2>2 DEF Located
<1>13. CASE \/ AddPeerKeyClose \/ AddPeer \/ AddPeerReply
            \/ \E p \in Peers : AddPeerKey(p)
            \/ \E f \in Shared : AddFile(f)
  <2>1. /\ pc["main"] \in Serving
        /\ \/ pc' = [pc EXCEPT !["main"] = "keyclose"] /\ peer' \in Peers
           \/ /\ pc' = [pc EXCEPT !["main"] = "peer"] /\ peer' = peer
              /\ pc["main"] = "keyclose"
           \/ pc' = [pc EXCEPT !["main"] = "open"] /\ peer' = peer
           \/ pc' = [pc EXCEPT !["main"] = "run"] /\ peer' = None
        /\ UNCHANGED <<n, sha, told, buffer, self, starts>>
    BY <1>13 DEF AddPeerKeyClose, AddPeer, AddPeerReply, AddPeerKey, AddFile, Move,
                 scan, ghosts
  <2>2. QED
    BY <1>1, <1>2, <2>1 DEF Located
<1>14. CASE MetadataCreated \/ MetadataAdd \/ \E f \in Fetched : Metadata(f)
  <2>1. /\ self # None
        /\ \/ pc' = [pc EXCEPT !["reader"] = "create"] /\ told' \in Fetched
           \/ pc' = [pc EXCEPT !["reader"] = "add"] /\ told' \in Fetched
           \/ pc' = [pc EXCEPT !["reader"] = "open"]
        /\ UNCHANGED <<n, sha, peer, buffer, self, starts>>
        /\ pc["reader"] \in {"idle", "create", "add"}
    BY <1>1, <1>14 DEF MetadataCreated, MetadataAdd, Metadata, Runs, Move, Located,
                       scan, ghosts
  <2>2. pc["main"] \notin {"off", "failed"} \cup Starting
    BY <1>1, <2>1 DEF Located
  <2>3. QED
    BY <1>1, <1>2, <2>1, <2>2 DEF Located
<1>15. QED
  BY <1>3, <1>4, <1>5, <1>6, <1>7, <1>8, <1>9, <1>10, <1>11, <1>12, <1>13, <1>14
     DEF Next, Save

\* Every step keeps the types and the places.
LEMMA TypedKept ==
  ASSUME Typed, Next
  PROVE  Typed'
<1>1. TypeOK'
  BY CopiesTyped, FilesTyped, ScansTyped, NamesTyped, MishapsTyped, PlacesTyped,
     LocatedKept DEF TypeOK
<1>2. QED
  BY <1>1, CopiesTyped, LocatedKept DEF Typed

\* No life has begun, and no copy has an item.
LEMMA TypedInit == Init => Typed
<1> SUFFICES ASSUME Init PROVE Typed
  OBVIOUS
<1>1. /\ mem = NoConfig /\ conf = None /\ \A t \in Threads : buffer[t] = NoConfig
      /\ buffer \in [Threads -> Config]
  BY EmptyConfig DEF Init
<1>2. TypeOK
  BY <1>1, EmptyConfig, StoppedPlaces, StartsAssumption
     DEF Init, TypeOK, At, Hashes
<1>3. Located
  BY <1>1, StoppedPlaces DEF Init, Located, Starting, Serving
<1>4. \A c \in Copies : Distinct(c)
  BY <1>1, EmptyConfig DEF Copies, Whole
<1>5. QED
  BY <1>2, <1>3, <1>4 DEF Typed
-----------------------------------------------------------------------------
\* The core's own keys

\* The steps that write the pair.
LEMMA KeysWritten ==
  ASSUME Typed, KeysFit, KeysThere \/ Generate \/ GenOpen \/ GenClose
  PROVE  KeysFit'
<1> USE DEF At, Runs, StartsUnlessTorn
<1>1. /\ key \in [{"priv", "pub"} -> Lives \cup {None, Torn}]
      /\ pc \in [Threads -> Places("main") \cup Places("reader")]
      /\ "main" \in Threads
      /\ None \notin Lives /\ Torn \notin Lives /\ None # Torn
      /\ self = None /\ self' = self /\ mishaps' = mishaps /\ starts' = starts
      /\ starts \in Lives
  BY Apart DEF Typed, TypeOK, Located, Starting, Threads, KeysThere, Generate,
               GenOpen, GenClose, ghosts
<1>2. CASE KeysThere
  <2>1. key' = key /\ pc'["main"] \in {"scan", "setup"} /\ key["priv"] # None
    BY <1>1, <1>2 DEF KeysThere, AfterKeys, Move, HasKeys, disk
  <2>2. QED
    BY <1>1, <1>2, <2>1 DEF KeysFit, KeysThere
<1>3. CASE Generate
  <2>1. key' = key /\ pc'["main"] = "gen" /\ n' = 1
    BY <1>1, <1>3 DEF Generate, Move, disk
  <2>2. key["priv"] = None
    BY <1>1, <1>3 DEF Generate, HasKeys, KeysFit, Whole
  <2>3. QED
    BY <1>1, <1>3, <2>1, <2>2 DEF KeysFit, Generate, Whole
<1>4. CASE GenOpen
  <2>1. pc'["main"] = "genclose" /\ n' = n /\ n \in {1, 2}
    BY <1>1, <1>4 DEF GenOpen, Move, scan, Typed, Located
  <2>2. CASE n = 1
    <3>1. key'["pub"] = Torn /\ key'["priv"] = None
      BY <1>1, <1>4, <2>2 DEF GenOpen, Pair, KeysFit
    <3>2. QED
      BY <1>1, <2>1, <2>2, <3>1 DEF KeysFit, Whole
  <2>3. CASE n = 2
    <3>1. key'["pub"] = starts /\ key'["priv"] = Torn
      BY <1>1, <1>4, <2>3 DEF GenOpen, Pair, KeysFit
    <3>2. QED
      BY <1>1, <2>1, <2>3, <3>1 DEF KeysFit, Whole
  <2>4. QED
    BY <2>1, <2>2, <2>3
<1>5. CASE GenClose
  <2>1. n \in {1, 2}
    BY <1>5 DEF GenClose, Typed, Located
  <2>2. CASE n = 1
    <3>1. key'["pub"] = starts /\ key'["priv"] = None
      BY <1>1, <1>5, <2>2 DEF GenClose, Pair, KeysFit
    <3>2. pc'["main"] = "gen" /\ n' = 2
      BY <1>1, <1>5, <2>2 DEF GenClose, Pair, Move
    <3>3. QED
      BY <1>1, <3>1, <3>2 DEF KeysFit, Whole
  <2>3. CASE n = 2
    <3>1. key'["pub"] = starts /\ key'["priv"] = starts
      BY <1>1, <1>5, <2>3 DEF GenClose, Pair, KeysFit
    <3>2. pc'["main"] \in {"scan", "setup"}
      BY <1>1, <1>5, <2>3 DEF GenClose, Pair, AfterKeys, Move
    <3>3. QED
      BY <1>1, <3>1, <3>2 DEF KeysFit, Whole
  <2>4. QED
    BY <2>1, <2>2, <2>3
<1>6. QED
  BY <1>2, <1>3, <1>4, <1>5

\* What the core has generated is no longer written.
LEMMA KeysLeft ==
  ASSUME Typed, KeysFit, Next, ~(KeysThere \/ Generate \/ GenOpen \/ GenClose)
  PROVE  KeysFit'
<1> USE DEF At, Runs, StartsUnlessTorn
<1>1. /\ key \in [{"priv", "pub"} -> Lives \cup {None, Torn}]
      /\ pc \in [Threads -> Places("main") \cup Places("reader")]
      /\ "main" \in Threads /\ mishaps \subseteq mishaps'
      /\ None \notin Lives /\ Torn \notin Lives /\ None # Torn
  BY Apart, MishapsTyped DEF Typed, TypeOK, Threads
<1>2. key' = key
  BY DEF Next, Start, ScanSkip, ScanMissing, ScanCreate, ScanWritten, ScanEnds, Setup,
         Load, Save, SaveOpen, SaveFlush, SaveClose, AddPeerKey, AddPeerKeyClose,
         AddPeer, AddPeerReply, AddFile, Metadata, MetadataCreated, MetadataAdd,
         Crash, disk
<1>3. CASE \E r \in SUBSET Shared : Start(r)
  <2>1. pc["main"] = "off" /\ pc'["main"] = "keys" /\ self' = self
    BY <1>1, <1>3 DEF Start, Move
  <2>2. QED
    BY <1>1, <1>2, <2>1 DEF KeysFit
<1>4. CASE Load
  <2>1. pc["main"] = "load" /\ mishaps' = mishaps /\ self = None
    BY <1>4 DEF Load, ghosts, Typed, Located, Starting
  <2>2. \/ Whole(key["priv"]) /\ self' = key["priv"] /\ pc'["main"] = "run"
        \/ ~Whole(key["priv"]) /\ self' = self /\ pc'["main"] = "failed"
    BY <1>1, <1>4 DEF Load, Move
  <2>3. ~Whole(key["priv"]) => key["priv"] = Torn /\ "selfkey" \in mishaps
    BY <1>1, <2>1 DEF Whole, KeysFit
  <2>4. QED
    BY <1>1, <1>2, <2>1, <2>2, <2>3 DEF KeysFit
<1>5. CASE Crash
  <2>1. pc'["main"] = "off" /\ self' = None /\ mishaps' = mishaps \cup TornNow
    BY <1>5, StoppedPlaces DEF Crash
  <2>2. key["priv"] = Torn => "selfkey" \in mishaps'
    BY <2>1 DEF TornNow
  <2>3. QED
    BY <1>1, <1>2, <2>1, <2>2 DEF KeysFit
<1>6. CASE ~Load /\ ~Crash /\ ~\E r \in SUBSET Shared : Start(r)
  <2>1. self' = self
    BY <1>6 DEF Next, ScanSkip, ScanMissing, ScanCreate, ScanWritten, ScanEnds, Setup,
         Save, SaveOpen, SaveFlush, SaveClose, AddPeerKey, AddPeerKeyClose,
         AddPeer, AddPeerReply, AddFile, Metadata, MetadataCreated, MetadataAdd
  <2>2. \/ pc'["main"] = pc["main"]
        \/ /\ pc'["main"] \notin {"off", "keys", "gen", "genclose", "failed"}
           /\ pc["main"] \notin {"off", "keys", "gen", "genclose"}
    <3>1. CASE \E t \in Threads : Save(t)
      BY <1>1, <3>1, AfterSavePlace
         DEF Save, SaveOpen, SaveFlush, SaveClose, Move
    <3>2. QED
      BY <1>1, <1>6, <3>1
         DEF Next, ScanSkip, ScanMissing, ScanCreate, ScanWritten, ScanEnds, Setup,
             AddPeerKey, AddPeerKeyClose, AddPeer, AddPeerReply, AddFile, Metadata,
             MetadataCreated, MetadataAdd, Move, Scanning
  <2>3. pc["main"] \in {"gen", "genclose"} => n' = n /\ starts' = starts
    BY <1>6 DEF Next, ScanSkip, ScanMissing, ScanCreate, ScanWritten, ScanEnds, Setup,
         Save, SaveOpen, SaveFlush, SaveClose, AddPeerKey, AddPeerKeyClose,
         AddPeer, AddPeerReply, AddFile, Metadata, MetadataCreated, MetadataAdd,
         Scanning, scan, ghosts
  <2>4. QED
    BY <1>1, <1>2, <2>1, <2>2, <2>3 DEF KeysFit
<1>7. QED
  BY <1>3, <1>4, <1>5, <1>6

\* The two files of the pair go on to fit together.
LEMMA KeysFitKept ==
  ASSUME Typed, KeysFit, Next
  PROVE  KeysFit'
BY KeysWritten, KeysLeft
-----------------------------------------------------------------------------
\* The keys of the peers

\* Only handleaddpeer adds a peer to a configuration.
LEMMA PeersNext ==
  ASSUME Typed, Next, ~AddPeer
  PROVE  \A c \in Copies' : c.peers = {} \/ \E d \in Copies : c.peers = d.peers
<1>1. TypeOK /\ mem \in Copies /\ (Loaded \in Copies \/ Loaded = NoConfig)
      /\ mem \in Config /\ Distinct(mem)
  BY CopyTypes DEF Typed, TypeOK
<1>2. mem' \in Copies \/ mem' = NoConfig \/ mem'.peers = mem.peers
  <2>1. CASE Setup
    BY <1>1, <2>1, AccountGrows DEF Setup
  <2>2. CASE ~Setup
    <3>1. \/ mem' = mem \/ mem' = Loaded \/ mem' = NoConfig
          \/ \E f \in Files, h \in Hashes \cup {Null} : Added(mem, mem', f, h)
      BY <2>2, MemNext
    <3>2. QED
      BY <1>1, <3>1 DEF Added
  <2>3. QED
    BY <2>1, <2>2
<1>3. QED
  BY <1>1, <1>2, CopiesNext, EmptyConfig

\* handleaddpeer: the key file is whole before the peer is in a configuration.
LEMMA PeerAdded ==
  ASSUME Typed, PeersInv, Next,
         \/ \E p \in Peers : AddPeerKey(p)
         \/ AddPeerKeyClose \/ AddPeer
  PROVE  PeersInv'
<1> USE DEF At
<1>1. /\ pkey \in [Peers -> {None, Torn, "whole"}]
      /\ pc \in [Threads -> Places("main") \cup Places("reader")]
      /\ "main" \in Threads /\ mishaps' = mishaps
      /\ TypeOK /\ \A c \in Copies : c \in Config
  BY CopyTypes
     DEF Typed, TypeOK, Threads, AddPeerKey, AddPeerKeyClose, AddPeer, ghosts
<1>2. CASE ~AddPeer
  <2>1. ASSUME NEW p \in Peers, AddPeerKey(p)
        PROVE  PeersInv'
    <3>1. /\ pc["main"] = "run" /\ pc'["main"] = "keyclose" /\ peer' = p
          /\ pkey' = [pkey EXCEPT ![p] = Torn]
      BY <1>1, <2>1 DEF AddPeerKey, Move
    <3>2. \A c \in Copies : PeersKeyed(c)'
      BY <1>1, <3>1, Parts DEF PeersInv, PeersKeyed
    <3>3. \A c \in Copies' : PeersKeyed(c)'
      BY <1>2, <3>2, PeersNext DEF PeersKeyed
    <3>4. QED
      BY <1>1, <3>1, <3>3 DEF PeersInv
  <2>2. CASE AddPeerKeyClose
    <3>1. /\ pc'["main"] = "peer" /\ peer' = peer /\ peer \in Peers
          /\ pkey' = [pkey EXCEPT ![peer] = "whole"]
      BY <1>1, <2>2 DEF AddPeerKeyClose, Closed, Move, Typed, Located
    <3>2. \A c \in Copies : PeersKeyed(c)'
      BY <1>1, <3>1, Parts DEF PeersInv, PeersKeyed
    <3>3. \A c \in Copies' : PeersKeyed(c)'
      BY <1>2, <3>2, PeersNext DEF PeersKeyed
    <3>4. QED
      BY <1>1, <3>1, <3>3 DEF PeersInv
  <2>3. QED
    BY <1>2, <2>1, <2>2
<1>3. CASE AddPeer
  <2>1. /\ pc["main"] = "peer" /\ pc'["main"] = "open" /\ peer' = peer
        /\ peer \in Peers /\ pkey' = pkey /\ pkey[peer] = "whole"
    BY <1>1, <1>3 DEF AddPeer, Move, disk, Typed, Located, PeersInv
  <2>2. mem'.peers = mem.peers \cup {peer}
    BY <1>3, <2>1, PeersGrow DEF AddPeer, Typed, TypeOK
  <2>3. mem \in Copies
    BY DEF Copies
  <2>4. \A c \in Copies \cup {mem', NoConfig} : PeersKeyed(c)'
    BY <1>1, <2>1, <2>2, <2>3, EmptyConfig DEF PeersInv, PeersKeyed
  <2>5. \A c \in Copies' : PeersKeyed(c)'
    BY <1>1, <2>4, CopiesNext
  <2>6. QED
    BY <1>1, <2>1, <2>5 DEF PeersInv
<1>4. QED
  BY <1>2, <1>3

\* The key of a peer is written before the peer is named in any copy.
LEMMA PeersKept ==
  ASSUME Typed, PeersInv, Next
  PROVE  PeersInv'
<1> USE DEF At
<1>1. /\ pkey \in [Peers -> {None, Torn, "whole"}]
      /\ pc \in [Threads -> Places("main") \cup Places("reader")]
      /\ "main" \in Threads /\ mishaps \subseteq mishaps'
      /\ TypeOK /\ \A c \in Copies : c \in Config
  BY CopyTypes, MishapsTyped DEF Typed, TypeOK, Threads
<1>2. CASE \/ \E p \in Peers : AddPeerKey(p)
           \/ AddPeerKeyClose \/ AddPeer
  BY <1>2, PeerAdded
<1>3. CASE Crash
  <2>1. /\ pc'["main"] = "off" /\ mishaps' = mishaps \cup TornNow
        /\ mem' = NoConfig /\ \A t \in Threads : buffer'[t] = NoConfig
        /\ conf' = conf /\ pkey' = pkey
    BY <1>3, StoppedPlaces DEF Crash, disk
  <2>2. ASSUME NEW c \in Copies'
        PROVE  PeersKeyed(c)'
    <3>1. CASE c = NoConfig
      BY <3>1, EmptyConfig DEF PeersKeyed
    <3>2. CASE c = conf /\ Whole(conf)
      <4>1. c = Loaded /\ PeersKeyed(c)
        BY <3>2 DEF Copies, Loaded, PeersInv
      <4>2. (\E p \in c.peers : pkey[p] = Torn) => "peerkey" \in mishaps'
        BY <2>1, <4>1 DEF TornNow
      <4>3. QED
        BY <1>1, <2>1, <4>1, <4>2 DEF PeersKeyed, PeersInv
    <3>3. QED
      BY <2>1, <2>2, <3>1, <3>2 DEF Copies
  <2>3. QED
    BY <2>1, <2>2 DEF PeersInv
<1>4. CASE ~Crash /\ ~(\E p \in Peers : AddPeerKey(p)) /\ ~AddPeerKeyClose /\ ~AddPeer
  <2>1. pkey' = pkey
    BY <1>4 DEF Next, Start, KeysThere, Generate, GenOpen, GenClose, ScanSkip,
         ScanMissing, ScanCreate, ScanWritten, ScanEnds, Setup, Load, Save, SaveOpen,
         SaveFlush, SaveClose, AddPeerReply, AddFile, Metadata, MetadataCreated,
         MetadataAdd, disk
  <2>2. /\ pc'["main"] \in {"keyclose", "peer"} <=> pc["main"] \in {"keyclose", "peer"}
        /\ pc["main"] \in {"keyclose", "peer"} =>
             pc'["main"] = pc["main"] /\ peer' = peer
    <3>1. CASE \E t \in Threads : Save(t)
      BY <1>1, <3>1, AfterSavePlace DEF Save, SaveOpen, SaveFlush, SaveClose, Move
    <3>2. CASE KeysThere \/ Generate \/ GenOpen \/ GenClose
      BY <1>1, <3>2 DEF KeysThere, Generate, GenOpen, GenClose, AfterKeys, Move
    <3>3. CASE \/ \E r \in SUBSET Shared : Start(r)
               \/ ScanSkip \/ ScanMissing \/ ScanCreate \/ ScanWritten \/ ScanEnds
               \/ Setup \/ Load
      BY <1>1, <3>3 DEF Start, ScanSkip, ScanMissing, ScanCreate, ScanWritten,
                        ScanEnds, Setup, Load, Scanning, Move
    <3>4. CASE \/ AddPeerReply \/ MetadataCreated \/ MetadataAdd
               \/ \E f \in Shared : AddFile(f)
               \/ \E f \in Fetched : Metadata(f)
      BY <1>1, <3>4 DEF AddPeerReply, AddFile, Metadata, MetadataCreated, MetadataAdd,
                        Move
    <3>5. QED
      BY <1>4, <3>1, <3>2, <3>3, <3>4 DEF Next
  <2>3. \A c \in Copies : PeersKeyed(c)'
    BY <1>1, <2>1, <2>2 DEF PeersInv, PeersKeyed
  <2>4. \A c \in Copies' : PeersKeyed(c)'
    BY <1>4, <2>3, PeersNext DEF PeersKeyed
  <2>5. QED
    BY <1>1, <2>1, <2>2, <2>4 DEF PeersInv
<1>5. QED
  BY <1>2, <1>3, <1>4

-----------------------------------------------------------------------------
\* The metadata

\* An empty configuration refers to no metadata.
LEMMA NothingNamed ==
  /\ \A f : ~Names(NoConfig, f) /\ ~HashedIn(NoConfig, f)
  /\ \A m, x : Backed(NoConfig, m, x)
  /\ \A d : Behind(NoConfig, d)
BY EmptyConfig DEF Names, HashedIn, Backed, Behind

\* Metadata that was whole stays so, and more may have happened.
LEMMA BackedLater ==
  ASSUME NEW c, NEW m, NEW x, Backed(c, m, x), NEW k, NEW y, x \subseteq y,
         \A f \in Files : /\ m[f] = "whole" => k[f] = "whole"
                          /\ m[f] # None => k[f] # None
  PROVE  Backed(c, k, y)
BY DEF Backed, Files

\* A hash that gets into a configuration needs its metadata.
LEMMA BackedAdded ==
  ASSUME NEW c \in Config, NEW d, NEW f \in Files, NEW h \in Hashes \cup {Null},
         Added(c, d, f, h), NEW m, NEW x, Backed(c, m, x),
         h = Null => ~HashedIn(c, f),
         h \in Shared => m[h] = "whole" /\ HashedIn(d, h),
         h \in Fetched => /\ m[h] # None
                          /\ "metadata" \notin x => m[h] = "whole"
  PROVE  Backed(d, m, x) /\ Behind(c, d)
<1>1. /\ \A g : Names(d, g) => Names(c, g) \/ g = h
      /\ \A g : HashedIn(c, g) => HashedIn(d, g)
  BY AddedFacts
<1>2. QED
  BY <1>1 DEF Backed, Behind

\* The copies after a step that leaves the life as it is.
LEMMA CopiesBacked ==
  ASSUME Typed, Next, ~At("main", "off"), \A c \in Copies : Behind(c, mem),
         \A c \in Copies : Backed(c, meta', mishaps'),
         Backed(mem', meta', mishaps'), Behind(mem, mem')
  PROVE  /\ \A c \in Copies' : Backed(c, meta', mishaps')
         /\ \A c \in Copies' : Behind(c, mem')
<1>1. \A c \in Copies' : c \in Copies \/ c = mem' \/ c = NoConfig
  BY CopiesNext DEF Typed
<1>2. \A c \in Copies : Behind(c, mem')
  BY DEF Behind
<1>3. Behind(mem', mem')
  BY DEF Behind
<1>4. QED
  BY <1>1, <1>2, <1>3, NothingNamed

\* The next life reads what is on the disk.
LEMMA MetaStarts ==
  ASSUME Typed, MetaInv, NEW r \in SUBSET Shared, Start(r), Next
  PROVE  MetaInv'
<1> USE DEF At
<1>1. /\ meta' = meta /\ mishaps' = mishaps /\ mem' = Loaded /\ sha' = EmptyHash
      /\ pc'["main"] = "keys" /\ pc["reader"] = "idle" /\ pc'["reader"] = "idle"
      /\ conf' = conf /\ buffer' = buffer /\ mem = NoConfig
      /\ \A t \in Threads : buffer[t] = NoConfig
  BY DEF Start, Move, disk, Typed, TypeOK, Located, Threads
<1>2. Loaded \in Copies \/ Loaded = NoConfig
  BY CopyTypes DEF Typed
<1>3. \A c \in Copies' : c = Loaded \/ c = NoConfig
  BY <1>1 DEF Copies, Loaded
<1>4. \A c \in Copies' : Backed(c, meta', mishaps') /\ Behind(c, mem')
  BY <1>1, <1>2, <1>3, NothingNamed DEF MetaInv, Behind
<1>5. Fetching' /\ Hashing'
  BY <1>1 DEF MetaInv, Fetching, Hashing
<1>6. QED
  BY <1>4, <1>5 DEF MetaInv

\* A kill that tears the metadata of a download is remembered.
LEMMA MetaCrashes ==
  ASSUME Typed, MetaInv, Crash, Next
  PROVE  MetaInv'
<1> USE DEF At
<1>1. /\ meta' = meta /\ mishaps' = mishaps \cup TornNow /\ mem' = NoConfig
      /\ pc'["main"] = "off" /\ pc'["reader"] = "idle"
  BY StoppedPlaces DEF Crash, disk
<1>2. \A c \in Copies : Backed(c, meta', mishaps')
  BY <1>1, BackedLater DEF MetaInv
<1>3. \A c \in Copies' : Backed(c, meta', mishaps')
  BY <1>1, <1>2, CopiesNext, NothingNamed DEF Typed
<1>4. Fetching'
  BY <1>1 DEF Fetching, TornNow
<1>5. QED
  BY <1>1, <1>3, <1>4 DEF MetaInv, Hashing

\* A step that touches no metadata and adds no item.
LEMMA MetaRests ==
  ASSUME Typed, MetaInv, Next, ~At("main", "off"), ~Crash,
         meta' = meta, mem' = mem \/ Grown(mem, mem'),
         pc'["main"] = "hash" => pc["main"] = "hash" /\ UNCHANGED <<mem, n, sha>>,
         pc'["main"] = "scan" => sha' = EmptyHash \/ (pc["main"] = "scan" /\ sha' = sha),
         pc["reader"] = "create" \/ pc'["reader"] \in {"create", "add"} =>
           pc'["reader"] = pc["reader"] /\ told' = told
  PROVE  MetaInv'
<1> USE DEF At
<1>1. mishaps \subseteq mishaps'
  BY MishapsTyped
<1>2. \A c \in Copies : Backed(c, meta', mishaps')
  BY <1>1, BackedLater DEF MetaInv
<1>3. /\ \A f : Names(mem', f) <=> Names(mem, f)
      /\ \A f : HashedIn(mem', f) <=> HashedIn(mem, f)
  BY GrownFacts
<1>4. mem \in Copies
  BY DEF Copies
<1>5. Backed(mem', meta', mishaps') /\ Behind(mem, mem')
  BY <1>2, <1>3, <1>4 DEF Backed, Behind
<1>6. /\ \A c \in Copies' : Backed(c, meta', mishaps')
      /\ \A c \in Copies' : Behind(c, mem')
  BY <1>2, <1>5, CopiesBacked DEF MetaInv
<1>7. Fetching'
  BY <1>1 DEF MetaInv, Fetching
<1>8. Hashing'
  BY <1>3 DEF MetaInv, Hashing, Current
<1>9. QED
  BY <1>6, <1>7, <1>8 DEF MetaInv

\* Starting, saving and adding peers touches no metadata.
LEMMA MetaQuiet ==
  ASSUME Typed, MetaInv, Next,
         \/ KeysThere \/ Generate \/ GenOpen \/ GenClose \/ ScanEnds \/ Setup \/ Load
         \/ \E t \in Threads : Save(t)
         \/ \E p \in Peers : AddPeerKey(p)
         \/ AddPeerKeyClose \/ AddPeer \/ AddPeerReply
  PROVE  MetaInv'
<1> USE DEF At
<1>1. /\ pc \in [Threads -> Places("main") \cup Places("reader")]
      /\ "main" \in Threads /\ "reader" \in Threads
      /\ mem \in Config /\ Distinct(mem)
  BY DEF Typed, TypeOK, Threads
<1>2. CASE KeysThere \/ Generate \/ GenOpen \/ GenClose
  <2>1. /\ meta' = meta /\ mem' = mem /\ sha' = sha /\ told' = told
        /\ pc'["reader"] = pc["reader"]
        /\ pc["main"] \in {"keys", "gen", "genclose"} /\ pc'["main"] # "hash"
    BY <1>1, <1>2 DEF KeysThere, Generate, GenOpen, GenClose, AfterKeys, Move, disk,
                      scan
  <2>2. sha = EmptyHash /\ ~Crash
    BY <1>1, <1>2, <2>1, StoppedPlaces
       DEF Typed, Located, Crash, KeysThere, Generate, GenOpen, GenClose, AfterKeys,
           Move
  <2>3. QED
    BY <2>1, <2>2, MetaRests
<1>3. CASE ScanEnds \/ Setup \/ Load
  <2>1. /\ meta' = meta /\ told' = told /\ (mem' = mem \/ Grown(mem, mem'))
        /\ pc'["reader"] = pc["reader"]
        /\ pc["main"] \in {"scan", "setup", "load"}
        /\ pc'["main"] \in {"open", "load", "run", "failed"}
    <3>1. Setup => Grown(mem, mem')
      BY <1>1, AccountGrows DEF Setup
    <3>2. QED
      BY <1>1, <1>3, <3>1 DEF ScanEnds, Setup, Load, Move, disk
  <2>2. ~Crash
    BY <2>1, StoppedPlaces DEF Crash
  <2>3. QED
    BY <2>1, <2>2, MetaRests
<1>4. ASSUME NEW t \in Threads, SaveOpen(t) \/ SaveFlush(t) \/ SaveClose(t)
      PROVE  MetaInv'
  <2>1. /\ meta' = meta /\ mem' = mem /\ told' = told
        /\ pc["main"] # "off"
    BY <1>1, <1>4 DEF SaveOpen, SaveFlush, SaveClose, disk, Typed, Located, Threads
  <2>2. /\ \A u \in Threads : u # t => pc'[u] = pc[u]
        /\ pc[t] \in Saving
        /\ t = "main" => pc'[t] \in {"flush", "close", "load", "run", "reply"}
        /\ t = "reader" => pc'[t] \in {"flush", "close", "idle"}
    BY <1>1, <1>4, AfterSavePlace
       DEF SaveOpen, SaveFlush, SaveClose, Move, Saving, Threads
  <2>3. UNCHANGED <<n, sha>>
    BY <1>4 DEF SaveOpen, SaveFlush, SaveClose, scan
  <2>4. ~Crash
    BY <2>1, <2>2, StoppedPlaces DEF Crash, Threads, Saving
  <2>5. QED
    BY <1>1, <2>1, <2>2, <2>3, <2>4, MetaRests DEF Threads, Saving
<1>5. CASE \/ \E p \in Peers : AddPeerKey(p)
           \/ AddPeerKeyClose \/ AddPeer \/ AddPeerReply
  <2>1. /\ meta' = meta /\ told' = told /\ pc'["reader"] = pc["reader"]
        /\ pc["main"] \in {"run", "keyclose", "peer", "reply"}
        /\ pc'["main"] \in {"keyclose", "peer", "open", "run"}
    BY <1>1, <1>5 DEF AddPeerKey, AddPeerKeyClose, AddPeer, AddPeerReply, Move, disk
  <2>2. mem' = mem \/ Grown(mem, mem')
    BY <1>1, <1>5, PeersGrow
       DEF AddPeerKey, AddPeerKeyClose, AddPeer, AddPeerReply, At, Typed, Located
  <2>3. ~Crash
    BY <2>1, StoppedPlaces DEF Crash
  <2>4. QED
    BY <2>1, <2>2, <2>3, MetaRests
<1>6. QED
  BY <1>2, <1>3, <1>4, <1>5 DEF Save

\* An item that needs a hash has none: a file of metadata is never removed.
LEMMA NeedyHashless ==
  ASSUME Typed, MetaInv, Scanning, NeedsHash(Current)
  PROVE  Current.hash = Null /\ ~HashedIn(mem, Current.file)
<1>1. /\ n \in DOMAIN mem.items /\ Current = mem.items[n]
      /\ Current.hash \in Hashes \cup {Null}
  BY CurrentItem DEF Current
<1>2. mem \in Copies /\ Distinct(mem)
  BY DEF Copies, Typed, TypeOK
<1>3. Current.hash \in Files => meta[Current.hash] # None
  <2>1. Names(mem, Current.hash)
    BY <1>1 DEF Names
  <2>2. QED
    BY <1>2, <2>1, Apart DEF MetaInv, Backed, Files
<1>4. Current.hash = Null
  BY <1>3 DEF NeedsHash
<1>5. \A i \in DOMAIN mem.items : mem.items[i].file = Current.file => i = n
  BY <1>1, <1>2 DEF Distinct
<1>6. QED
  BY <1>1, <1>4, <1>5 DEF HashedIn

\* The commands add a file without a hash.
LEMMA MetaListed ==
  ASSUME Typed, MetaInv, Next, NEW f \in Shared, AddFile(f)
  PROVE  MetaInv'
<1> USE DEF At
<1>1. /\ meta' = meta /\ mishaps' = mishaps /\ told' = told
      /\ pc["main"] = "run" /\ pc'["main"] = "open" /\ pc'["reader"] = pc["reader"]
  BY DEF AddFile, Move, disk, ghosts, Typed, TypeOK, Threads
<1>2. Added(mem, mem', f, Null) /\ ~HashedIn(mem, f)
  BY CommandAdds DEF AddFile, Place, HashedIn
<1>3. mem \in Config /\ mem \in Copies /\ f \in Files
  BY DEF Typed, TypeOK, Copies, Files
<1>4. Backed(mem', meta', mishaps') /\ Behind(mem, mem')
  <2>1. Backed(mem, meta, mishaps) /\ Null \notin Shared /\ Null \notin Fetched
    BY <1>3, Apart DEF MetaInv, Hashes, Files
  <2>2. QED
    BY <1>1, <1>2, <1>3, <2>1, BackedAdded
<1>5. /\ \A c \in Copies' : Backed(c, meta', mishaps')
      /\ \A c \in Copies' : Behind(c, mem')
  BY <1>1, <1>4, CopiesBacked DEF MetaInv
<1>6. QED
  BY <1>1, <1>5 DEF MetaInv, Fetching, Hashing

\* A hash that is written takes none away.
LEMMA HashesStay ==
  ASSUME NEW c \in Config, NEW d, NEW f \in Files, NEW h \in Hashes,
         Added(c, d, f, h)
  PROVE  /\ \A g : HashedIn(c, g) => HashedIn(d, g)
         /\ HashedIn(d, f)
<1>1. h \in Hashes \cup {Null} /\ h # Null
  BY Apart
<1>2. QED
  BY <1>1, AddedFacts

\* An item that has a hash keeps it.
LEMMA MetaSkips ==
  ASSUME Typed, MetaInv, Next, ScanSkip
  PROVE  MetaInv'
<1> USE DEF At
<1>1. /\ meta' = meta /\ mishaps' = mishaps /\ sha' = sha /\ told' = told /\ pc' = pc
      /\ pc["main"] = "scan"
  BY DEF ScanSkip, Scanning, disk, ghosts
<1>2. /\ Current.file \in Files /\ Current.hash \in Hashes
      /\ Added(mem, mem', Current.file, Current.hash)
  BY ScanAdds, CurrentItem DEF ScanSkip
<1>3. mem \in Config /\ mem \in Copies /\ Backed(mem, meta, mishaps)
      /\ Names(mem, Current.hash) /\ Null \notin Hashes
  BY CurrentItem, Apart DEF Typed, TypeOK, Copies, MetaInv, Names, Current, ScanSkip
<1>4. \A g : HashedIn(mem, g) => HashedIn(mem', g)
  BY <1>2, <1>3, HashesStay
<1>5. Backed(mem', meta', mishaps') /\ Behind(mem, mem')
  <2>1. Current.hash \in Shared => /\ meta[Current.hash] = "whole"
                                   /\ HashedIn(mem', Current.hash)
    BY <1>3, <1>4 DEF Backed
  <2>2. Current.hash \in Fetched =>
          /\ meta[Current.hash] # None
          /\ "metadata" \notin mishaps => meta[Current.hash] = "whole"
    BY <1>3 DEF Backed
  <2>3. QED
    BY <1>1, <1>2, <1>3, <2>1, <2>2, BackedAdded
<1>6. /\ \A c \in Copies' : Backed(c, meta', mishaps')
      /\ \A c \in Copies' : Behind(c, mem')
  BY <1>1, <1>5, CopiesBacked DEF MetaInv
<1>7. Fetching' /\ Hashing'
  BY <1>1, <1>4 DEF MetaInv, Fetching, Hashing
<1>8. QED
  BY <1>6, <1>7 DEF MetaInv

\* A file that cannot be opened gets the hash of the one before it, which has one.
LEMMA MetaMisses ==
  ASSUME Typed, MetaInv, Next, ScanMissing
  PROVE  MetaInv'
<1> USE DEF At
<1>1. /\ meta' = meta /\ sha' = sha /\ told' = told /\ pc' = pc
      /\ pc["main"] = "scan" /\ mishaps \subseteq mishaps'
      /\ "metadata" \in mishaps' => "metadata" \in mishaps
  BY DEF ScanMissing, Scanning, disk
<1>2. Current.file \in Files /\ sha \in Hashes /\ Added(mem, mem', Current.file, sha)
  BY ScanAdds, CurrentItem DEF ScanMissing, Typed, TypeOK
<1>3. mem \in Config /\ mem \in Copies /\ Null \notin Hashes
  BY Apart DEF Typed, TypeOK, Copies
<1>4. \A g : HashedIn(mem, g) => HashedIn(mem', g)
  BY <1>2, <1>3, HashesStay
<1>5. /\ sha \in Files => sha \in Shared /\ meta[sha] = "whole" /\ HashedIn(mem, sha)
      /\ sha \in Shared \/ sha \in Fetched => sha \in Files
      /\ sha # Null
  BY <1>1, <1>2, <1>3, Apart DEF MetaInv, Hashing, Files
<1>6. \A c \in Copies : Backed(c, meta', mishaps')
  BY <1>1, BackedLater DEF MetaInv
<1>7. Backed(mem', meta', mishaps') /\ Behind(mem, mem')
  <2>1. sha \notin Fetched
    BY <1>5, FilesAssumption
  <2>2. sha \in Shared => meta'[sha] = "whole" /\ HashedIn(mem', sha)
    BY <1>1, <1>4, <1>5
  <2>3. QED
    BY <1>2, <1>3, <1>5, <1>6, <2>1, <2>2, BackedAdded
<1>8. /\ \A c \in Copies' : Backed(c, meta', mishaps')
      /\ \A c \in Copies' : Behind(c, mem')
  BY <1>1, <1>6, <1>7, CopiesBacked DEF MetaInv
<1>9. Fetching' /\ Hashing'
  BY <1>1, <1>4 DEF MetaInv, Fetching, Hashing
<1>10. QED
  BY <1>8, <1>9 DEF MetaInv

\* create_metadata_file opens a file that no configuration refers to.
LEMMA MetaCreates ==
  ASSUME Typed, MetaInv, Next, ScanCreate
  PROVE  MetaInv'
<1> USE DEF At
<1> DEFINE f == Current.file
<1>1. /\ f \in Shared /\ f \in Files /\ f \notin Fetched
      /\ meta \in [Files -> {None, Torn, "whole"}]
  BY FilesAssumption DEF ScanCreate, Typed, TypeOK, Files
<1>2. Current.hash = Null /\ ~HashedIn(mem, f)
  BY NeedyHashless DEF ScanCreate
<1>3. Current' = Current
  BY DEF ScanCreate, Current
<1> HIDE DEF f
<1>4. /\ meta' = [meta EXCEPT ![f] = Torn] /\ sha' = f /\ told' = told /\ mem' = mem
      /\ mishaps' = mishaps /\ pc["main"] = "scan" /\ pc'["main"] = "hash"
      /\ pc'["reader"] = pc["reader"]
  BY DEF ScanCreate, Scanning, Digest, Move, ghosts, Typed, TypeOK, Threads, f
<1>5. \A c \in Copies : ~Names(c, f)
  BY <1>1, <1>2, <1>4 DEF MetaInv, Backed, Behind
<1>6. \A c \in Copies : Backed(c, meta', mishaps')
  BY <1>1, <1>4, <1>5 DEF MetaInv, Backed, Files
<1>7. /\ \A c \in Copies' : Backed(c, meta', mishaps')
      /\ \A c \in Copies' : Behind(c, mem')
  <2>1. mem \in Copies /\ Behind(mem, mem)
    BY DEF Copies, Behind
  <2>2. QED
    BY <1>4, <1>6, <2>1, CopiesBacked DEF MetaInv
<1>8. Fetching'
  BY <1>1, <1>4, Apart DEF MetaInv, Fetching, Typed, TypeOK, Files
<1>9. Hashing'
  BY <1>1, <1>2, <1>3, <1>4 DEF Hashing, f
<1>10. QED
  BY <1>7, <1>8, <1>9 DEF MetaInv

\* It closes the file before the item gets the hash.
LEMMA MetaWritten ==
  ASSUME Typed, MetaInv, Next, ScanWritten
  PROVE  MetaInv'
<1> USE DEF At
<1>1. /\ sha \in Shared /\ sha \in Files /\ sha \notin Fetched /\ sha \in Hashes
      /\ sha = Current.file /\ meta \in [Files -> {None, Torn, "whole"}]
  BY FilesAssumption
     DEF ScanWritten, Typed, TypeOK, MetaInv, Hashing, Files, Hashes
<1>2. /\ meta' = [meta EXCEPT ![sha] = "whole"] /\ sha' = sha /\ told' = told
      /\ mishaps' = mishaps /\ pc["main"] = "hash" /\ pc'["main"] = "scan"
      /\ pc'["reader"] = pc["reader"]
  BY DEF ScanWritten, Closed, Move, ghosts, Typed, TypeOK, Threads
<1>3. Added(mem, mem', sha, sha)
  BY <1>1, ScanAdds
<1>4. mem \in Config /\ mem \in Copies
  BY DEF Typed, TypeOK, Copies
<1>5. \A c \in Copies : Backed(c, meta', mishaps')
  BY <1>1, <1>2, Apart, BackedLater DEF MetaInv
<1>6. HashedIn(mem', sha)
  BY <1>1, <1>3, <1>4, HashesStay
<1>7. Backed(mem', meta', mishaps') /\ Behind(mem, mem')
  <2>1. sha \in Hashes \cup {Null} /\ sha # Null /\ meta'[sha] = "whole"
        /\ Backed(mem, meta', mishaps')
    BY <1>1, <1>2, <1>4, <1>5, Apart
  <2>2. QED
    BY <1>1, <1>3, <1>4, <1>6, <2>1, BackedAdded
<1>8. /\ \A c \in Copies' : Backed(c, meta', mishaps')
      /\ \A c \in Copies' : Behind(c, mem')
  BY <1>2, <1>5, <1>7, CopiesBacked DEF MetaInv
<1>9. Fetching'
  BY <1>1, <1>2, Apart DEF MetaInv, Fetching, Typed, TypeOK, Files
<1>10. Hashing'
  BY <1>1, <1>2, <1>6 DEF Hashing
<1>11. QED
  BY <1>8, <1>9, <1>10 DEF MetaInv

\* handlemetadata, up to what it lists.
LEMMA MetaFetched ==
  ASSUME Typed, MetaInv, Next,
         MetadataCreated \/ \E f \in Fetched : Metadata(f)
  PROVE  MetaInv'
<1> USE DEF At
<1>1. /\ meta \in [Files -> {None, Torn, "whole"}] /\ Fetched \subseteq Files
      /\ pc \in [Threads -> Places("main") \cup Places("reader")]
      /\ "reader" \in Threads /\ "main" \in Threads
      /\ mem' = mem /\ mishaps' = mishaps
      /\ None # Torn /\ None # "whole" /\ Torn # "whole"
  BY Apart DEF Typed, TypeOK, Files, Threads, Metadata, MetadataCreated, ghosts
<1>2. pc["main"] \notin {"off"} \cup Starting /\ pc'["main"] = pc["main"]
  <2>1. pc'["main"] = pc["main"] /\ self # None
    BY <1>1 DEF Metadata, MetadataCreated, Move, Runs, Typed, Located
  <2>2. QED
    BY <2>1 DEF Typed, Located
<1>3. /\ \A f \in Files : meta[f] = "whole" => meta'[f] = "whole"
      /\ \A f \in Files : meta[f] # None => meta'[f] # None
      /\ Fetching'
  <2>1. ASSUME NEW f \in Fetched, Metadata(f)
        PROVE  <1>3
    <3>1. /\ pc["reader"] = "idle" /\ told' = f
          /\ \/ /\ meta[f] = None
                /\ meta' = [meta EXCEPT ![f] = Torn] /\ pc'["reader"] = "create"
             \/ meta[f] # None /\ pc'["reader"] = "add" /\ meta' = meta
      BY <1>1, <2>1 DEF Metadata, Move
    <3>2. \A g \in Fetched : meta[g] = Torn => "metadata" \in mishaps
      BY <3>1 DEF MetaInv, Fetching
    <3>3. QED
      BY <1>1, <3>1, <3>2 DEF Fetching
  <2>2. CASE MetadataCreated
    <3>1. /\ pc["reader"] = "create" /\ pc'["reader"] = "add" /\ told' = told
          /\ told \in Fetched /\ meta' = [meta EXCEPT ![told] = "whole"]
      BY <1>1, <2>2 DEF MetadataCreated, Closed, Move, Typed, Located
    <3>2. \A g \in Fetched : meta'[g] = Torn => "metadata" \in mishaps
      BY <1>1, <3>1 DEF MetaInv, Fetching
    <3>3. QED
      BY <1>1, <3>1, <3>2 DEF Fetching
  <2>3. QED
    BY <2>1, <2>2
<1>4. \A c \in Copies : Backed(c, meta', mishaps')
  BY <1>1, <1>3, BackedLater DEF MetaInv
<1>5. /\ \A c \in Copies' : Backed(c, meta', mishaps')
      /\ \A c \in Copies' : Behind(c, mem')
  <2>1. mem \in Copies /\ Behind(mem, mem)
    BY DEF Copies, Behind
  <2>2. QED
    BY <1>1, <1>2, <1>4, <2>1, CopiesBacked DEF MetaInv
<1>6. Hashing'
  BY <1>2 DEF Hashing, Starting
<1>7. QED
  BY <1>3, <1>5, <1>6 DEF MetaInv

\* The file is there when handlemetadata lists it.
LEMMA MetaAdded ==
  ASSUME Typed, MetaInv, Next, MetadataAdd
  PROVE  MetaInv'
<1> USE DEF At
<1>1. /\ meta' = meta /\ mishaps' = mishaps /\ pc'["main"] = pc["main"]
      /\ pc["reader"] = "add" /\ pc'["reader"] = "open"
  BY DEF MetadataAdd, Move, disk, ghosts, Typed, TypeOK, Threads
<1>2. pc["main"] \notin {"off"} \cup Starting
  BY <1>1 DEF Typed, Located
<1>3. /\ told \in Fetched /\ told \in Files /\ told \in Hashes /\ told \notin Shared
      /\ Added(mem, mem', told, told)
  BY CommandAdds, FilesAssumption DEF Files, Hashes
<1>4. mem \in Config /\ mem \in Copies /\ Backed(mem, meta, mishaps)
      /\ told # Null /\ told \in Hashes \cup {Null}
  BY <1>3, Apart DEF Typed, TypeOK, Copies, MetaInv
<1>5. Backed(mem', meta, mishaps) /\ Behind(mem, mem')
  <2>1. meta[told] # None /\ ("metadata" \notin mishaps => meta[told] = "whole")
    BY <1>1 DEF MetaInv, Fetching
  <2>2. QED
    BY <1>3, <1>4, <2>1, BackedAdded
<1>6. /\ \A c \in Copies' : Backed(c, meta', mishaps')
      /\ \A c \in Copies' : Behind(c, mem')
  BY <1>1, <1>2, <1>5, CopiesBacked DEF MetaInv
<1>7. Fetching' /\ Hashing'
  BY <1>1, <1>2 DEF MetaInv, Fetching, Hashing, Starting
<1>8. QED
  BY <1>6, <1>7 DEF MetaInv

\* Every copy goes on to have its metadata, whoever writes it.
LEMMA MetaKept ==
  ASSUME Typed, MetaInv, Next
  PROVE  MetaInv'
BY MetaStarts, MetaCrashes, MetaQuiet, MetaListed, MetaSkips, MetaMisses, MetaCreates,
   MetaWritten, MetaFetched, MetaAdded DEF Next

-----------------------------------------------------------------------------
\* The hashes

\* An item gets its own hash, or none, and the hash the name of its file.
LEMMA TruthAdded ==
  ASSUME NEW c \in Config, NEW d, NEW f \in Files, NEW h \in {Null, f},
         Added(c, d, f, h), Truthful(c),
         \A g \in Hashes : d.names[g] = c.names[g] \/ (g = h /\ d.names[g] = f),
         h = f => d.names[f] = f
  PROVE  Truthful(d)
<1>1. /\ \A g \in Hashes : c.names[g] \in {None, g}
      /\ \A i \in DOMAIN c.items : c.items[i].hash # Null =>
           /\ c.items[i].hash = c.items[i].file
           /\ c.names[c.items[i].file] = c.items[i].file
  BY DEF Truthful
<1>2. \A g \in Hashes : d.names[g] \in {None, g}
  BY <1>1, Apart
<1>3. ASSUME NEW i \in DOMAIN d.items, d.items[i].hash # Null
      PROVE  /\ d.items[i].hash = d.items[i].file
             /\ d.names[d.items[i].file] = d.items[i].file
  <2>1. CASE d.items[i].file = f /\ d.items[i].hash = h
    BY <1>3, <2>1
  <2>2. CASE i \in DOMAIN c.items /\ d.items[i] = c.items[i] /\ c.items[i].file # f
    <3>1. c.items[i].file \in Hashes
      BY <2>2, Parts DEF Hashes
    <3>2. QED
      BY <1>1, <1>3, <2>2, <3>1
  <2>3. QED
    BY <2>1, <2>2 DEF Added
<1>4. QED
  BY <1>2, <1>3 DEF Truthful

\* Each file that is hashed is opened first, so its hash is its own.
LEMMA TruthMem ==
  ASSUME Typed, MetaInv, TruthInv, Next, "missing" \notin mishaps'
  PROVE  Truthful(mem')
<1>1. /\ mem \in Config /\ Distinct(mem) /\ \A c \in Copies : Truthful(c)
      /\ mem \in Copies /\ (Loaded \in Copies \/ Loaded = NoConfig) /\ Truthful(mem)
  BY CopyTypes, MishapsTyped DEF Typed, TypeOK, TruthInv, Copies
<1>2. Truthful(NoConfig)
  BY EmptyConfig DEF Truthful, NoConfig
<1>3. CASE Grown(mem, mem')
  BY <1>1, <1>3 DEF Grown, Truthful
<1>4. CASE ScanSkip \/ ScanWritten
  <2>1. PICK h \in Hashes : /\ h = Current.file /\ mem' = Hashed(Current, h)
                            /\ Current.file \in Files /\ Current \in Item
    <3>1. CASE ScanSkip
      <4>1. Current.hash \in Hashes /\ n \in DOMAIN mem.items /\ Current \in Item
            /\ Current.file \in Files
        BY <3>1, ScanAdds, CurrentItem DEF ScanSkip
      <4>2. Current.hash = Current.file
        BY <1>1, <4>1, Apart DEF Truthful, Current
      <4>3. QED
        BY <3>1, <4>1, <4>2 DEF ScanSkip
    <3>2. CASE ScanWritten
      BY <3>2, CurrentItem DEF ScanWritten, MetaInv, Hashing, Typed, TypeOK
    <3>3. QED
      BY <1>4, <3>1, <3>2
  <2>2. /\ Added(mem, mem', Current.file, h)
        /\ \A g \in Hashes : mem'.names[g] =
             IF g = h /\ mem.names[h] = None THEN Current.file ELSE mem.names[g]
    BY <1>1, <2>1, HashedAdds
  <2>3. mem.names[h] \in {None, h}
    BY <1>1, <2>1 DEF Truthful
  <2>4. QED
    BY <1>1, <2>1, <2>2, <2>3, TruthAdded
<1>5. CASE MetadataAdd
  <2>1. /\ told \in Files /\ told \in Hashes /\ Added(mem, mem', told, told)
        /\ mem'.names = [mem.names EXCEPT ![told] = told]
    BY <1>5, CommandAdds DEF Files, Hashes
  <2>2. mem.names \in [Hashes -> Files \cup {None}]
    BY <1>1, Parts
  <2>3. QED
    BY <1>1, <2>1, <2>2, TruthAdded
<1>6. ASSUME NEW f \in Shared, AddFile(f)
      PROVE  Truthful(mem')
  <2>1. /\ f \in Files /\ Added(mem, mem', f, Null) /\ mem'.names = mem.names
        /\ f # Null
    BY <1>6, CommandAdds, Apart DEF Files, Hashes
  <2>2. QED
    BY <1>1, <2>1, TruthAdded
<1>7. ~ScanMissing
  BY DEF ScanMissing
<1>8. QED
  BY <1>1, <1>2, <1>3, <1>4, <1>5, <1>6, <1>7, MemNext

\* Hashes go on to be right while no shared file is missing.
LEMMA TruthKept ==
  ASSUME Typed, MetaInv, TruthInv, Next
  PROVE  TruthInv'
<1>1. Truthful(NoConfig)
  BY EmptyConfig DEF Truthful, NoConfig
<1>2. QED
  BY <1>1, TruthMem, CopiesNext, MishapsTyped DEF Typed, TruthInv

-----------------------------------------------------------------------------
\* What was saved

\* The memory only grows during a life.
LEMMA MemGrows ==
  ASSUME Typed, Next, ~At("main", "off"), ~Crash
  PROVE  Contents(mem) \subseteq Contents(mem') /\ mem.peers \subseteq mem'.peers
<1>1. mem \in Config
  BY DEF Typed, TypeOK
<1>2. ASSUME NEW f \in Files, NEW h \in Hashes \cup {Null}, Added(mem, mem', f, h)
      PROVE  Contents(mem) \subseteq Contents(mem') /\ mem.peers \subseteq mem'.peers
  BY <1>1, <1>2, AddedFacts DEF Added
<1>3. ASSUME Grown(mem, mem')
      PROVE  Contents(mem) \subseteq Contents(mem') /\ mem.peers \subseteq mem'.peers
  BY <1>3, GrownFacts DEF Grown
<1>4. QED
  BY <1>2, <1>3, MemNext

\* A buffer holds what was in memory.
LEMMA BuffersKept ==
  ASSUME Typed, KeptInv, Next
  PROVE  \A t \in Threads : Contents(buffer'[t]) \subseteq Contents(mem')
<1>1. /\ \A t \in Threads : Contents(buffer[t]) \subseteq Contents(mem)
      /\ buffer \in [Threads -> Config]
  BY DEF KeptInv, Typed, TypeOK
<1>2. CASE Crash
  <2>1. \A t \in Threads : buffer'[t] = NoConfig
    BY <1>2 DEF Crash
  <2>2. QED
    BY <2>1, EmptyConfig
<1>3. CASE At("main", "off") /\ ~Crash
  <2>1. pc["main"] = "off" /\ pc["reader"] = "idle"
    BY <1>3 DEF At, Typed, Located
  <2>2. buffer' = buffer
    BY <1>3, <2>1, Writers DEF Save, SaveOpen, SaveFlush, SaveClose, At, Threads
  <2>3. \A t \in Threads : buffer[t] = NoConfig
    BY <2>1 DEF Typed, Located, Threads
  <2>4. QED
    BY <2>2, <2>3, EmptyConfig
<1>4. CASE ~At("main", "off") /\ ~Crash
  <2>1. Contents(mem) \subseteq Contents(mem')
    BY <1>4, MemGrows
  <2>2. \A t \in Threads : buffer'[t] \in {buffer[t], mem, NoConfig}
    BY <1>1, <1>4, Writers DEF Save, SaveOpen, SaveFlush, Flushed, SaveClose
  <2>3. QED
    BY <1>1, <2>1, <2>2, EmptyConfig
<1>5. QED
  BY <1>2, <1>3, <1>4

\* A peer that is added is in memory, then in the buffer, and then in the file.
LEMMA PeerSavedKept ==
  ASSUME Typed, KeptInv, Next
  PROVE  PeerSaved'
<1> USE DEF At
<1>1. /\ pc \in [Threads -> Places("main") \cup Places("reader")]
      /\ "main" \in Threads /\ "reader" \in Threads
      /\ buffer \in [Threads -> Config] /\ Located /\ PeerSaved
      /\ (pc["main"] = "run" => peer = None)
  BY DEF Typed, TypeOK, Threads, KeptInv, At
<1>2. CASE Crash
  BY <1>2, StoppedPlaces DEF Crash, PeerSaved, Saving
<1>3. CASE AddPeer
  <2>1. /\ pc'["main"] = "open" /\ peer' = peer /\ peer \in Peers
        /\ mem'.peers = mem.peers \cup {peer}
    BY <1>1, <1>3, PeersGrow DEF AddPeer, Move, Located, Typed, TypeOK
  <2>2. QED
    BY <2>1 DEF PeerSaved
<1>4. CASE SaveOpen("main") \/ SaveFlush("main") \/ SaveClose("main")
  <2>1. /\ pc["main"] \in Saving /\ mem' = mem /\ peer' = peer
    BY <1>4 DEF SaveOpen, SaveFlush, SaveClose, Saving
  <2>2. \/ pc'["main"] = "flush"
        \/ pc'["main"] = "close" /\ buffer'["main"] = mem
        \/ pc'["main"] \in {"load", "run"}
        \/ /\ pc'["main"] = "reply" /\ peer # None /\ pc["main"] = "close"
           /\ promised' = promised \cup Contents(buffer["main"])
    BY <1>1, <1>4, AfterSavePlace DEF SaveOpen, SaveFlush, Flushed, SaveClose, Move
  <2>3. QED
    BY <1>1, <2>1, <2>2 DEF PeerSaved, Saving, Contents
<1>5. CASE SaveOpen("reader") \/ SaveFlush("reader") \/ SaveClose("reader")
  <2>1. /\ pc'["main"] = pc["main"] /\ mem' = mem /\ peer' = peer
        /\ buffer'["main"] = buffer["main"] /\ promised \subseteq promised'
    BY <1>1, <1>5 DEF SaveOpen, SaveFlush, SaveClose, Move, ghosts
  <2>2. QED
    BY <1>1, <2>1 DEF PeerSaved
<1>6. CASE ScanEnds \/ Setup \/ \E f \in Shared : AddFile(f)
  <2>1. peer' = peer /\ peer = None /\ pc'["main"] # "reply"
    BY <1>1, <1>6 DEF ScanEnds, Setup, AddFile, Located, Starting, Move
  <2>2. QED
    BY <2>1 DEF PeerSaved
<1>7. CASE MetadataCreated \/ MetadataAdd \/ \E f \in Fetched : Metadata(f)
  <2>1. /\ pc'["main"] = pc["main"] /\ peer' = peer /\ buffer' = buffer
        /\ promised' = promised /\ self # None
    BY <1>1, <1>7 DEF MetadataCreated, MetadataAdd, Metadata, Move, Runs, ghosts,
                      Located
  <2>2. pc["main"] # "off" /\ ~Crash
    BY <1>1, <2>1, StoppedPlaces DEF Located, Crash
  <2>3. mem.peers \subseteq mem'.peers
    BY <2>2, MemGrows
  <2>4. QED
    BY <1>1, <2>1, <2>3 DEF PeerSaved
<1>8. CASE \/ \E r \in SUBSET Shared : Start(r)
           \/ KeysThere \/ Generate \/ GenOpen \/ GenClose
           \/ ScanSkip \/ ScanMissing \/ ScanCreate \/ ScanWritten \/ Load
           \/ \E p \in Peers : AddPeerKey(p)
           \/ AddPeerKeyClose \/ AddPeerReply
  <2>1. pc'["main"] \notin Saving \cup {"reply"}
    <3>1. CASE KeysThere \/ Generate \/ GenOpen \/ GenClose
      BY <1>1, <3>1 DEF KeysThere, Generate, GenOpen, GenClose, AfterKeys, Move, Saving
    <3>2. CASE \/ \E r \in SUBSET Shared : Start(r)
               \/ ScanSkip \/ ScanMissing \/ ScanCreate \/ ScanWritten \/ Load
      BY <1>1, <3>2 DEF Start, ScanSkip, ScanMissing, ScanCreate, ScanWritten, Load,
                        Scanning, Move, Saving
    <3>3. CASE \/ \E p \in Peers : AddPeerKey(p)
               \/ AddPeerKeyClose \/ AddPeerReply
      BY <1>1, <3>3 DEF AddPeerKey, AddPeerKeyClose, AddPeerReply, Move, Saving
    <3>4. QED
      BY <1>8, <3>1, <3>2, <3>3
  <2>2. QED
    BY <2>1 DEF PeerSaved, Saving
<1>9. QED
  BY <1>2, <1>3, <1>4, <1>5, <1>6, <1>7, <1>8 DEF Next, Save, Threads

\* Of two threads that write, the one that was last to read the memory has it all,
\* and the other's shorter text is not closed over it without being noticed.
LEMMA SafeSaved ==
  ASSUME Typed, KeptInv, Next, NEW t \in Threads, Undamaged(mishaps'),
         SaveOpen(t) \/ SaveFlush(t) \/ SaveClose(t)
  PROVE  Safe' /\ promised' \subseteq Contents(mem')
<1> USE DEF At
<1>1. /\ pc \in [Threads -> Places("main") \cup Places("reader")]
      /\ buffer \in [Threads -> Config] /\ mishaps \subseteq mishaps'
      /\ \A u \in Threads : Contents(buffer[u]) \subseteq Contents(mem)
  BY MishapsTyped DEF Typed, TypeOK, KeptInv
<1>2. pc["main"] # "off"
  BY DEF Typed, Located, SaveOpen, SaveFlush, SaveClose, Threads
<1>3. Safe /\ promised \subseteq Contents(mem)
  BY <1>1, <1>2 DEF Undamaged, KeptInv
<1>4. CASE SaveOpen(t)
  <2>1. pc'[t] = "flush" /\ promised' = promised /\ mem' = mem
    BY <1>1, <1>4 DEF SaveOpen, Move, ghosts
  <2>2. QED
    BY <1>3, <2>1 DEF Safe
<1>5. CASE SaveFlush(t)
  <2>1. /\ pc'[t] = "close" /\ promised' = promised /\ mem' = mem
        /\ \A u \in Threads : buffer'[u] = IF u = t THEN mem ELSE buffer[u]
    BY <1>1, <1>5 DEF SaveFlush, Flushed, Move, ghosts
  <2>2. /\ promised' \subseteq Contents(buffer'[t])
        /\ \A u \in Threads : Contents(buffer'[u]) \subseteq Contents(buffer'[t])
    BY <1>1, <1>3, <2>1
  <2>3. QED
    BY <1>3, <2>1, <2>2 DEF Safe, Closing
<1>6. CASE SaveClose(t)
  <2>1. /\ pc[t] = "close" /\ \A u \in Threads : u # t => pc'[u] = pc[u]
        /\ pc'[t] # "close" /\ mem' = mem
        /\ \A u \in Threads : u # t => buffer'[u] = buffer[u]
        /\ promised' = promised \cup Contents(buffer[t])
    BY <1>1, <1>6, AfterSavePlace DEF SaveClose, Move, Threads
  <2>2. ~Longer(t) /\ conf' = buffer[t]
    BY <1>6 DEF SaveClose, Undamaged
  <2>3. Loaded' = buffer[t]
    <3>1. buffer[t] \in Config
      BY <1>1
    <3>2. QED
      BY <2>2, <3>1, Apart DEF Loaded, Whole
  <2>4. CASE \E u \in Threads : pc[u] = "flush"
    BY <1>1, <1>3, <2>1, <2>4 DEF Safe
  <2>5. ASSUME NEW s \in Closing, promised \subseteq Contents(buffer[s]),
               \A u \in Closing : Contents(buffer[u]) \subseteq Contents(buffer[s])
        PROVE  Safe'
    <3>1. CASE s = t
      <4>1. promised' \subseteq Contents(Loaded')
        BY <2>1, <2>3, <2>5, <3>1
      <4>2. QED
        BY <4>1 DEF Safe
    <3>2. CASE s # t
      <4>1. t \in Closing /\ s \in Threads /\ s \in Closing'
        BY <2>1, <2>5, <3>2 DEF Closing
      <4>2. promised' \subseteq Contents(buffer'[s])
        BY <2>1, <2>5, <3>2, <4>1
      <4>3. \A u \in Closing' : u \in Closing /\ u # t
        BY <2>1 DEF Closing
      <4>4. \A u \in Closing' : Contents(buffer'[u]) \subseteq Contents(buffer'[s])
        BY <2>1, <2>5, <3>2, <4>1, <4>3 DEF Closing
      <4>5. QED
        BY <4>1, <4>2, <4>4 DEF Safe
    <3>3. QED
      BY <3>1, <3>2
  <2>6. CASE promised \subseteq Contents(Loaded)
    <3>1. promised \subseteq Contents(buffer[t])
      BY <2>2, <2>6, EmptyConfig DEF Longer, Loaded
    <3>2. promised' \subseteq Contents(Loaded')
      BY <2>1, <2>3, <3>1
    <3>3. promised' \subseteq Contents(mem')
      BY <1>1, <1>3, <2>1
    <3>4. QED
      BY <3>2, <3>3 DEF Safe
  <2>7. QED
    BY <1>1, <1>3, <2>1, <2>4, <2>5, <2>6 DEF Safe
<1>7. QED
  BY <1>4, <1>5, <1>6

\* The steps that do not save.
LEMMA SafeRests ==
  ASSUME Typed, KeptInv, Next, Undamaged(mishaps'), ~\E t \in Threads : Save(t)
  PROVE  /\ Safe'
         /\ ~At("main", "off")' => promised' \subseteq Contents(mem')
<1> USE DEF At
<1>1. /\ pc \in [Threads -> Places("main") \cup Places("reader")]
      /\ mishaps \subseteq mishaps' /\ Undamaged(mishaps)
      /\ "main" \in Threads /\ "reader" \in Threads
  BY MishapsTyped DEF Typed, TypeOK, Undamaged, Threads
<1>2. Safe /\ (pc["main"] # "off" => promised \subseteq Contents(mem))
  BY <1>1 DEF KeptInv
<1>3. CASE Crash
  <2>1. /\ conf' = conf /\ promised' = promised /\ pc'["main"] = "off"
        /\ mishaps' = mishaps \cup TornNow
    BY <1>3, StoppedPlaces DEF Crash, disk
  <2>2. ~SavingNow
    BY <2>1 DEF Undamaged, TornNow
  <2>3. promised \subseteq Contents(Loaded)
    BY <1>2, <2>2 DEF Safe, SavingNow, Closing
  <2>4. QED
    BY <2>1, <2>3 DEF Safe, Loaded
<1>4. ASSUME NEW r \in SUBSET Shared, Start(r)
      PROVE  Safe' /\ promised' \subseteq Contents(mem')
  <2>1. /\ pc["main"] = "off" /\ mem' = Loaded /\ conf' = conf /\ promised' = promised
    BY <1>4 DEF Start, disk
  <2>2. pc["reader"] = "idle"
    BY <2>1 DEF Typed, Located
  <2>3. promised \subseteq Contents(Loaded)
    BY <1>2, <2>1, <2>2 DEF Safe, Closing, Threads
  <2>4. QED
    BY <2>1, <2>3 DEF Safe, Loaded
<1>5. CASE ~Crash /\ ~\E r \in SUBSET Shared : Start(r)
  <2>1. /\ conf' = conf /\ buffer' = buffer
    BY <1>5, Writers
  <2>2. promised' = promised
    <3>1. CASE AddPeerReply
      BY <3>1 DEF AddPeerReply, KeptInv, PeerSaved
    <3>2. CASE ~AddPeerReply
      BY <1>5, <3>2
         DEF Next, KeysThere, Generate, GenOpen, GenClose, ScanSkip, ScanMissing,
             ScanCreate, ScanWritten, ScanEnds, Setup, Load, AddPeerKey,
             AddPeerKeyClose, AddPeer, AddFile, Metadata, MetadataCreated,
             MetadataAdd, ghosts
    <3>3. QED
      BY <3>1, <3>2
  <2>3. /\ pc["main"] # "off"
        /\ \A t \in Threads : \/ pc'[t] = pc[t]
                              \/ /\ pc[t] \notin {"flush", "close"}
                                 /\ pc'[t] \notin {"flush", "close"}
    <3>1. CASE KeysThere \/ Generate \/ GenOpen \/ GenClose
      BY <1>1, <3>1 DEF KeysThere, Generate, GenOpen, GenClose, AfterKeys, Move,
                        Threads
    <3>2. CASE \/ ScanSkip \/ ScanMissing \/ ScanCreate \/ ScanWritten \/ ScanEnds
               \/ Setup \/ Load
      BY <1>1, <3>2 DEF ScanSkip, ScanMissing, ScanCreate, ScanWritten, ScanEnds,
                        Setup, Load, Scanning, Move, Threads
    <3>3. CASE \/ \E p \in Peers : AddPeerKey(p)
               \/ AddPeerKeyClose \/ AddPeer \/ AddPeerReply
               \/ \E f \in Shared : AddFile(f)
      BY <1>1, <3>3 DEF AddPeerKey, AddPeerKeyClose, AddPeer, AddPeerReply, AddFile,
                        Move, Threads
    <3>4. CASE MetadataCreated \/ MetadataAdd \/ \E f \in Fetched : Metadata(f)
      <4>1. self # None
        BY <3>4 DEF MetadataCreated, MetadataAdd, Metadata, Runs, Typed, Located
      <4>2. QED
        BY <1>1, <3>4, <4>1 DEF MetadataCreated, MetadataAdd, Metadata, Move, Threads,
                                Typed, Located
    <3>5. QED
      BY <1>5, <3>1, <3>2, <3>3, <3>4 DEF Next
  <2>4. Safe'
    <3>1. Closing' = Closing
      BY <2>3 DEF Closing
    <3>2. (\E t \in Threads : pc[t] = "flush") => (\E t \in Threads : pc'[t] = "flush")
      BY <2>3
    <3>3. QED
      BY <1>2, <2>1, <2>2, <3>1, <3>2 DEF Safe, Loaded
  <2>5. promised' \subseteq Contents(mem')
    BY <1>2, <1>5, <2>2, <2>3, MemGrows
  <2>6. QED
    BY <2>4, <2>5
<1>6. QED
  BY <1>3, <1>4, <1>5

\* What was promised goes on to be in memory and, sooner or later, in the file.
LEMMA KeptInvKept ==
  ASSUME Typed, KeptInv, Next
  PROVE  KeptInv'
<1>1. Undamaged(mishaps') =>
        /\ Safe'
        /\ ~At("main", "off")' => promised' \subseteq Contents(mem')
  BY SafeSaved, SafeRests DEF Save
<1>2. QED
  BY <1>1, BuffersKept, PeerSavedKept DEF KeptInv

-----------------------------------------------------------------------------
\* The theorems

\* The invariant holds before the first life.
LEMMA StorageInit == Init => StorageInv
<1> SUFFICES ASSUME Init PROVE StorageInv
  OBVIOUS
<1>1. /\ Typed /\ mem = NoConfig /\ \A t \in Threads : buffer[t] = NoConfig
      /\ conf = None /\ \A c \in Copies : c = NoConfig
      /\ pc["main"] = "off" /\ pc["reader"] = "idle"
      /\ promised = {}
  BY TypedInit, StoppedPlaces DEF Init, Copies, Whole
<1>2. KeysFit
  BY <1>1, Apart DEF Init, KeysFit, At, Runs, Whole, StartsUnlessTorn
<1>3. PeersInv
  BY <1>1, EmptyConfig DEF PeersInv, PeersKeyed, At
<1>4. MetaInv
  <2>1. Fetching /\ Hashing
    BY <1>1, Apart DEF Init, Fetching, Hashing, At, Files
  <2>2. QED
    BY <1>1, <2>1, NothingNamed DEF MetaInv
<1>5. TruthInv
  BY <1>1, EmptyConfig DEF TruthInv, Truthful, NoConfig
<1>6. KeptInv
  BY <1>1, EmptyConfig DEF KeptInv, PeerSaved, Safe, At, Saving
<1>7. QED
  BY <1>1, <1>2, <1>3, <1>4, <1>5, <1>6 DEF StorageInv

\* Every step, and every stutter, keeps the invariant.
LEMMA StorageStep ==
  ASSUME StorageInv, [Next]_vars
  PROVE  StorageInv'
<1>1. CASE Next
  BY <1>1, TypedKept, KeysFitKept, PeersKept, MetaKept, TruthKept, KeptInvKept
     DEF StorageInv
<1>2. CASE UNCHANGED vars
  <2>1. UNCHANGED <<key, conf, pkey, meta, pc, n, sha, readable, peer, told, mem,
                    buffer, self, starts, promised, mishaps>>
    BY <1>2 DEF vars, disk, scan, ghosts
  <2>2. Copies' = Copies /\ (TypeOK <=> TypeOK') /\ (Located <=> Located')
    BY <2>1 DEF Copies, TypeOK, Located, At
  <2>3. KeysFit' /\ PeersInv'
    BY <2>1, <2>2 DEF StorageInv, KeysFit, PeersInv, PeersKeyed, At, Runs,
                      StartsUnlessTorn
  <2>4. MetaInv' /\ TruthInv'
    BY <2>1, <2>2 DEF StorageInv, MetaInv, TruthInv, Fetching, Hashing, At, Current
  <2>5. KeptInv'
    BY <2>1 DEF StorageInv, KeptInv, PeerSaved, Safe, Closing, Loaded, At
  <2>6. QED
    BY <2>2, <2>3, <2>4, <2>5 DEF StorageInv, Typed
<1>3. QED
  BY <1>1, <1>2

(***************************************************************************)
(* What is known of the disk, the memory and the threads that save, over   *)
(* every number of files, peers and lives.                                 *)
(***************************************************************************)
THEOREM StorageKept == Spec => []StorageInv
<1>1. QED
  BY StorageInit, StorageStep, PTL DEF Spec

(***************************************************************************)
(* The public key that is handed out belongs to the private key, and only   *)
(* a kill while that one is written keeps a core from starting.             *)
(***************************************************************************)
THEOREM KeysFitTogether == Spec => []KeysInv
<1>1. StorageInv => KeysInv
  <2>1. SUFFICES ASSUME StorageInv PROVE KeysInv
    OBVIOUS
  <2>2. Runs => Whole(key["priv"])
    BY <2>1, Apart DEF StorageInv, KeysFit, Typed, TypeOK, Runs, Whole
  <2>3. QED
    BY <2>1, <2>2 DEF StorageInv, KeysFit, Typed, KeysInv, PairMatches
<1>2. QED
  BY <1>1, StorageKept, PTL

(***************************************************************************)
(* What was saved or reported as a success stays, although two threads      *)
(* save, if no kill and no shorter text damages the file.                   *)
(***************************************************************************)
THEOREM SavedStays == Spec => []Kept
<1>1. StorageInv => Kept
  <2> SUFFICES ASSUME StorageInv, Orderly, "config" \notin mishaps
               PROVE  /\ SavingNow \/ (promised # {} =>
                            Whole(conf) /\ promised \subseteq Contents(conf))
                      /\ Runs => promised \subseteq Contents(mem)
    BY DEF Kept
  <2>1. Safe /\ (~At("main", "off") => promised \subseteq Contents(mem))
    BY DEF StorageInv, KeptInv, Undamaged, Orderly
  <2>2. Runs => ~At("main", "off")
    BY DEF StorageInv, Typed, Located, Runs, At
  <2>3. SavingNow \/ promised \subseteq Contents(Loaded)
    BY <2>1 DEF Safe, SavingNow, Closing
  <2>4. QED
    BY <2>1, <2>2, <2>3, EmptyConfig DEF Loaded
<1>2. QED
  BY <1>1, StorageKept, PTL

(***************************************************************************)
(* The key of each peer and the metadata of each hash in the configuration  *)
(* on the disk are whole, but for the two kills that are named.             *)
(***************************************************************************)
THEOREM ReferencesHold == Spec => []ReferencesWhole
<1>1. StorageInv => ReferencesWhole
  <2> SUFFICES ASSUME StorageInv, Whole(conf) PROVE ReferencesWhole
    BY DEF ReferencesWhole, PeersHaveKeys, MetadataBehindHash
  <2>1. conf \in Copies
    BY DEF Copies
  <2>2. PeersHaveKeys
    BY <2>1 DEF PeersHaveKeys, StorageInv, PeersInv, PeersKeyed
  <2>3. Backed(conf, meta, mishaps)
    BY <2>1 DEF StorageInv, MetaInv
  <2>4. MetadataBehindHash
    BY <2>3 DEF MetadataBehindHash, Backed, Names, Files
  <2>5. QED
    BY <2>2, <2>4 DEF ReferencesWhole
<1>2. QED
  BY <1>1, StorageKept, PTL

(***************************************************************************)
(* The list of files has the right hash for each, over every life, if each  *)
(* could be opened.                                                         *)
(***************************************************************************)
THEOREM HashesRight == Spec => []HashesTruthful
<1>1. StorageInv => HashesTruthful
  BY DEF StorageInv, TruthInv, HashesTruthful, Copies, Truthful
<1>2. QED
  BY <1>1, StorageKept, PTL
=============================================================================

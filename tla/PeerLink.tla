------------------------------ MODULE PeerLink ------------------------------
(***************************************************************************)
(* One connection between two cores, from the threads that send on it       *)
(* (send_event_to_peer_internal, send_file_part) through the encryption of  *)
(* aes.c and the socket to read_thread's loop and the decryption.  A frame  *)
(* is two units of header - magic number and salt, then the lengths - and a *)
(* few units of body, the encrypted password and the encrypted event.       *)
(* Nothing serialises the senders.                                          *)
(***************************************************************************)
EXTENDS Integers, Sequences, FiniteSets, Cipher

CONSTANTS Senders,   \* the threads that send to the peer
          Plan,      \* [Senders -> Seq(Msgs)]: what each of them sends
          Kind,      \* [Msgs -> how the message is sent]
          BodyLen,   \* [Msgs -> units of body]
          Capacity,  \* units a socket holds before send has to wait
          Width,     \* the wrap-around of the uint32_t received
          Garbage,   \* what comes out when a frame does not decrypt
          MaxGoodbyes \* how many reports of a lost peer are counted

\* A message is one event or one part on its way: it is sent by one thread, once.
ASSUME PlanAssumption ==
  /\ Plan \in [Senders -> Seq(Msgs)]
  /\ \A s, t \in Senders : \A i \in DOMAIN Plan[s], j \in DOMAIN Plan[t] :
       Plan[s][i] = Plan[t][j] => s = t /\ i = j
ASSUME KindAssumption == Kind \in [Msgs -> {"event", "nonblocking", "part"}]
ASSUME BodyAssumption == BodyLen \in [Msgs -> Nat \ {0}]
ASSUME CapacityAssumption == Capacity \in Nat \ {0}
ASSUME WidthAssumption == Width \in Nat \ {0} /\ \A m \in Msgs : 2 * BodyLen[m] < Width
ASSUME GarbageAssumption == Garbage \notin Msgs
ASSUME GoodbyesAssumption == MaxGoodbyes \in Nat \ {0}

FrameLen(m) == 2 + BodyLen[m]
Units == Msgs \X Nat                  \* <<m, i>>: the i-th unit of m's frame
NoUnit == <<NoMsg, 0>>
Body(m) == [i \in 1..BodyLen[m] |-> <<m, i + 2>>]
Lengths == {BodyLen[m] : m \in Msgs}
Longest == CHOOSE n \in Lengths \cup {0} : \A k \in Lengths : k <= n

VARIABLES
  cipher,    \* the static data of aes.c at the sending core
  todo,      \* [Senders -> Seq(Msgs)]: what a thread has still to send
  pc,        \* [Senders -> where the thread is in its current message]
  key,       \* [Senders -> the key derived on its stack]
  text,      \* [Senders -> its ciphertext so far]
  frames,    \* [Msgs -> the salt in its header and its ciphertext]
  off,       \* [Senders -> units of its frame that send has taken]
  nonblock,  \* O_NONBLOCK of the socket
  sent,      \* the messages in the order they entered the stream
  wire,      \* the stream: units not received yet
  closed,    \* "no", "eof" or "reset": the end of the stream
  rpc,       \* where read_thread is with this peer
  enc,       \* encdata: the last units received as its two halves
  total,     \* m_PassLen + m_DataLen of encdata
  buf,       \* databuf
  received,
  got,       \* what has been decrypted
  goodbyes,  \* PeerDisconnected reports
  causes,    \* what has happened that may break the stream
  status

sendVars == <<cipher, todo, pc, key, text, frames, off, nonblock, sent>>
readVars == <<rpc, enc, total, buf, received, got, goodbyes>>
vars == <<sendVars, readVars, wire, closed, causes, status>>

Causes == {"overlap", "interleaved", "truncated", "short", "beyond", "cut"}
Pcs == {"idle", "derive", "context", "update", "final", "flag",
        "send", "wait", "unflag"}
Encrypting == {"derive", "context", "update", "final"}

TypeOK ==
  /\ cipher.salt \in Msgs \cup {NoMsg}
  /\ cipher.ctx.key \in Keys \cup {NoKey}
  /\ pc \in [Senders -> Pcs]
  /\ \A s \in Senders : pc[s] # "idle" => todo[s] # <<>>
  /\ nonblock \in BOOLEAN
  /\ Len(wire) <= Capacity /\ \A i \in 1..Len(wire) : wire[i] \in Units
  /\ closed \in {"no", "eof", "reset"}
  /\ rpc \in {"select", "body", "decrypt", "gone"}
  /\ total \in 0..Longest /\ Len(buf) <= Longest /\ received \in 0..(Width - 1)
  /\ goodbyes \in 0..MaxGoodbyes
  /\ causes \subseteq Causes
  /\ status \in {"ok", "undefined"}

NoText == [body |-> Cleaned, last |-> Cleaned]

Init == /\ cipher = Fresh
        /\ todo = Plan
        /\ pc = [s \in Senders |-> "idle"]
        /\ key = [s \in Senders |-> NoKey]
        /\ text = [s \in Senders |-> NoText]
        /\ frames = [m \in Msgs |-> [salt |-> NoMsg, text |-> NoText]]
        /\ off = [s \in Senders |-> 0]
        /\ nonblock = FALSE
        /\ sent = <<>> /\ wire = <<>> /\ closed = "no"
        /\ rpc = "select" /\ enc = <<NoUnit, NoUnit>> /\ total = 0
        /\ buf = <<>> /\ received = 0
        /\ got = <<>> /\ goodbyes = 0 /\ causes = {} /\ status = "ok"

Cause(c, happened) == causes' = IF happened THEN causes \cup {c} ELSE causes
-----------------------------------------------------------------------------
\* The sending threads

Msg(s) == Head(todo[s])
Runs(s, from) == status = "ok" /\ closed = "no" /\ pc[s] = from
To(s, next) == pc' = [pc EXCEPT ![s] = next]
Done(s) == todo' = [todo EXCEPT ![s] = Tail(@)] /\ To(s, "idle")

\* "Send timed out": the event is dropped before it is encrypted.
TimeOut(s) ==
  /\ Runs(s, "idle") /\ todo[s] # <<>>
  /\ Kind[Msg(s)] # "part" /\ Len(wire) = Capacity
  /\ Done(s)
  /\ UNCHANGED <<readVars, cipher, key, text, frames, off, nonblock,
                 sent, wire, closed, causes, status>>

(***************************************************************************)
(* select and FD_ISSET let an event through if the socket takes data; a     *)
(* file part is not held up. Then m_encryptinit: a new salt,                *)
(***************************************************************************)
Salt(s) ==
  /\ Runs(s, "idle") /\ todo[s] # <<>>
  /\ Kind[Msg(s)] = "part" \/ Len(wire) < Capacity
  /\ cipher' = RandSalt(cipher, Msg(s))
  /\ To(s, "derive")
  /\ Cause("overlap", \E t \in Senders \ {s} : pc[t] \in Encrypting)
  /\ UNCHANGED <<readVars, todo, key, text, frames, off, nonblock, sent,
                 wire, closed, status>>

\* the key from the password and the salt,
Derive(s) ==
  /\ Runs(s, "derive")
  /\ key' = [key EXCEPT ![s] = DeriveKey(cipher, Msg(s))]
  /\ To(s, "context")
  /\ UNCHANGED <<readVars, cipher, todo, text, frames, off, nonblock, sent,
                 wire, closed, causes, status>>

\* and the context.
Context(s) ==
  /\ Runs(s, "context")
  /\ cipher' = SetContext(cipher, key[s])
  /\ To(s, "update")
  /\ UNCHANGED <<readVars, todo, key, text, frames, off, nonblock, sent,
                 wire, closed, causes, status>>

\* aes_encrypt_with_pass, up to EVP_EncryptUpdate. A context that was cleaned
\* up has no cipher.
EncryptUpdate(s) ==
  /\ Runs(s, "update")
  /\ IF cipher.ctx.key = NoKey
     THEN status' = "undefined" /\ UNCHANGED <<cipher, pc, text>>
     ELSE /\ cipher' = Update(cipher, Msg(s))
          /\ text' = [text EXCEPT ![s].body = cipher'.ctx]
          /\ To(s, "final")
          /\ UNCHANGED status
  /\ UNCHANGED <<readVars, todo, key, frames, off, nonblock, sent, wire,
                 closed, causes>>

(***************************************************************************)
(* EVP_EncryptFinal_ex and EVP_CIPHER_CTX_cleanup; then the frame gets the  *)
(* salt that m_Salt has by now.  (What another thread does in between       *)
(* touches either the context or the salt and could as well come before.)   *)
(***************************************************************************)
EncryptFinal(s) ==
  /\ Runs(s, "final")
  /\ IF cipher.ctx.key = NoKey
     THEN status' = "undefined" /\ UNCHANGED <<cipher, pc, key, text, frames>>
     ELSE /\ frames' = [frames EXCEPT ![Msg(s)] =
                          [salt |-> cipher.salt,
                           text |-> [text[s] EXCEPT !.last = cipher.ctx]]]
          /\ cipher' = Cleanup(cipher)
          /\ key' = [key EXCEPT ![s] = NoKey]
          /\ text' = [text EXCEPT ![s] = NoText]
          /\ To(s, IF Kind[Msg(s)] = "nonblocking" THEN "flag" ELSE "send")
          /\ UNCHANGED status
  /\ UNCHANGED <<readVars, todo, off, nonblock, sent, wire, closed, causes>>

\* set_nonblocking changes the socket for all threads.
Flag(s) ==
  /\ Runs(s, "flag")
  /\ nonblock' = TRUE
  /\ To(s, "send")
  /\ UNCHANGED <<readVars, cipher, todo, key, text, frames, off, sent, wire,
                 closed, causes, status>>

SmallerOf(a, b) == IF a < b THEN a ELSE b

\* Mutant of Taken: the last unit is never taken.
TakenShort(s, k) ==
  LET n == SmallerOf(Capacity - Len(wire), FrameLen(Msg(s)) - 1 - k)
  IN  [i \in 1..n |-> <<Msg(s), k + i>>]

\* What send takes now of the frame of s, of which k units have been taken.
Taken(s, k) ==
  LET n == SmallerOf(Capacity - Len(wire), FrameLen(Msg(s)) - k)
  IN  [i \in 1..n |-> <<Msg(s), k + i>>]

\* send returned: of a frame that was not taken whole the rest is forgotten.
SendReturns(s) ==
  IF Kind[Msg(s)] = "nonblocking"
  THEN To(s, "unflag") /\ UNCHANGED todo
  ELSE Done(s)

Waiting == {t \in Senders : pc[t] = "wait"}

(***************************************************************************)
(* send: it takes what the socket has room for.  If the socket was set to   *)
(* block when it began, it waits for room for the rest, and other threads   *)
(* may send meanwhile.                                                      *)
(***************************************************************************)
Send(s) ==
  /\ Runs(s, "send")
  /\ LET taken == Taken(s, 0)
         all == Len(taken) = FrameLen(Msg(s))
     IN  /\ wire' = wire \o taken
         /\ sent' = IF taken = <<>> THEN sent ELSE Append(sent, Msg(s))
         /\ IF all \/ nonblock
            THEN SendReturns(s) /\ UNCHANGED off
            ELSE /\ off' = [off EXCEPT ![s] = Len(taken)]
                 /\ To(s, "wait") /\ UNCHANGED todo
         /\ causes' = causes \cup
              (IF Waiting # {} THEN {"interleaved"} ELSE {}) \cup
              (IF nonblock /\ ~all THEN {"truncated"} ELSE {})
  /\ UNCHANGED <<readVars, cipher, key, text, frames, nonblock, closed, status>>

SendOn(s) ==
  /\ Runs(s, "wait") /\ Len(wire) < Capacity
  /\ LET taken == Taken(s, off[s])
     IN  /\ wire' = wire \o taken
         /\ IF off[s] + Len(taken) = FrameLen(Msg(s))
            THEN SendReturns(s) /\ off' = [off EXCEPT ![s] = 0]
            ELSE /\ off' = [off EXCEPT ![s] = @ + Len(taken)]
                 /\ UNCHANGED <<pc, todo>>
         /\ sent' = IF off[s] = 0 /\ taken # <<>> THEN Append(sent, Msg(s))
                    ELSE sent
         /\ Cause("interleaved", Waiting # {s})
  /\ UNCHANGED <<readVars, cipher, key, text, frames, nonblock, closed, status>>

Unflag(s) ==
  /\ Runs(s, "unflag")
  /\ nonblock' = FALSE
  /\ Done(s)
  /\ UNCHANGED <<readVars, cipher, key, text, frames, off, sent, wire, closed,
                 causes, status>>

\* The sending core goes away; units that wait in its socket are lost.
Close(how) ==
  /\ status = "ok" /\ closed = "no"
  /\ closed' = how
  /\ Cause("cut", Waiting # {})
  /\ UNCHANGED <<sendVars, readVars, wire, status>>
-----------------------------------------------------------------------------
\* read_thread

Reads(at) == status = "ok" /\ rpc = at

\* Mutant of Dropped: recv takes more than it returns.
DroppedTooMany(n) == SubSeq(wire, n + 2, Len(wire))

Dropped(n) == SubSeq(wire, n + 1, Len(wire))

MagicOk(e) == e[1][1] # NoMsg /\ e[1][2] = 1

\* m_PassLen + m_DataLen, which may be any number if it is not a length.
TotalOf(e) == IF e[2] = NoUnit THEN {0}
              ELSE IF e[2][2] = 2 THEN {BodyLen[e[2][1]]}
              ELSE 0..Longest

\* Mutant of Padded: realloc is forgotten.
PaddedNever(b, n) == b

\* databuf grows to the longest body so far.
Padded(b, n) == IF Len(b) >= n THEN b
                ELSE b \o [i \in 1..(n - Len(b)) |-> NoUnit]

(***************************************************************************)
(* recv of the header: it may return less than was asked for, and then      *)
(* encdata keeps the rest of the previous header.                           *)
(***************************************************************************)
ReadHeader ==
  /\ Reads("select") /\ wire # <<>>
  /\ \E n \in 1..SmallerOf(2, Len(wire)) :
       LET e == [i \in 1..2 |-> IF i <= n THEN wire[i] ELSE enc[i]]
       IN  /\ enc' = e
           /\ wire' = Dropped(n)
           /\ Cause("short", n = 1)
           /\ IF MagicOk(e)
              THEN \E len \in TotalOf(e) :
                     /\ total' = len
                     /\ buf' = Padded(buf, len)
                     /\ rpc' = IF len = 0 THEN "decrypt" ELSE "body"
                     /\ received' = 0
              ELSE UNCHANGED <<total, buf, rpc, received>>
  /\ UNCHANGED <<sendVars, closed, got, goodbyes, status>>

\* Mutant of Asked: a unit too few.
AskedTooLittle == total - 1

\* The number of units the loop asks for: the whole body every time.
Asked == total

(***************************************************************************)
(* recv of the body: the loop asks for the whole length again after a piece *)
(* and so may take the beginning of the next frame, within databuf or not.  *)
(***************************************************************************)
ReadBody ==
  /\ Reads("body") /\ wire # <<>>
  /\ \E n \in 1..SmallerOf(Asked, Len(wire)) :
       /\ Cause("beyond", n > total - received)
       /\ wire' = Dropped(n)
       /\ IF received + n > Len(buf)
          THEN /\ status' = "undefined"
               /\ UNCHANGED <<buf, received, rpc>>
          ELSE /\ buf' = [i \in 1..Len(buf) |->
                            IF i \in (received + 1)..(received + n)
                            THEN wire[i - received] ELSE buf[i]]
               /\ received' = received + n
               /\ rpc' = IF received' < total THEN "body" ELSE "decrypt"
               /\ UNCHANGED status
  /\ UNCHANGED <<sendVars, closed, enc, total, got, goodbyes>>

Uint32(n) == (n + Width) % Width

Goodbye == goodbyes' = SmallerOf(goodbyes + 1, MaxGoodbyes)

\* The header is awaited and the peer has gone: it is removed.
HeaderEnds ==
  /\ Reads("select") /\ wire = <<>> /\ closed # "no"
  /\ Goodbye /\ rpc' = "gone"
  /\ UNCHANGED <<sendVars, enc, total, buf, received, got, wire, closed,
                 causes, status>>

(***************************************************************************)
(* The body is awaited and the peer has gone: it is removed as well, but    *)
(* the loop goes on, with received one less when recv returned -1.          *)
(***************************************************************************)
BodyEnds ==
  /\ Reads("body") /\ wire = <<>> /\ closed # "no"
  /\ Goodbye
  /\ received' = IF closed = "reset" THEN Uint32(received - 1) ELSE received
  /\ closed' = "eof"
  /\ rpc' = IF received' < total THEN "body" ELSE "decrypt"
  /\ UNCHANGED <<sendVars, enc, total, buf, got, wire, causes, status>>

\* aes_decrypt_with_key: the message whose body is in databuf, if the salt of
\* the header belongs to it.
Plain ==
  LET whole == {m \in Msgs : /\ BodyLen[m] = total
                             /\ SubSeq(buf, 1, total) = Body(m)
                             /\ Opens(frames[m].text, m, frames[enc[1][1]].salt)}
  IN  IF whole = {} THEN Garbage ELSE CHOOSE m \in whole : TRUE

\* The event is handed on, and a peer that was removed meanwhile is forgotten.
Decrypt ==
  /\ Reads("decrypt")
  /\ got' = Append(got, Plain)
  /\ rpc' = IF goodbyes > 0 THEN "gone" ELSE "select"
  /\ UNCHANGED <<sendVars, enc, total, buf, received, goodbyes, wire, closed,
                 causes, status>>
-----------------------------------------------------------------------------
Encrypt(s) == \/ Salt(s) \/ Derive(s) \/ Context(s) \/ EncryptUpdate(s)
              \/ EncryptFinal(s)
Sending(s) == \/ TimeOut(s) \/ Encrypt(s) \/ Flag(s)
              \/ Send(s) \/ SendOn(s) \/ Unflag(s)
Reading == ReadHeader \/ ReadBody \/ HeaderEnds \/ BodyEnds \/ Decrypt

Next == \/ \E s \in Senders : Sending(s)
        \/ \E how \in {"eof", "reset"} : Close(how)
        \/ Reading

Spec == Init /\ [][Next]_vars

\* Threads are scheduled and data that was sent arrives.
FairSpec == /\ Spec
            /\ \A s \in Senders : WF_vars(Sending(s))
            /\ WF_vars(Reading)
-----------------------------------------------------------------------------

(***************************************************************************)
(* The connection is a stream of whole messages as long as no two threads   *)
(* encrypt or wait in send at once, no nonblocking send is cut short, a     *)
(* header comes in one piece, no piece of a body is followed by the next    *)
(* frame and the peer does not leave in the middle of a frame.  Whatever    *)
(* happens, a message that decrypts is one that was sent.                   *)
(***************************************************************************)
Stream == INSTANCE MessageStream WITH broken <- causes # {}
ImplementsStream == Stream!Spec

(***************************************************************************)
(* As long as no two threads encrypt at once, so that the salts of frames   *)
(* differ, what decrypts is in the order of the stream and nothing twice:   *)
(* no frame is put together from a header and a body that databuf still has *)
(* from an earlier one.                                                     *)
(***************************************************************************)
Place(m) == CHOOSE i \in 1..Len(sent) : sent[i] = m
OnceInOrder ==
  "overlap" \notin causes =>
    \A i, j \in 1..Len(got) :
      (i < j /\ got[i] # Garbage /\ got[j] # Garbage)
      => Place(got[i]) < Place(got[j])

(***************************************************************************)
(* Neither a cleaned cipher context nor the memory behind databuf is used   *)
(* without one of these causes.                                             *)
(***************************************************************************)
SafeAlone == status = "undefined" => causes # {}

(***************************************************************************)
(* A peer that goes between two frames is reported as disconnected once.    *)
(***************************************************************************)
OneGoodbye == causes = {} => goodbyes <= 1

(***************************************************************************)
(* Counters and buffers stay what they are declared as, and an undisturbed  *)
(* connection uses no memory that is not its own and says goodbye once.     *)
(***************************************************************************)
LinkInv == TypeOK /\ SafeAlone /\ OneGoodbye

(***************************************************************************)
(* On an undisturbed connection the threads get rid of what they send, and  *)
(* in the end the other core has all that entered the stream: select may    *)
(* time out, but nothing else is lost.                                      *)
(***************************************************************************)
Undisturbed == [](causes = {} /\ closed = "no")
Delivered ==
  Undisturbed => <>[](got = sent /\ \A s \in Senders : todo[s] = <<>>)

(***************************************************************************)
(* read_thread, which serves all peers, comes back from the body of a frame *)
(* whenever the frame was sent whole.                                       *)
(***************************************************************************)
BodyFinishes == [](causes = {}) => []<>(rpc # "body")

(***************************************************************************)
(* What the test of the encryption shows for one thread: an event that was  *)
(* encrypted decrypts.  It fails as soon as two threads encrypt.            *)
(***************************************************************************)
RoundTrip ==
  \A s \in Senders : pc[s] \in {"flag", "send"} =>
    Opens(frames[Msg(s)].text, Msg(s), frames[Msg(s)].salt)

(***************************************************************************)
(* read_thread always comes back from the body of a frame. It does not when *)
(* the peer goes away in the middle of one.                                 *)
(***************************************************************************)
BodyAlwaysFinishes == rpc = "body" ~> rpc # "body"

(***************************************************************************)
(* databuf is never written beyond its end. It is when a body comes in      *)
(* pieces and another frame follows.                                        *)
(***************************************************************************)
BufferHolds == status # "undefined"
=============================================================================

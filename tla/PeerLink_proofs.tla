--------------------------- MODULE PeerLink_proofs ---------------------------
(***************************************************************************)
(* Proofs about one connection between two cores, for any number of         *)
(* threads, any messages and any capacity of the socket: the types and the  *)
(* bounds of the buffers, that frames are received in order and never       *)
(* twice, and that the connection implements MessageStream.                 *)
(***************************************************************************)
EXTENDS PeerLink, SequenceTheorems, WellFoundedInduction, TLAPS

Entered(m) == \E i \in 1..Len(sent) : sent[i] = m

\* A unit that some frame of the stream has.
Whole(u) == u[2] \in 1..FrameLen(u[1]) /\ Entered(u[1])

LinkTypes ==
  /\ cipher \in Ciphers
  /\ todo \in [Senders -> Seq(Msgs)] /\ pc \in [Senders -> Pcs]
  /\ key \in [Senders -> Keys \cup {NoKey}]
  /\ text \in [Senders -> Ciphertexts]
  /\ frames \in [Msgs -> [salt : Msgs \cup {NoMsg}, text : Ciphertexts]]
  /\ off \in [Senders -> Nat] /\ nonblock \in BOOLEAN
  /\ sent \in Seq(Msgs) /\ wire \in Seq(Units)
  /\ closed \in {"no", "eof", "reset"}
  /\ rpc \in {"select", "body", "decrypt", "gone"}
  /\ enc \in [1..2 -> Units \cup {NoUnit}]
  /\ buf \in Seq(Units \cup {NoUnit})
  /\ total \in Nat /\ received \in Nat
  /\ got \in Seq(Msgs \cup {Garbage})
  /\ goodbyes \in Nat
  /\ causes \subseteq Causes
  /\ status \in {"ok", "undefined"}

\* What read_thread counts stays within databuf and within a uint32_t.
Bounds ==
  /\ Len(wire) <= Capacity
  /\ total <= Longest /\ Len(buf) <= Longest /\ received <= Width - 1
  /\ goodbyes <= MaxGoodbyes
  /\ rpc = "body" => received < total
  /\ rpc \in {"body", "decrypt"} => total <= Len(buf)

\* The messages to be sent, those under way and those that entered the stream.
Started(s) == pc[s] = "unflag" \/ (pc[s] = "wait" /\ off[s] > 0)
Sends ==
  /\ \A s \in Senders :
       /\ pc[s] # "idle" => todo[s] # <<>>
       /\ pc[s] # "wait" => off[s] = 0
       /\ pc[s] = "wait" => off[s] < FrameLen(Msg(s))
       /\ pc[s] = "wait" /\ off[s] > 0 => Entered(Msg(s))
Apart ==
  /\ \A s, t \in Senders : \A i \in 1..Len(todo[s]), j \in 1..Len(todo[t]) :
       todo[s][i] = todo[t][j] => s = t /\ i = j
  /\ \A s \in Senders : \A i \in 1..Len(todo[s]) :
       (i > 1 \/ ~Started(s)) => ~Entered(todo[s][i])
  /\ \A i, j \in 1..Len(sent) : sent[i] = sent[j] => i = j
Known ==
  /\ \A i \in 1..Len(wire) : Whole(wire[i])
  /\ \A i \in 1..2 : enc[i] = NoUnit \/ Whole(enc[i])
  /\ \A i \in 1..Len(buf) : buf[i] = NoUnit \/ Whole(buf[i])
  /\ \A i \in 1..Len(got) : got[i] = Garbage \/ Entered(got[i])

Right(m) == [key |-> <<m, m>>, fed |-> <<m>>]
Good(m) == frames[m] = [salt |-> m, text |-> [body |-> Right(m), last |-> Right(m)]]

\* One thread at a time encrypts, and every frame has its own salt.
Keyed(s) ==
  /\ pc[s] \in Encrypting => cipher.salt = Msg(s)
  /\ pc[s] = "context" => key[s] = <<Msg(s), Msg(s)>>
  /\ pc[s] = "update" => cipher.ctx = [key |-> <<Msg(s), Msg(s)>>, fed |-> <<>>]
  /\ pc[s] = "final" => cipher.ctx = Right(Msg(s)) /\ text[s].body = Right(Msg(s))
  /\ pc[s] \in {"flag", "send", "wait", "unflag"} => Good(Msg(s))
Encrypted ==
  "overlap" \notin causes =>
    /\ \A s, t \in Senders : pc[s] \in Encrypting /\ pc[t] \in Encrypting => s = t
    /\ \A s \in Senders : Keyed(s)
    /\ \A i \in 1..Len(sent) : Good(sent[i])

\* Headers come in the order of the stream.
Before(m, n) == \A i, j \in 1..Len(sent) : sent[i] = m /\ sent[j] = n => i < j
Headers ==
  /\ \A i, j \in 1..Len(wire) :
       i < j /\ wire[i][2] = 1 /\ wire[j][2] = 1 => Before(wire[i][1], wire[j][1])
  /\ rpc \in {"body", "decrypt"} =>
       /\ enc[1] # NoUnit /\ enc[1][2] = 1
       /\ \A j \in 1..Len(wire) : wire[j][2] = 1 => Before(enc[1][1], wire[j][1])
Ordered ==
  "overlap" \notin causes =>
    /\ \A i, j \in 1..Len(got) :
         i < j /\ got[i] # Garbage /\ got[j] # Garbage => Before(got[i], got[j])
    /\ \A i \in 1..Len(got), j \in 1..Len(wire) :
         got[i] # Garbage /\ wire[j][2] = 1 => Before(got[i], wire[j][1])
    /\ rpc \in {"body", "decrypt"} =>
         \A i \in 1..Len(got) : got[i] # Garbage => Before(got[i], enc[1][1])

(***************************************************************************)
(* Without a cause of trouble, the wire has the units of the stream from    *)
(* the one that read_thread gets next, <<Front, frontUnit>>, to the last    *)
(* one sent.                                                                *)
(***************************************************************************)
Front == IF rpc = "decrypt" THEN Len(got) + 2 ELSE Len(got) + 1
FrontUnit == IF rpc = "body" THEN received + 3 ELSE 1
Partial(s) == pc[s] = "wait" /\ off[s] > 0

Joined ==
  \A i, j \in 1..Len(wire) :
    i < j => 
      /\ wire[i][2] + (j - i) <= FrameLen(wire[i][1]) =>
           wire[j] = <<wire[i][1], wire[i][2] + (j - i)>>
      /\ j = i + 1 /\ wire[i][2] = FrameLen(wire[i][1]) =>
           \A p \in 1..Len(sent) :
             sent[p] = wire[i][1] => p < Len(sent) /\ wire[j] = <<sent[p + 1], 1>>
Beginning ==
  wire # <<>> => Front <= Len(sent) /\ wire[1] = <<sent[Front], FrontUnit>>
Ending ==
  /\ \A s \in Senders : Partial(s) =>
       /\ sent # <<>> /\ Msg(s) = sent[Len(sent)]
       /\ wire # <<>> => wire[Len(wire)] = <<Msg(s), off[s]>>
       /\ wire = <<>> => Front = Len(sent) /\ FrontUnit = off[s] + 1
  /\ (\A s \in Senders : ~Partial(s)) =>
       /\ wire # <<>> => wire[Len(wire)] = <<sent[Len(sent)], FrameLen(sent[Len(sent)])>>
       /\ wire = <<>> => Front = Len(sent) + 1 /\ FrontUnit = 1
Reader ==
  /\ \A i \in 1..Len(got) : i <= Len(sent) /\ got[i] = sent[i]
  /\ rpc \in {"body", "decrypt"} =>
       /\ Len(got) < Len(sent)
       /\ LET m == sent[Len(got) + 1]
          IN  /\ enc = <<<<m, 1>>, <<m, 2>>>> /\ total = BodyLen[m]
              /\ total <= Len(buf)
              /\ \A i \in 1..received : buf[i] = <<m, i + 2>>
  /\ rpc = "decrypt" => received = total
  /\ rpc # "gone" => goodbyes = 0
  /\ goodbyes <= 1
Turns ==
  /\ \A s, t \in Senders : pc[s] = "wait" /\ pc[t] = "wait" => s = t
  /\ closed # "no" => \A s \in Senders : pc[s] # "wait"
  /\ rpc = "gone" => closed # "no"
Streaming == causes = {} =>
   Joined /\ (rpc # "gone" => Beginning /\ Ending) /\ Reader /\ Turns

LinkIInv == /\ LinkTypes /\ Bounds /\ Sends /\ Apart /\ Known /\ Encrypted
            /\ Headers /\ Ordered /\ Streaming /\ SafeAlone

-----------------------------------------------------------------------------
\* Constants and operators

\* A nonempty set of natural numbers has a least element.
LEMMA LeastExists ==
  ASSUME NEW S \in SUBSET Nat, S # {}
  PROVE  \E m \in S : \A n \in S : m <= n
<1>1. PICK m \in S : \A n \in S : <<n, m>> \notin OpToRel(<, Nat)
  BY NatLessThanWellFounded, WFMin
<1>2. ASSUME NEW n \in S
      PROVE  m <= n
  <2>1. OpToRel(<, Nat) = {ss \in Nat \X Nat : ss[1] < ss[2]}
    BY DEF OpToRel
  <2>2. n < m => <<n, m>> \in {ss \in Nat \X Nat : ss[1] < ss[2]}
    OBVIOUS
  <2>3. ~(n < m) => m <= n
    OBVIOUS
  <2>4. QED
    BY <1>1, <2>1, <2>2, <2>3
<1>3. QED
  BY <1>2

\* A set of natural numbers with a bound has a greatest.
LEMMA GreatestExists ==
  ASSUME NEW S \in SUBSET Nat, S # {}, NEW b \in Nat, \A n \in S : n <= b
  PROVE  \E m \in S : \A n \in S : n <= m
<1> DEFINE Rest == {b - n : n \in S}
<1>1. Rest \in SUBSET Nat /\ Rest # {}
  <2>1. \A n \in S : b - n \in Nat
    OBVIOUS
  <2>2. QED
    BY <2>1
<1>2. PICK r \in Rest : \A q \in Rest : r <= q
  BY <1>1, LeastExists
<1>3. PICK m \in S : r = b - m
  BY <1>2
<1>4. ASSUME NEW n \in S
      PROVE  n <= m
  <2>1. b - m <= b - n
    BY <1>2, <1>3
  <2>2. QED
    BY <2>1
<1>5. QED
  BY <1>4

\* Lengths have a greatest, and received can count to twice the greatest.
LEMMA LongestFacts ==
  /\ Longest \in Nat /\ Longest < Width
  /\ \A m \in Msgs : BodyLen[m] \in 1..Longest
<1> DEFINE All == Lengths \cup {0}
<1>1. \A n \in All : n \in Nat /\ 2 * n < Width
  BY BodyAssumption, WidthAssumption DEF Lengths
<1>2. Width \in Nat /\ All \in SUBSET Nat /\ All # {} /\ \A n \in All : n <= Width
  BY <1>1, WidthAssumption
<1>3. \E n \in All : \A k \in All : k <= n
  BY <1>2, GreatestExists
<1>4. Longest \in All /\ \A k \in Lengths : k <= Longest
  BY <1>3 DEF Longest
<1>5. Longest \in Nat /\ Longest < Width
  BY <1>1, <1>2, <1>4
<1>6. ASSUME NEW m \in Msgs
      PROVE  BodyLen[m] \in 1..Longest
  <2>1. BodyLen[m] \in Nat /\ BodyLen[m] >= 1 /\ BodyLen[m] \in Lengths
    BY BodyAssumption DEF Lengths
  <2>2. BodyLen[m] <= Longest
    BY <1>4, <2>1
  <2>3. QED
    BY <1>5, <2>1, <2>2
<1>7. QED
  BY <1>5, <1>6

\* What FrameLen, Units and the like are.
LEMMA Frames ==
  /\ \A m \in Msgs : FrameLen(m) \in Nat /\ FrameLen(m) >= 3
  /\ NoUnit \notin Units
BY BodyAssumption, NoMsgAssumption DEF FrameLen, Units, NoUnit

\* The message of a thread that has one, and what is left of its messages.
LEMMA MsgFacts ==
  ASSUME LinkTypes, NEW s \in Senders, todo[s] # <<>>
  PROVE  /\ Msg(s) \in Msgs /\ Msg(s) = todo[s][1]
         /\ Len(todo[s]) \in Nat \ {0}
         /\ Tail(todo[s]) \in Seq(Msgs)
         /\ Len(Tail(todo[s])) = Len(todo[s]) - 1
         /\ \A i \in 1..(Len(todo[s]) - 1) : Tail(todo[s])[i] = todo[s][i + 1]
<1>1. todo[s] \in Seq(Msgs)
  BY DEF LinkTypes
<1>2. QED
  BY <1>1, HeadTailProperties DEF Msg

\* What send takes: units of the frame, as many as there is room for.
LEMMA TakenFacts ==
  ASSUME LinkTypes, Bounds, NEW s \in Senders, todo[s] # <<>>,
         NEW k \in Nat, k < FrameLen(Msg(s))
  PROVE  LET n == Len(Taken(s, k))
         IN  /\ Taken(s, k) \in Seq(Units)
             /\ n \in Nat /\ n <= FrameLen(Msg(s)) - k
             /\ Len(wire) + n <= Capacity
             /\ Len(wire) < Capacity => n > 0
             /\ Taken(s, k) = <<>> <=> n = 0
             /\ \A i \in 1..n : Taken(s, k)[i] = <<Msg(s), k + i>>
<1>1. Msg(s) \in Msgs /\ FrameLen(Msg(s)) \in Nat
  BY MsgFacts, Frames
<1>2. Len(wire) \in Nat /\ Capacity \in Nat /\ Len(wire) <= Capacity
  BY CapacityAssumption DEF LinkTypes, Bounds
<1> DEFINE n == SmallerOf(Capacity - Len(wire), FrameLen(Msg(s)) - k)
<1>3. /\ n \in Nat /\ n <= FrameLen(Msg(s)) - k /\ Len(wire) + n <= Capacity
      /\ Len(wire) < Capacity => n > 0
  BY <1>1, <1>2 DEF SmallerOf
<1>4. Taken(s, k) = [i \in 1..n |-> <<Msg(s), k + i>>]
  BY DEF Taken
<1> HIDE DEF n
<1>5. Taken(s, k) \in Seq(Units) /\ Len(Taken(s, k)) = n
  BY <1>1, <1>3, <1>4 DEF Units
<1>6. Taken(s, k) = <<>> <=> n = 0
  BY <1>3, <1>5, EmptySeq
<1>7. \A i \in 1..n : Taken(s, k)[i] = <<Msg(s), k + i>>
  BY <1>4
<1>8. QED
  BY <1>3, <1>5, <1>6, <1>7


\* The stream after send took the units from k + 1 of the frame of s.
LEMMA WireGrows ==
  ASSUME LinkTypes, Bounds, NEW s \in Senders, todo[s] # <<>>,
         NEW k \in Nat, k < FrameLen(Msg(s))
  PROVE  LET n == Len(Taken(s, k))
             w == wire \o Taken(s, k)
         IN  /\ w \in Seq(Units) /\ Len(w) = Len(wire) + n /\ Len(w) <= Capacity
             /\ \A i \in 1..Len(wire) : w[i] = wire[i]
             /\ \A i \in 1..n : w[Len(wire) + i] = <<Msg(s), k + i>>
<1> DEFINE tk == Taken(s, k)
           w == wire \o tk
<1>1. /\ tk \in Seq(Units) /\ Len(tk) \in Nat
      /\ Len(wire) + Len(tk) <= Capacity
      /\ \A i \in 1..Len(tk) : tk[i] = <<Msg(s), k + i>>
  BY TakenFacts
<1>2. wire \in Seq(Units) /\ Len(wire) \in Nat
  BY DEF LinkTypes
<1> HIDE DEF tk
<1>3. /\ w \in Seq(Units) /\ Len(w) = Len(wire) + Len(tk)
      /\ \A i \in 1..(Len(wire) + Len(tk)) :
           w[i] = IF i <= Len(wire) THEN wire[i] ELSE tk[i - Len(wire)]
  BY <1>1, <1>2, ConcatProperties
<1> HIDE DEF w
<1>4. ASSUME NEW i \in 1..Len(tk)
      PROVE  w[Len(wire) + i] = <<Msg(s), k + i>>
  <2>1. Len(wire) + i \in 1..(Len(wire) + Len(tk)) /\ ~(Len(wire) + i <= Len(wire))
        /\ (Len(wire) + i) - Len(wire) = i
    BY <1>1, <1>2
  <2>2. QED
    BY <1>1, <1>3, <2>1
<1>5. \A i \in 1..Len(wire) : w[i] = wire[i]
  BY <1>1, <1>2, <1>3
<1>6. QED
  BY <1>1, <1>3, <1>4, <1>5 DEF w, tk

\* The stream after recv took n units.
LEMMA WireShrinks ==
  ASSUME LinkTypes, NEW n \in 1..Len(wire)
  PROVE  /\ Dropped(n) \in Seq(Units) /\ Len(Dropped(n)) = Len(wire) - n
         /\ \A i \in 1..(Len(wire) - n) : Dropped(n)[i] = wire[n + i]
<1>1. wire \in Seq(Units) /\ Len(wire) \in Nat
  BY DEF LinkTypes
<1>2. \A i \in (n + 1)..Len(wire) : wire[i] \in Units
  BY <1>1, ElementOfSeq
<1>3. /\ Dropped(n) \in Seq(Units)
      /\ Len(Dropped(n)) = IF n + 1 <= Len(wire) THEN Len(wire) - (n + 1) + 1 ELSE 0
      /\ \A i \in 1..(Len(wire) - (n + 1) + 1) : Dropped(n)[i] = wire[(n + 1) + i - 1]
  BY <1>1, <1>2, SubSeqProperties DEF Dropped
<1>4. QED
  BY <1>1, <1>3

\* databuf after realloc.
LEMMA PaddedFacts ==
  ASSUME NEW b \in Seq(Units \cup {NoUnit}), NEW n \in Nat
  PROVE  LET p == Padded(b, n)
         IN  /\ p \in Seq(Units \cup {NoUnit})
             /\ Len(p) >= n /\ Len(p) >= Len(b)
             /\ Len(p) = n \/ Len(p) = Len(b)
             /\ \A i \in 1..Len(p) : p[i] = NoUnit \/ (i <= Len(b) /\ p[i] = b[i])
<1>1. CASE Len(b) >= n
  BY <1>1 DEF Padded
<1>2. CASE ~(Len(b) >= n)
  <2> DEFINE rest == [i \in 1..(n - Len(b)) |-> NoUnit]
  <2>1. Len(b) \in Nat /\ n - Len(b) \in Nat
    BY <1>2
  <2>2. rest \in Seq(Units \cup {NoUnit}) /\ Len(rest) = n - Len(b)
    BY <2>1
  <2>3. \A i \in 1..Len(rest) : rest[i] = NoUnit
    BY <2>1, <2>2
  <2>4. Padded(b, n) = b \o rest
    BY <1>2 DEF Padded
  <2> HIDE DEF rest
  <2>5. /\ b \o rest \in Seq(Units \cup {NoUnit})
        /\ Len(b \o rest) = Len(b) + Len(rest)
        /\ \A i \in 1..(Len(b) + Len(rest)) :
             (b \o rest)[i] = IF i <= Len(b) THEN b[i] ELSE rest[i - Len(b)]
    BY <2>2, ConcatProperties
  <2>6. Len(b \o rest) = n
    BY <2>1, <2>2, <2>5
  <2>7. \A i \in 1..n : (b \o rest)[i] = NoUnit
                         \/ (i <= Len(b) /\ (b \o rest)[i] = b[i])
    BY <2>1, <2>2, <2>3, <2>5
  <2>8. QED
    BY <1>2, <2>1, <2>4, <2>5, <2>6, <2>7
<1>3. QED
  BY <1>1, <1>2

\* What the operators of Cipher return.
LEMMA CipherFacts ==
  ASSUME NEW c \in Ciphers, NEW m \in Msgs, NEW k \in Keys \cup {NoKey}
  PROVE  /\ RandSalt(c, m) \in Ciphers /\ RandSalt(c, m).salt = m
         /\ DeriveKey(c, m) \in Keys /\ DeriveKey(c, m) = <<m, c.salt>>
         /\ SetContext(c, k) \in Ciphers /\ SetContext(c, k).salt = c.salt
         /\ SetContext(c, k).ctx = [key |-> k, fed |-> <<>>]
         /\ Update(c, m) \in Ciphers /\ Update(c, m).salt = c.salt
         /\ Update(c, m).ctx = [key |-> c.ctx.key, fed |-> Append(c.ctx.fed, m)]
         /\ Cleanup(c) \in Ciphers /\ Cleanup(c).salt = c.salt
         /\ c.ctx \in Contexts /\ c.salt \in Msgs \cup {NoMsg}
<1>1. c = [salt |-> c.salt, ctx |-> c.ctx] /\ c.salt \in Msgs \cup {NoMsg}
      /\ c.ctx \in Contexts
  BY DEF Ciphers
<1>2. c.ctx = [key |-> c.ctx.key, fed |-> c.ctx.fed]
      /\ c.ctx.key \in Keys \cup {NoKey} /\ c.ctx.fed \in Seq(Msgs)
  BY <1>1 DEF Contexts
<1>3. Append(c.ctx.fed, m) \in Seq(Msgs)
  BY <1>2
<1>4. [key |-> c.ctx.key, fed |-> Append(c.ctx.fed, m)] \in Contexts
      /\ [key |-> k, fed |-> <<>>] \in Contexts /\ Cleaned \in Contexts
  BY <1>2, <1>3 DEF Contexts, Cleaned
<1>5. /\ Update(c, m) \in Ciphers /\ Update(c, m).salt = c.salt
      /\ Update(c, m).ctx = [key |-> c.ctx.key, fed |-> Append(c.ctx.fed, m)]
  <2> DEFINE f == Append(c.ctx.fed, m)
  <2>1. Update(c, m) = [c EXCEPT !.ctx = [c.ctx EXCEPT !.fed = f]]
    BY DEF Update
  <2> HIDE DEF f
  <2>2. [c.ctx EXCEPT !.fed = f] = [key |-> c.ctx.key, fed |-> f]
    BY <1>2
  <2>3. [key |-> c.ctx.key, fed |-> f] \in Contexts
    BY <1>4 DEF f
  <2>4. /\ Update(c, m) \in Ciphers /\ Update(c, m).salt = c.salt
        /\ Update(c, m).ctx = [key |-> c.ctx.key, fed |-> f]
    BY <1>1, <2>1, <2>2, <2>3 DEF Ciphers
  <2>5. QED
    BY <2>4 DEF f
<1>6. RandSalt(c, m) \in Ciphers /\ RandSalt(c, m).salt = m
  BY DEF RandSalt, Ciphers
<1>7. DeriveKey(c, m) \in Keys /\ DeriveKey(c, m) = <<m, c.salt>>
  BY <1>1 DEF DeriveKey, Keys
<1>8. /\ SetContext(c, k) \in Ciphers /\ SetContext(c, k).salt = c.salt
      /\ SetContext(c, k).ctx = [key |-> k, fed |-> <<>>]
  BY <1>4 DEF SetContext, Ciphers
<1>9. Cleanup(c) \in Ciphers /\ Cleanup(c).salt = c.salt
  BY <1>4 DEF Cleanup, Ciphers
<1>10. QED
  BY <1>1, <1>5, <1>6, <1>7, <1>8, <1>9

-----------------------------------------------------------------------------
\* Types and bounds

\* A step of a thread before it calls send, or after.
Preparing(s) == TimeOut(s) \/ Encrypt(s) \/ Flag(s) \/ Unflag(s)

\* Such a step leaves the socket and read_thread alone.
LEMMA PreparingTypes ==
  ASSUME LinkTypes, Bounds, Sends, NEW s \in Senders, Preparing(s)
  PROVE  LinkTypes' /\ Bounds'
<1>1. todo[s] # <<>>
  BY DEF Preparing, TimeOut, Encrypt, Salt, Derive, Context, EncryptUpdate,
         EncryptFinal, Flag, Unflag, Runs, Sends, LinkTypes, Pcs
<1>2. Msg(s) \in Msgs /\ Tail(todo[s]) \in Seq(Msgs)
  BY <1>1, MsgFacts
<1>3. cipher \in Ciphers /\ key[s] \in Keys \cup {NoKey} /\ text[s] \in Ciphertexts
  BY DEF LinkTypes
<1>4. /\ RandSalt(cipher, Msg(s)) \in Ciphers /\ DeriveKey(cipher, Msg(s)) \in Keys
      /\ SetContext(cipher, key[s]) \in Ciphers
      /\ Update(cipher, Msg(s)) \in Ciphers /\ Update(cipher, Msg(s)).ctx \in Contexts
      /\ Cleanup(cipher) \in Ciphers
      /\ cipher.ctx \in Contexts /\ cipher.salt \in Msgs \cup {NoMsg}
  BY <1>2, <1>3, CipherFacts DEF Ciphers
<1>5. /\ NoText \in Ciphertexts
      /\ [text[s] EXCEPT !.last = cipher.ctx] \in Ciphertexts
      /\ \A c \in Contexts : [text[s] EXCEPT !.body = c] \in Ciphertexts
  BY <1>3, <1>4 DEF NoText, Ciphertexts, Cleaned, Contexts
<1>6. UNCHANGED <<off, sent, wire, closed, rpc, enc, total, buf, received, got, goodbyes>>
  BY DEF Preparing, TimeOut, Encrypt, Salt, Derive, Context, EncryptUpdate,
         EncryptFinal, Flag, Unflag, readVars
<1>7. Bounds'
  BY <1>6 DEF Bounds
<1> DEFINE Kept == /\ off' \in [Senders -> Nat]
                   /\ sent' \in Seq(Msgs) /\ wire' \in Seq(Units)
                   /\ closed' \in {"no", "eof", "reset"}
                   /\ rpc' \in {"select", "body", "decrypt", "gone"}
                   /\ enc' \in [1..2 -> Units \cup {NoUnit}]
                   /\ buf' \in Seq(Units \cup {NoUnit})
                   /\ total' \in Nat /\ received' \in Nat
                   /\ got' \in Seq(Msgs \cup {Garbage}) /\ goodbyes' \in Nat
<1>8. Kept
  BY <1>6 DEF LinkTypes
<1> HIDE DEF Kept
<1>9. CASE TimeOut(s)
  BY <1>2, <1>7, <1>8, <1>9 DEF TimeOut, LinkTypes, Kept, Done, To, Pcs
<1>10. CASE Salt(s)
  BY <1>4, <1>7, <1>8, <1>10 DEF Salt, LinkTypes, Kept, Cause, Causes, To, Pcs
<1>11. CASE Derive(s)
  BY <1>4, <1>7, <1>8, <1>11 DEF Derive, LinkTypes, Kept, To, Pcs
<1>12. CASE Context(s)
  BY <1>4, <1>7, <1>8, <1>12 DEF Context, LinkTypes, Kept, To, Pcs
<1>13. CASE EncryptUpdate(s)
  <2>1. CASE cipher.ctx.key = NoKey
    BY <1>7, <1>8, <1>13, <2>1 DEF EncryptUpdate, LinkTypes, Kept
  <2>2. CASE cipher.ctx.key # NoKey
    <3>1. text' = [text EXCEPT ![s] = [text[s] EXCEPT !.body = cipher'.ctx]]
          /\ cipher' = Update(cipher, Msg(s)) /\ To(s, "final")
          /\ UNCHANGED <<todo, key, frames, nonblock, causes, status>>
      BY <1>13, <2>2 DEF EncryptUpdate
    <3>2. text' \in [Senders -> Ciphertexts]
      BY <1>4, <1>5, <3>1 DEF LinkTypes
    <3>3. pc' \in [Senders -> Pcs]
      BY <3>1 DEF To, LinkTypes, Pcs
    <3>4. QED
      BY <1>4, <1>7, <1>8, <3>1, <3>2, <3>3 DEF LinkTypes, Kept
  <2>3. QED
    BY <2>1, <2>2
<1>14. CASE EncryptFinal(s)
  <2>1. CASE cipher.ctx.key = NoKey
    BY <1>7, <1>8, <1>14, <2>1 DEF EncryptFinal, LinkTypes, Kept
  <2>2. CASE cipher.ctx.key # NoKey
    <3>1. [salt |-> cipher.salt, text |-> [text[s] EXCEPT !.last = cipher.ctx]]
            \in [salt : Msgs \cup {NoMsg}, text : Ciphertexts]
      BY <1>4, <1>5
    <3>2. frames' \in [Msgs -> [salt : Msgs \cup {NoMsg}, text : Ciphertexts]]
      BY <1>2, <1>14, <2>2, <3>1 DEF EncryptFinal, LinkTypes
    <3>3. pc' \in [Senders -> Pcs] /\ key' \in [Senders -> Keys \cup {NoKey}]
          /\ text' \in [Senders -> Ciphertexts]
      BY <1>5, <1>14, <2>2 DEF EncryptFinal, LinkTypes, To, Pcs
    <3>4. QED
      BY <1>4, <1>7, <1>8, <1>14, <2>2, <3>2, <3>3 DEF EncryptFinal, LinkTypes, Kept
  <2>3. QED
    BY <2>1, <2>2
<1>15. CASE Flag(s)
  BY <1>7, <1>8, <1>15 DEF Flag, LinkTypes, Kept, To, Pcs
<1>16. CASE Unflag(s)
  BY <1>2, <1>7, <1>8, <1>16 DEF Unflag, LinkTypes, Kept, Done, To, Pcs
<1>17. QED
  BY <1>9, <1>10, <1>11, <1>12, <1>13, <1>14, <1>15, <1>16 DEF Preparing, Encrypt

\* What every call of send does to the stream; k units were taken before.
LEMMA SendingFacts ==
  ASSUME LinkTypes, Bounds, Sends, NEW s \in Senders, Send(s) \/ SendOn(s)
  PROVE  /\ todo[s] # <<>> /\ Msg(s) \in Msgs
         /\ off[s] \in Nat /\ off[s] < FrameLen(Msg(s))
         /\ Send(s) => off[s] = 0
         /\ LET n == Len(Taken(s, off[s]))
            IN  /\ n \in Nat /\ n <= FrameLen(Msg(s)) - off[s]
                /\ SendOn(s) => n > 0
                /\ wire' \in Seq(Units) /\ Len(wire') = Len(wire) + n
                /\ Len(wire') <= Capacity
                /\ \A i \in 1..Len(wire) : wire'[i] = wire[i]
                /\ \A i \in 1..n : wire'[Len(wire) + i] = <<Msg(s), off[s] + i>>
                /\ sent' = IF off[s] = 0 /\ n > 0 THEN Append(sent, Msg(s)) ELSE sent
                /\ sent' \in Seq(Msgs)
                /\ UNCHANGED readVars /\ UNCHANGED closed /\ closed = "no"
<1>1. pc[s] \in {"send", "wait"} /\ closed = "no"
  BY DEF Send, SendOn, Runs
<1>2. todo[s] # <<>> /\ Msg(s) \in Msgs
  BY <1>1, MsgFacts DEF Sends
<1>3. FrameLen(Msg(s)) \in Nat /\ FrameLen(Msg(s)) >= 3
  BY <1>2, Frames
<1>4. /\ off[s] \in Nat /\ off[s] < FrameLen(Msg(s))
      /\ Send(s) => off[s] = 0
  BY <1>1, <1>3 DEF Sends, LinkTypes, Send, Runs
<1> DEFINE tk == Taken(s, off[s])
<1>5. /\ Len(tk) \in Nat /\ Len(tk) <= FrameLen(Msg(s)) - off[s]
      /\ Len(wire) < Capacity => Len(tk) > 0
      /\ tk = <<>> <=> Len(tk) = 0
  BY <1>2, <1>4, TakenFacts
<1>6. wire' = wire \o tk
  BY <1>4 DEF Send, SendOn
<1>7. SendOn(s) => Len(tk) > 0
  BY <1>5 DEF SendOn
<1>8. sent' = IF off[s] = 0 /\ Len(tk) > 0 THEN Append(sent, Msg(s)) ELSE sent
  <2>1. CASE Send(s)
    <3>1. sent' = IF tk = <<>> THEN sent ELSE Append(sent, Msg(s))
      BY <1>4, <2>1 DEF Send
    <3>2. QED
      BY <1>4, <1>5, <2>1, <3>1
  <2>2. CASE SendOn(s)
    <3>1. sent' = IF off[s] = 0 /\ tk # <<>> THEN Append(sent, Msg(s)) ELSE sent
      BY <2>2 DEF SendOn
    <3>2. QED
      BY <1>5, <3>1
  <2>3. QED
    BY <2>1, <2>2
<1> HIDE DEF tk
<1>9. sent' \in Seq(Msgs)
  BY <1>2, <1>8, AppendProperties DEF LinkTypes
<1>10. UNCHANGED readVars /\ UNCHANGED closed
  BY DEF Send, SendOn
<1>11. /\ wire' \in Seq(Units) /\ Len(wire') = Len(wire) + Len(tk)
       /\ Len(wire') <= Capacity
       /\ \A i \in 1..Len(wire) : wire'[i] = wire[i]
       /\ \A i \in 1..Len(tk) : wire'[Len(wire) + i] = <<Msg(s), off[s] + i>>
  BY <1>2, <1>4, <1>6, WireGrows DEF tk
<1>12. QED
  BY <1>1, <1>2, <1>4, <1>5, <1>7, <1>8, <1>9, <1>10, <1>11 DEF tk

\* send and the thread that calls it.
LEMMA SendingTypes ==
  ASSUME LinkTypes, Bounds, Sends, NEW s \in Senders, Send(s) \/ SendOn(s)
  PROVE  LinkTypes' /\ Bounds'
<1>1. /\ todo[s] # <<>> /\ off[s] \in Nat
      /\ wire' \in Seq(Units) /\ sent' \in Seq(Msgs) /\ Len(wire') <= Capacity
      /\ UNCHANGED readVars /\ UNCHANGED closed
      /\ Len(Taken(s, off[s])) \in Nat /\ (Send(s) => off[s] = 0)
  BY SendingFacts
<1>2. Tail(todo[s]) \in Seq(Msgs)
  BY <1>1, MsgFacts
<1>3. SendReturns(s) => todo' \in [Senders -> Seq(Msgs)] /\ pc' \in [Senders -> Pcs]
  BY <1>2 DEF SendReturns, Done, To, LinkTypes, Pcs
<1>4. /\ todo' \in [Senders -> Seq(Msgs)] /\ pc' \in [Senders -> Pcs]
      /\ off' \in [Senders -> Nat] /\ causes' \subseteq Causes
      /\ UNCHANGED <<cipher, key, text, frames, nonblock, status>>
  <2>1. CASE Send(s)
    <3> DEFINE n == Len(Taken(s, 0))
    <3>1. n \in Nat
      BY <1>1, <2>1
    <3>2. \/ SendReturns(s) /\ UNCHANGED off
          \/ off' = [off EXCEPT ![s] = n] /\ To(s, "wait") /\ UNCHANGED todo
      BY <2>1 DEF Send
    <3> HIDE DEF n
    <3>3. /\ todo' \in [Senders -> Seq(Msgs)] /\ pc' \in [Senders -> Pcs]
          /\ off' \in [Senders -> Nat]
      BY <1>3, <3>1, <3>2 DEF LinkTypes, To, Pcs
    <3>4. causes' \subseteq Causes
          /\ UNCHANGED <<cipher, key, text, frames, nonblock, status>>
      BY <2>1 DEF Send, LinkTypes, Causes
    <3>5. QED
      BY <3>3, <3>4
  <2>2. CASE SendOn(s)
    <3> DEFINE n == Len(Taken(s, off[s]))
    <3>1. n \in Nat
      BY <1>1
    <3>2. \/ SendReturns(s) /\ off' = [off EXCEPT ![s] = 0]
          \/ off' = [off EXCEPT ![s] = @ + n] /\ UNCHANGED <<pc, todo>>
      BY <2>2 DEF SendOn
    <3> HIDE DEF n
    <3>3. /\ todo' \in [Senders -> Seq(Msgs)] /\ pc' \in [Senders -> Pcs]
          /\ off' \in [Senders -> Nat]
      <4>1. off \in [Senders -> Nat] /\ off[s] + n \in Nat
        BY <1>1, <3>1 DEF LinkTypes
      <4>2. off' \in [Senders -> Nat]
        BY <3>2, <4>1
      <4>3. QED
        BY <1>3, <3>2, <4>2 DEF LinkTypes
    <3>4. causes' \subseteq Causes
          /\ UNCHANGED <<cipher, key, text, frames, nonblock, status>>
      BY <2>2 DEF SendOn, Cause, LinkTypes, Causes
    <3>5. QED
      BY <3>3, <3>4
  <2>3. QED
    BY <2>1, <2>2
<1>5. QED
  BY <1>1, <1>4 DEF LinkTypes, Bounds, readVars


\* What recv of a header leaves behind.
LEMMA HeaderFacts ==
  ASSUME LinkTypes, Bounds, ReadHeader
  PROVE  \E n \in 1..Len(wire) :
           /\ n = 1 \/ n = 2
           /\ causes' = IF n = 1 THEN causes \cup {"short"} ELSE causes
           /\ enc' \in [1..2 -> Units \cup {NoUnit}]
           /\ enc'[1] = wire[1] /\ enc'[2] = (IF n = 2 THEN wire[2] ELSE enc[2])
           /\ wire' \in Seq(Units) /\ Len(wire') = Len(wire) - n
           /\ \A i \in 1..(Len(wire) - n) : wire'[i] = wire[n + i]
           /\ \/ /\ MagicOk(enc')
                 /\ total' \in TotalOf(enc') /\ total' \in 0..Longest
                 /\ buf' = Padded(buf, total') /\ received' = 0
                 /\ rpc' = IF total' = 0 THEN "decrypt" ELSE "body"
              \/ ~MagicOk(enc') /\ UNCHANGED <<total, buf, rpc, received>>
<1>1. wire \in Seq(Units) /\ Len(wire) \in Nat /\ enc \in [1..2 -> Units \cup {NoUnit}]
  BY DEF LinkTypes
<1> DEFINE E(n) == [i \in 1..2 |-> IF i <= n THEN wire[i] ELSE enc[i]]
<1>2. PICK n \in 1..SmallerOf(2, Len(wire)) :
        /\ enc' = E(n)
        /\ wire' = Dropped(n)
        /\ Cause("short", n = 1)
        /\ IF MagicOk(E(n))
           THEN \E len \in TotalOf(E(n)) :
                  /\ total' = len
                  /\ buf' = Padded(buf, len)
                  /\ rpc' = IF len = 0 THEN "decrypt" ELSE "body"
                  /\ received' = 0
           ELSE UNCHANGED <<total, buf, rpc, received>>
  BY DEF ReadHeader
<1>3. n \in 1..Len(wire) /\ (n = 1 \/ n = 2)
  BY <1>1 DEF SmallerOf
<1>4. \A i \in 1..Len(wire) : wire[i] \in Units
  BY <1>1, ElementOfSeq
<1>5. enc' \in [1..2 -> Units \cup {NoUnit}]
  BY <1>1, <1>2, <1>3, <1>4
<1>6. enc'[1] = wire[1] /\ enc'[2] = (IF n = 2 THEN wire[2] ELSE enc[2])
  BY <1>2, <1>3
<1>7. TotalOf(enc') \subseteq 0..Longest
  <2>1. enc'[2] \in Units \cup {NoUnit}
    BY <1>5
  <2>2. enc'[2] # NoUnit => enc'[2][1] \in Msgs
    BY <2>1 DEF Units
  <2>3. enc'[2] # NoUnit => BodyLen[enc'[2][1]] \in 0..Longest
    BY <2>2, LongestFacts
  <2>4. 0 \in 0..Longest
    BY LongestFacts
  <2>5. QED
    BY <2>3, <2>4 DEF TotalOf
<1>8. \/ /\ MagicOk(enc')
         /\ total' \in TotalOf(enc') /\ total' \in 0..Longest
         /\ buf' = Padded(buf, total') /\ received' = 0
         /\ rpc' = IF total' = 0 THEN "decrypt" ELSE "body"
      \/ ~MagicOk(enc') /\ UNCHANGED <<total, buf, rpc, received>>
  <2>1. enc' = E(n)
    BY <1>2
  <2> HIDE DEF E
  <2>2. QED
    BY <1>2, <1>7, <2>1
<1>9. causes' = IF n = 1 THEN causes \cup {"short"} ELSE causes
  BY <1>2 DEF Cause
<1>10. /\ wire' \in Seq(Units) /\ Len(wire') = Len(wire) - n
       /\ \A i \in 1..(Len(wire) - n) : wire'[i] = wire[n + i]
  BY <1>2, <1>3, WireShrinks
<1>11. QED
  BY <1>3, <1>5, <1>6, <1>8, <1>9, <1>10

\* What recv of a body, or of a piece of one, leaves behind.
LEMMA BodyFacts ==
  ASSUME LinkTypes, Bounds, ReadBody
  PROVE  \E n \in 1..Len(wire) :
           /\ n <= total
           /\ causes' = IF n > total - received THEN causes \cup {"beyond"} ELSE causes
           /\ wire' \in Seq(Units) /\ Len(wire') = Len(wire) - n
           /\ \A i \in 1..(Len(wire) - n) : wire'[i] = wire[n + i]
           /\ \/ /\ received + n > Len(buf) /\ status' = "undefined"
                 /\ UNCHANGED <<buf, received, rpc>>
              \/ /\ received + n <= Len(buf) /\ received' = received + n
                 /\ rpc' = IF received' < total THEN "body" ELSE "decrypt"
                 /\ buf' \in Seq(Units \cup {NoUnit}) /\ Len(buf') = Len(buf)
                 /\ \A i \in 1..Len(buf) :
                      buf'[i] = IF i \in (received + 1)..(received + n)
                                THEN wire[i - received] ELSE buf[i]
                 /\ UNCHANGED status
<1>1. /\ wire \in Seq(Units) /\ Len(wire) \in Nat
      /\ buf \in Seq(Units \cup {NoUnit}) /\ Len(buf) \in Nat
      /\ total \in Nat /\ received \in Nat
  BY DEF LinkTypes
<1> DEFINE B(n) == [i \in 1..Len(buf) |->
                      IF i \in (received + 1)..(received + n)
                      THEN wire[i - received] ELSE buf[i]]
<1>2. PICK n \in 1..SmallerOf(Asked, Len(wire)) :
        /\ Cause("beyond", n > total - received)
        /\ wire' = Dropped(n)
        /\ IF received + n > Len(buf)
           THEN status' = "undefined" /\ UNCHANGED <<buf, received, rpc>>
           ELSE /\ buf' = B(n)
                /\ received' = received + n
                /\ rpc' = IF received' < total THEN "body" ELSE "decrypt"
                /\ UNCHANGED status
  BY DEF ReadBody
<1>3. n \in 1..Len(wire) /\ n <= total
  BY <1>1 DEF SmallerOf, Asked
<1>4. causes' = IF n > total - received THEN causes \cup {"beyond"} ELSE causes
  BY <1>2 DEF Cause
<1>5. /\ wire' \in Seq(Units) /\ Len(wire') = Len(wire) - n
      /\ \A i \in 1..(Len(wire) - n) : wire'[i] = wire[n + i]
  BY <1>2, <1>3, WireShrinks
<1>6. \A i \in 1..Len(wire) : wire[i] \in Units
  BY <1>1, ElementOfSeq
<1>7. \A i \in 1..Len(buf) : buf[i] \in Units \cup {NoUnit}
  BY <1>1, ElementOfSeq
<1>8. \A i \in 1..Len(buf) : B(n)[i] \in Units \cup {NoUnit}
  BY <1>1, <1>3, <1>6, <1>7
<1>9. B(n) \in Seq(Units \cup {NoUnit}) /\ Len(B(n)) = Len(buf)
  BY <1>1, <1>8
<1>10. \A i \in 1..Len(buf) :
         B(n)[i] = IF i \in (received + 1)..(received + n)
                   THEN wire[i - received] ELSE buf[i]
  OBVIOUS
<1> HIDE DEF B
<1>11. CASE received + n > Len(buf)
  BY <1>2, <1>3, <1>4, <1>5, <1>11
<1>12. CASE ~(received + n > Len(buf))
  <2>1. received + n <= Len(buf)
    BY <1>1, <1>12
  <2>2. QED
    BY <1>2, <1>3, <1>4, <1>5, <1>9, <1>10, <1>12, <2>1
<1>13. QED
  BY <1>11, <1>12

\* What decryption yields: nothing that was not in a whole frame.
LEMMA PlainFacts ==
  ASSUME LinkTypes
  PROVE  \/ Plain = Garbage
         \/ /\ Plain \in Msgs /\ BodyLen[Plain] = total
            /\ SubSeq(buf, 1, total) = Body(Plain)
            /\ Opens(frames[Plain].text, Plain, frames[enc[1][1]].salt)
<1> DEFINE W == {m \in Msgs : /\ BodyLen[m] = total
                              /\ SubSeq(buf, 1, total) = Body(m)
                              /\ Opens(frames[m].text, m, frames[enc[1][1]].salt)}
<1>1. Plain = IF W = {} THEN Garbage ELSE CHOOSE m \in W : TRUE
  BY DEF Plain
<1>2. W # {} => (CHOOSE m \in W : TRUE) \in W
  OBVIOUS
<1>3. QED
  BY <1>1, <1>2

\* read_thread.
LEMMA ReadingTypes ==
  ASSUME LinkTypes, Bounds, Reading
  PROVE  LinkTypes' /\ Bounds'
<1>1. /\ wire \in Seq(Units) /\ Len(wire) \in Nat
      /\ buf \in Seq(Units \cup {NoUnit}) /\ Len(buf) \in Nat
      /\ total \in Nat /\ received \in Nat /\ goodbyes \in Nat
      /\ Longest \in Nat /\ Width \in Nat /\ Longest < Width
      /\ Capacity \in Nat /\ MaxGoodbyes \in Nat
  BY LongestFacts, WidthAssumption, CapacityAssumption, GoodbyesAssumption
     DEF LinkTypes
<1>2. UNCHANGED sendVars
  BY DEF Reading, ReadHeader, ReadBody, HeaderEnds, BodyEnds, Decrypt
<1> DEFINE Kept == /\ cipher' \in Ciphers
                   /\ todo' \in [Senders -> Seq(Msgs)] /\ pc' \in [Senders -> Pcs]
                   /\ key' \in [Senders -> Keys \cup {NoKey}]
                   /\ text' \in [Senders -> Ciphertexts]
                   /\ frames' \in [Msgs -> [salt : Msgs \cup {NoMsg}, text : Ciphertexts]]
                   /\ off' \in [Senders -> Nat] /\ nonblock' \in BOOLEAN
                   /\ sent' \in Seq(Msgs)
<1>3. Kept
  BY <1>2 DEF LinkTypes, sendVars
<1> HIDE DEF Kept
<1>4. Goodbye => goodbyes' \in Nat /\ goodbyes' <= MaxGoodbyes
  BY <1>1 DEF Goodbye, SmallerOf
<1>5. CASE ReadHeader
  <2>1. PICK n \in 1..Len(wire) :
           /\ n = 1 \/ n = 2
           /\ causes' = IF n = 1 THEN causes \cup {"short"} ELSE causes
           /\ enc' \in [1..2 -> Units \cup {NoUnit}]
           /\ wire' \in Seq(Units) /\ Len(wire') = Len(wire) - n
           /\ \/ /\ total' \in 0..Longest
                 /\ buf' = Padded(buf, total') /\ received' = 0
                 /\ rpc' = IF total' = 0 THEN "decrypt" ELSE "body"
              \/ UNCHANGED <<total, buf, rpc, received>>
    BY <1>5, HeaderFacts
  <2>2. UNCHANGED <<closed, got, goodbyes, status>>
    BY <1>5 DEF ReadHeader
  <2>3. causes' \subseteq Causes
    BY <2>1 DEF LinkTypes, Causes
  <2>4. Len(wire') <= Capacity
    BY <1>1, <2>1 DEF Bounds
  <2>5. CASE total' \in 0..Longest /\ buf' = Padded(buf, total') /\ received' = 0
             /\ rpc' = IF total' = 0 THEN "decrypt" ELSE "body"
    <3>1. /\ buf' \in Seq(Units \cup {NoUnit}) /\ Len(buf') >= total'
          /\ Len(buf') = total' \/ Len(buf') = Len(buf)
      BY <1>1, <2>5, PaddedFacts
    <3>2. Bounds'
      BY <1>1, <2>2, <2>4, <2>5, <3>1 DEF Bounds
    <3>3. QED
      BY <1>3, <2>1, <2>2, <2>3, <2>5, <3>1, <3>2 DEF LinkTypes, Kept
  <2>6. CASE UNCHANGED <<total, buf, rpc, received>>
    BY <1>3, <2>1, <2>2, <2>3, <2>4, <2>6 DEF LinkTypes, Bounds, Kept
  <2>7. QED
    BY <2>1, <2>5, <2>6
<1>6. CASE ReadBody
  <2>1. PICK n \in 1..Len(wire) :
           /\ n <= total
           /\ causes' = IF n > total - received THEN causes \cup {"beyond"} ELSE causes
           /\ wire' \in Seq(Units) /\ Len(wire') = Len(wire) - n
           /\ \/ /\ status' = "undefined"
                 /\ UNCHANGED <<buf, received, rpc>>
              \/ /\ received + n <= Len(buf) /\ received' = received + n
                 /\ rpc' = IF received' < total THEN "body" ELSE "decrypt"
                 /\ buf' \in Seq(Units \cup {NoUnit}) /\ Len(buf') = Len(buf)
                 /\ UNCHANGED status
    BY <1>6, BodyFacts
  <2>2. UNCHANGED <<closed, got, goodbyes, enc, total>> /\ rpc = "body"
    BY <1>6 DEF ReadBody, Reads
  <2>3. causes' \subseteq Causes
    BY <2>1 DEF LinkTypes, Causes
  <2>4. Len(wire') <= Capacity
    BY <1>1, <2>1 DEF Bounds
  <2>5. Bounds'
    BY <1>1, <2>1, <2>2, <2>4 DEF Bounds
  <2>6. QED
    BY <1>1, <1>3, <2>1, <2>2, <2>3, <2>5 DEF LinkTypes, Kept
<1>7. CASE HeaderEnds
  BY <1>3, <1>4, <1>7 DEF HeaderEnds, LinkTypes, Bounds, Kept
<1>8. CASE BodyEnds
  <2>1. received' \in Nat /\ received' <= Width - 1
    <3>1. CASE closed = "reset"
      <4>1. received' = (received - 1 + Width) % Width
        BY <1>8, <3>1 DEF BodyEnds, Uint32
      <4>2. received - 1 + Width \in Nat /\ Width > 0
        BY <1>1, WidthAssumption
      <4>3. QED
        BY <1>1, <4>1, <4>2
    <3>2. CASE closed # "reset"
      BY <1>1, <1>8, <3>2 DEF BodyEnds, Bounds
    <3>3. QED
      BY <3>1, <3>2
  <2>2. /\ UNCHANGED <<enc, total, buf, got, wire, causes, status>> /\ rpc = "body"
        /\ goodbyes' \in Nat /\ goodbyes' <= MaxGoodbyes /\ closed' = "eof"
        /\ rpc' = IF received' < total THEN "body" ELSE "decrypt"
    BY <1>4, <1>8 DEF BodyEnds, Reads
  <2>3. QED
    BY <1>3, <2>1, <2>2 DEF LinkTypes, Bounds, Kept
<1>9. CASE Decrypt
  <2>1. Plain \in Msgs \cup {Garbage}
    BY PlainFacts
  <2>2. got' \in Seq(Msgs \cup {Garbage})
    BY <1>9, <2>1, AppendProperties DEF Decrypt, LinkTypes
  <2>3. QED
    BY <1>3, <1>9, <2>2 DEF Decrypt, LinkTypes, Bounds, Kept
<1>10. QED
  BY <1>5, <1>6, <1>7, <1>8, <1>9 DEF Reading

-----------------------------------------------------------------------------
\* The threads before and after send

\* What these steps have in common: the thread is not in send and does not
\* get there past its start, and it keeps its message until it is done.
LEMMA PreparingFacts ==
  ASSUME LinkTypes, Sends, NEW s \in Senders, Preparing(s)
  PROVE  /\ UNCHANGED <<off, sent, wire, closed, readVars>>
         /\ causes \subseteq causes'
         /\ \A t \in Senders \ {s} : pc'[t] = pc[t] /\ todo'[t] = todo[t]
         /\ pc[s] # "wait" /\ pc'[s] \notin {"wait", "unflag"}
         /\ todo[s] # <<>>
         /\ \/ todo' = todo /\ pc'[s] # "idle" /\ pc[s] # "unflag"
            \/ todo'[s] = Tail(todo[s]) /\ pc'[s] = "idle"
<1>1. pc \in [Senders -> Pcs] /\ todo \in [Senders -> Seq(Msgs)]
  BY DEF LinkTypes
<1>2. todo[s] # <<>> /\ pc[s] # "wait"
  BY <1>1 DEF Preparing, TimeOut, Encrypt, Salt, Derive, Context, EncryptUpdate,
              EncryptFinal, Flag, Unflag, Runs, Sends
<1>3. CASE TimeOut(s) \/ Unflag(s)
  BY <1>1, <1>2, <1>3 DEF TimeOut, Unflag, Runs, Done, To
<1>4. CASE Salt(s) \/ Derive(s) \/ Context(s) \/ Flag(s)
  BY <1>1, <1>2, <1>4 DEF Salt, Derive, Context, Flag, Runs, To, Cause
<1>5. CASE EncryptUpdate(s)
  BY <1>1, <1>2, <1>5 DEF EncryptUpdate, Runs, To
<1>6. CASE EncryptFinal(s)
  BY <1>1, <1>2, <1>6 DEF EncryptFinal, Runs, To
<1>7. QED
  BY <1>3, <1>4, <1>5, <1>6 DEF Preparing, Encrypt

\* They keep everything that is not about encryption.
LEMMA PreparingKeeps ==
  ASSUME LinkTypes, Sends, Apart, Known, Headers, Ordered, Streaming,
         NEW s \in Senders, Preparing(s)
  PROVE  Sends' /\ Apart' /\ Known' /\ Headers' /\ Ordered' /\ Streaming'
<1>1. /\ UNCHANGED <<off, sent, wire, closed, readVars>>
      /\ causes \subseteq causes'
      /\ \A t \in Senders \ {s} : pc'[t] = pc[t] /\ todo'[t] = todo[t]
      /\ pc[s] # "wait" /\ pc'[s] \notin {"wait", "unflag"}
      /\ todo[s] # <<>>
      /\ \/ todo' = todo /\ pc'[s] # "idle" /\ pc[s] # "unflag"
         \/ todo'[s] = Tail(todo[s]) /\ pc'[s] = "idle"
  BY PreparingFacts
<1>2. pc[s] # "wait" /\ pc'[s] # "wait" /\ off[s] = 0
  BY PreparingFacts DEF Sends
<1>3. /\ todo[s] \in Seq(Msgs) /\ Len(Tail(todo[s])) = Len(todo[s]) - 1
      /\ Len(todo[s]) \in Nat
      /\ \A i \in 1..(Len(todo[s]) - 1) : Tail(todo[s])[i] = todo[s][i + 1]
  BY <1>1, MsgFacts DEF LinkTypes
<1>4. UNCHANGED <<rpc, enc, total, buf, received, got, goodbyes, sent, wire, closed>>
  BY <1>1 DEF readVars
<1>5. \A t \in Senders : pc'[t] = "wait" =>
         t # s /\ pc[t] = "wait" /\ todo'[t] = todo[t] /\ Msg(t)' = Msg(t)
  BY <1>1, <1>2 DEF Msg
<1>6. \A t \in Senders : pc[t] = "wait" => t # s /\ pc'[t] = "wait"
  BY <1>1, <1>2
<1>7. Sends'
  BY <1>1, <1>2, <1>4, <1>5 DEF Sends, Entered
<1>8. Apart'
  <2>1. \A m : Entered(m)' <=> Entered(m)
    BY <1>4 DEF Entered
  <2>2. \A t \in Senders \ {s} : Started(t)' <=> Started(t)
    BY <1>1 DEF Started
  <2>3. CASE todo' = todo /\ pc[s] # "unflag"
    <3>1. ~Started(s) /\ ~Started(s)'
      BY <1>1, <1>2, <2>3 DEF Started
    <3>2. QED
      BY <1>4, <2>1, <2>2, <2>3, <3>1 DEF Apart
  <2>4. CASE todo'[s] = Tail(todo[s])
    <3>1. ASSUME NEW i \in 1..Len(todo'[s])
          PROVE  i + 1 \in 1..Len(todo[s]) /\ todo'[s][i] = todo[s][i + 1] /\ i + 1 > 1
      BY <1>3, <2>4
    <3>2. ASSUME NEW i \in 1..Len(todo'[s])
          PROVE  /\ ~Entered(todo'[s][i])
                 /\ \A j \in 1..Len(todo'[s]) : todo'[s][i] = todo'[s][j] => i = j
                 /\ \A t \in Senders \ {s} : \A j \in 1..Len(todo'[t]) :
                      todo'[s][i] # todo'[t][j]
      <4>1. i + 1 \in 1..Len(todo[s]) /\ todo'[s][i] = todo[s][i + 1] /\ i + 1 > 1
        BY <3>1
      <4>2. ~Entered(todo'[s][i])
        BY <4>1 DEF Apart
      <4>3. \A t \in Senders \ {s} : \A j \in 1..Len(todo'[t]) :
               todo'[s][i] # todo'[t][j]
        BY <1>1, <4>1 DEF Apart
      <4>4. ASSUME NEW j \in 1..Len(todo'[s]), todo'[s][i] = todo'[s][j]
            PROVE  i = j
        <5>1. j + 1 \in 1..Len(todo[s]) /\ todo'[s][j] = todo[s][j + 1]
          BY <3>1
        <5>2. todo[s][i + 1] = todo[s][j + 1]
          BY <4>1, <4>4, <5>1
        <5>3. i + 1 = j + 1
          BY <4>1, <5>1, <5>2 DEF Apart
        <5>4. QED
          BY <5>3
      <4>5. QED
        BY <4>2, <4>3, <4>4
    <3>3. \A t, u \in Senders : \A i \in 1..Len(todo'[t]), j \in 1..Len(todo'[u]) :
            todo'[t][i] = todo'[u][j] => t = u /\ i = j
      BY <1>1, <3>2 DEF Apart
    <3>4. \A t \in Senders : \A i \in 1..Len(todo'[t]) :
            (i > 1 \/ ~Started(t)') => ~Entered(todo'[t][i])
      BY <1>1, <2>2, <3>2 DEF Apart
    <3>5. QED
      BY <1>4, <2>1, <3>3, <3>4 DEF Apart
  <2>5. QED
    BY <1>1, <2>3, <2>4
<1>9. Known'
  BY <1>4 DEF Known, Whole, Entered
<1>10. Headers'
  BY <1>4 DEF Headers, Before
<1>11. Ordered'
  <2>1. \A m, n : Before(m, n)' <=> Before(m, n)
    BY <1>4 DEF Before
  <2>2. "overlap" \notin causes' => "overlap" \notin causes
    BY <1>1
  <2>3. QED
    BY <1>4, <2>1, <2>2 DEF Ordered
<1>12. Streaming'
  <2> SUFFICES ASSUME causes' = {}
               PROVE  Streaming'
    BY DEF Streaming
  <2>1. /\ causes = {} /\ Joined /\ (rpc # "gone" => Beginning /\ Ending)
        /\ Reader /\ Turns
    BY <1>1 DEF Streaming
  <2>2. Joined' /\ (rpc' # "gone" => Beginning')
    BY <1>4, <2>1 DEF Joined, Beginning, Front, FrontUnit
  <2>3. Reader'
    BY <1>4, <2>1 DEF Reader
  <2>4. Turns'
    BY <1>4, <1>5, <2>1 DEF Turns
  <2>5. \A t \in Senders : /\ Partial(t)' <=> Partial(t)
                           /\ Partial(t) => Msg(t)' = Msg(t) /\ off'[t] = off[t]
    BY <1>1, <1>5, <1>6 DEF Partial
  <2>6. rpc' # "gone" => Ending'
    <3> SUFFICES ASSUME rpc # "gone"
                 PROVE  Ending'
      BY <1>4
    <3>1. Front' = Front /\ FrontUnit' = FrontUnit
      BY <1>4 DEF Front, FrontUnit
    <3>2. Ending
      BY <2>1
    <3>3. QED
      BY <1>4, <2>5, <3>1, <3>2 DEF Ending
  <2>7. QED
    BY <2>2, <2>3, <2>4, <2>6 DEF Streaming
<1>13. QED
  BY <1>7, <1>8, <1>9, <1>10, <1>11, <1>12


\* Two threads do not have the same message, and a message that was not
\* started is not in the stream.
LEMMA OwnMessage ==
  ASSUME LinkTypes, Apart, NEW s \in Senders, todo[s] # <<>>
  PROVE  /\ \A t \in Senders \ {s} : todo[t] # <<>> => Msg(t) # Msg(s)
         /\ ~Started(s) => ~Entered(Msg(s))
<1>1. Msg(s) = todo[s][1] /\ 1 \in 1..Len(todo[s])
  BY MsgFacts
<1>2. \A t \in Senders : todo[t] # <<>> => Msg(t) = todo[t][1] /\ 1 \in 1..Len(todo[t])
  BY MsgFacts
<1>3. QED
  BY <1>1, <1>2 DEF Apart

\* Salt, key and context belong to the one thread that encrypts.
LEMMA PreparingEncrypted ==
  ASSUME LinkTypes, Sends, Apart, Encrypted, NEW s \in Senders, Preparing(s)
  PROVE  Encrypted'
<1> SUFFICES ASSUME "overlap" \notin causes'
             PROVE  Encrypted'
  BY DEF Encrypted
<1>1. /\ UNCHANGED <<off, sent, wire, closed, readVars>>
      /\ causes \subseteq causes'
      /\ \A t \in Senders \ {s} : pc'[t] = pc[t] /\ todo'[t] = todo[t]
      /\ pc[s] # "wait" /\ pc'[s] \notin {"wait", "unflag"}
      /\ todo[s] # <<>>
      /\ \/ todo' = todo /\ pc'[s] # "idle" /\ pc[s] # "unflag"
         \/ todo'[s] = Tail(todo[s]) /\ pc'[s] = "idle"
  BY PreparingFacts
<1>2. /\ \A t, u \in Senders : pc[t] \in Encrypting /\ pc[u] \in Encrypting => t = u
      /\ \A t \in Senders : Keyed(t)
      /\ \A i \in 1..Len(sent) : Good(sent[i])
  BY <1>1 DEF Encrypted
<1>3. /\ pc \in [Senders -> Pcs] /\ key \in [Senders -> Keys \cup {NoKey}]
      /\ text \in [Senders -> Ciphertexts] /\ cipher \in Ciphers
      /\ key[s] \in Keys \cup {NoKey}
      /\ frames \in [Msgs -> [salt : Msgs \cup {NoMsg}, text : Ciphertexts]]
      /\ Msg(s) \in Msgs
  BY <1>1, MsgFacts DEF LinkTypes
<1>4. \A t \in Senders \ {s} : Msg(t)' = Msg(t)
  BY <1>1 DEF Msg
<1>5. todo' = todo => Msg(s)' = Msg(s)
  BY DEF Msg
<1>6. /\ RandSalt(cipher, Msg(s)).salt = Msg(s)
      /\ DeriveKey(cipher, Msg(s)) = <<Msg(s), cipher.salt>>
      /\ SetContext(cipher, key[s]).salt = cipher.salt
      /\ SetContext(cipher, key[s]).ctx = [key |-> key[s], fed |-> <<>>]
      /\ Update(cipher, Msg(s)).salt = cipher.salt
      /\ Update(cipher, Msg(s)).ctx
           = [key |-> cipher.ctx.key, fed |-> Append(cipher.ctx.fed, Msg(s))]
  BY <1>3, CipherFacts
<1>7. CASE TimeOut(s) \/ Flag(s) \/ Unflag(s)
  <2>1. UNCHANGED <<cipher, key, text, frames>>
    BY <1>7 DEF TimeOut, Flag, Unflag
  <2>2. pc[s] \notin Encrypting /\ pc'[s] \notin Encrypting
        /\ pc'[s] \notin {"context", "update", "final"}
    BY <1>3, <1>7 DEF TimeOut, Flag, Unflag, Runs, Done, To, Encrypting
  <2>3. pc'[s] = "idle" \/ (pc[s] = "flag" /\ todo' = todo)
    BY <1>3, <1>7 DEF TimeOut, Flag, Unflag, Runs, Done, To
  <2>4. Keyed(s)'
    BY <1>2, <1>5, <2>1, <2>2, <2>3 DEF Keyed, Good
  <2>5. \A t \in Senders \ {s} : Keyed(t)'
    BY <1>1, <1>2, <1>4, <2>1 DEF Keyed, Good
  <2>6. \A t, u \in Senders : pc'[t] \in Encrypting /\ pc'[u] \in Encrypting => t = u
    BY <1>1, <1>2, <2>2
  <2>7. \A i \in 1..Len(sent') : Good(sent[i])'
    BY <1>1, <1>2, <2>1 DEF Good
  <2>8. QED
    BY <2>4, <2>5, <2>6, <2>7 DEF Encrypted
<1>8. CASE Encrypt(s)
  <2>1. \A t \in Senders \ {s} : pc[t] \notin Encrypting
    <3>1. CASE Salt(s)
      BY <1>3, <3>1 DEF Salt, Cause
    <3>2. CASE ~Salt(s)
      BY <1>2, <1>8, <3>2 DEF Encrypt, Derive, Context, EncryptUpdate,
         EncryptFinal, Runs, Encrypting
    <3>3. QED
      BY <3>1, <3>2
  <2>2. todo' = todo
    BY <1>8 DEF Encrypt, Salt, Derive, Context, EncryptUpdate, EncryptFinal
  <2>3. /\ \A t \in Senders \ {s} : todo[t] # <<>> => Msg(t) # Msg(s)
        /\ ~Entered(Msg(s))
    <3>1. pc[s] # "unflag" /\ pc[s] # "wait"
      BY <1>8 DEF Encrypt, Salt, Derive, Context, EncryptUpdate, EncryptFinal, Runs
    <3>2. QED
      BY <1>1, <3>1, OwnMessage DEF Started
  <2>4. \A m \in Msgs \ {Msg(s)} : frames'[m] = frames[m]
    BY <1>3, <1>8 DEF Encrypt, Salt, Derive, Context, EncryptUpdate, EncryptFinal
  <2>5. ASSUME NEW t \in Senders \ {s}
        PROVE  Keyed(t)'
    <3>1. pc'[t] = pc[t] /\ pc[t] \notin Encrypting /\ Keyed(t) /\ Msg(t)' = Msg(t)
      BY <1>1, <1>2, <1>4, <2>1
    <3>2. pc[t] \in {"flag", "send", "wait", "unflag"} => Good(Msg(t))'
      <4>1. SUFFICES ASSUME pc[t] \in {"flag", "send", "wait", "unflag"}
                     PROVE  Good(Msg(t))'
        OBVIOUS
      <4>2. todo[t] # <<>>
        BY <4>1 DEF Sends
      <4>3. Msg(t) \in Msgs /\ Msg(t) # Msg(s)
        BY <2>3, <4>2, MsgFacts
      <4>4. QED
        BY <2>4, <3>1, <4>1, <4>3 DEF Keyed, Good
    <3>3. QED
      BY <3>1, <3>2 DEF Keyed, Encrypting
  <2>6. \A i \in 1..Len(sent') : Good(sent[i])'
    <3>1. ASSUME NEW i \in 1..Len(sent)
          PROVE  sent[i] \in Msgs /\ sent[i] # Msg(s)
      BY <2>3, ElementOfSeq DEF LinkTypes, Entered
    <3>2. QED
      BY <1>1, <1>2, <2>4, <3>1 DEF Good
  <2>7. \A t, u \in Senders : pc'[t] \in Encrypting /\ pc'[u] \in Encrypting => t = u
    BY <1>1, <2>1
  <2>8. Keyed(s)'
    <3>1. CASE Salt(s)
      <4>1. pc'[s] = "derive" /\ cipher'.salt = Msg(s)
        BY <1>3, <1>6, <3>1 DEF Salt, To
      <4>2. QED
        BY <1>5, <2>2, <4>1 DEF Keyed
    <3>2. CASE Derive(s)
      <4>1. pc[s] = "derive" /\ pc'[s] = "context" /\ cipher' = cipher
            /\ key'[s] = <<Msg(s), cipher.salt>>
        BY <1>3, <1>6, <3>2 DEF Derive, To, Runs
      <4>2. cipher.salt = Msg(s)
        BY <1>2, <4>1 DEF Keyed, Encrypting
      <4>3. QED
        BY <1>5, <2>2, <4>1, <4>2 DEF Keyed
    <3>3. CASE Context(s)
      <4>1. pc[s] = "context" /\ pc'[s] = "update" /\ cipher'.salt = cipher.salt
            /\ cipher'.ctx = [key |-> key[s], fed |-> <<>>]
        BY <1>3, <1>6, <3>3 DEF Context, To, Runs
      <4>2. cipher.salt = Msg(s) /\ key[s] = <<Msg(s), Msg(s)>>
        BY <1>2, <4>1 DEF Keyed, Encrypting
      <4>3. QED
        BY <1>5, <2>2, <4>1, <4>2 DEF Keyed
    <3>4. CASE EncryptUpdate(s)
      <4>1. pc[s] = "update"
        BY <3>4 DEF EncryptUpdate, Runs
      <4>2. cipher.salt = Msg(s)
            /\ cipher.ctx = [key |-> <<Msg(s), Msg(s)>>, fed |-> <<>>]
        BY <1>2, <4>1 DEF Keyed, Encrypting
      <4>3. cipher.ctx.key = <<Msg(s), Msg(s)>> /\ cipher.ctx.fed = <<>>
        BY <4>2
      <4>4. cipher.ctx.key # NoKey
        BY <1>3, <4>3, NoMsgAssumption DEF NoKey
      <4>5. pc'[s] = "final" /\ cipher' = Update(cipher, Msg(s))
            /\ text'[s].body = cipher'.ctx
        BY <1>3, <3>4, <4>4 DEF EncryptUpdate, To, Ciphertexts
      <4>6. cipher'.salt = Msg(s) /\ cipher'.ctx = Right(Msg(s))
        BY <1>6, <4>2, <4>3, <4>5 DEF Right
      <4>7. QED
        BY <1>5, <2>2, <4>5, <4>6 DEF Keyed
    <3>5. CASE EncryptFinal(s)
      <4>1. pc[s] = "final"
        BY <3>5 DEF EncryptFinal, Runs
      <4>2. cipher.salt = Msg(s) /\ cipher.ctx = Right(Msg(s))
            /\ text[s].body = Right(Msg(s))
        BY <1>2, <4>1 DEF Keyed, Encrypting
      <4>3. cipher.ctx.key # NoKey
        BY <1>3, <4>2, NoMsgAssumption DEF NoKey, Right
      <4>4. /\ pc'[s] \in {"flag", "send"}
            /\ frames' = [frames EXCEPT ![Msg(s)] =
                            [salt |-> cipher.salt,
                             text |-> [text[s] EXCEPT !.last = cipher.ctx]]]
        BY <1>3, <3>5, <4>3 DEF EncryptFinal, To
      <4>5. [text[s] EXCEPT !.last = cipher.ctx]
              = [body |-> Right(Msg(s)), last |-> Right(Msg(s))]
        BY <1>3, <4>2 DEF Ciphertexts
      <4>6. Good(Msg(s))'
        BY <1>3, <1>5, <2>2, <4>2, <4>4, <4>5 DEF Good, Right
      <4>7. QED
        BY <1>5, <2>2, <4>4, <4>6 DEF Keyed, Encrypting
    <3>6. QED
      BY <1>8, <3>1, <3>2, <3>3, <3>4, <3>5 DEF Encrypt
  <2>9. QED
    BY <2>5, <2>6, <2>7, <2>8 DEF Encrypted
<1>9. QED
  BY <1>7, <1>8 DEF Preparing

-----------------------------------------------------------------------------
\* The thread in send

\* After a call of send the thread waits for room for the rest of the frame,
\* or it is done with the frame, which then was taken whole or cut short.
LEMMA SendingOutcome ==
  ASSUME LinkTypes, Bounds, Sends, NEW s \in Senders, Send(s) \/ SendOn(s)
  PROVE  LET n == Len(Taken(s, off[s]))
         IN  /\ \/ /\ pc'[s] = "wait" /\ todo' = todo
                   /\ off'[s] = off[s] + n /\ off[s] + n < FrameLen(Msg(s))
                \/ /\ off'[s] = 0
                   /\ \/ pc'[s] = "unflag" /\ todo' = todo
                      \/ pc'[s] = "idle" /\ todo'[s] = Tail(todo[s])
                   /\ off[s] + n = FrameLen(Msg(s)) \/ "truncated" \in causes'
             /\ \A t \in Senders \ {s} :
                  pc'[t] = pc[t] /\ todo'[t] = todo[t] /\ off'[t] = off[t]
             /\ causes \subseteq causes'
             /\ causes' \ causes \subseteq {"interleaved", "truncated"}
             /\ "interleaved" \notin causes' =>
                  \A t \in Senders : pc[t] = "wait" => t = s
             /\ pc[s] \in {"send", "wait"}
             /\ UNCHANGED <<cipher, key, text, frames, nonblock, status>>
<1> DEFINE n == Len(Taken(s, off[s]))
<1>1. /\ off[s] \in Nat /\ n \in Nat /\ n <= FrameLen(Msg(s)) - off[s]
      /\ Send(s) => off[s] = 0
      /\ FrameLen(Msg(s)) \in Nat
  BY SendingFacts, Frames
<1>2. /\ pc \in [Senders -> Pcs] /\ todo \in [Senders -> Seq(Msgs)]
      /\ off \in [Senders -> Nat]
  BY DEF LinkTypes
<1>3. SendReturns(s) =>
        /\ \/ pc'[s] = "unflag" /\ todo' = todo
           \/ pc'[s] = "idle" /\ todo'[s] = Tail(todo[s])
        /\ \A t \in Senders \ {s} : pc'[t] = pc[t] /\ todo'[t] = todo[t]
  BY <1>2 DEF SendReturns, Done, To
<1>4. CASE Send(s)
  <2>1. pc[s] = "send" /\ n = Len(Taken(s, 0))
        /\ UNCHANGED <<cipher, key, text, frames, nonblock, status>>
    BY <1>1, <1>4 DEF Send, Runs
  <2>2. causes' = causes \cup (IF Waiting # {} THEN {"interleaved"} ELSE {})
                         \cup (IF nonblock /\ n # FrameLen(Msg(s))
                               THEN {"truncated"} ELSE {})
    BY <1>4, <2>1 DEF Send
  <2>3. IF n = FrameLen(Msg(s)) \/ nonblock
        THEN SendReturns(s) /\ UNCHANGED off
        ELSE off' = [off EXCEPT ![s] = n] /\ To(s, "wait") /\ UNCHANGED todo
    BY <1>4, <2>1 DEF Send
  <2> HIDE DEF n
  <2>4. causes \subseteq causes' /\ causes' \ causes \subseteq {"interleaved", "truncated"}
        /\ ("interleaved" \notin causes' => \A t \in Senders : pc[t] = "wait" => t = s)
    BY <2>2 DEF Waiting
  <2>5. CASE n = FrameLen(Msg(s)) \/ nonblock
    <3>1. SendReturns(s) /\ UNCHANGED off
      BY <2>3, <2>5
    <3>2. off[s] + n = FrameLen(Msg(s)) \/ "truncated" \in causes'
      BY <1>1, <1>4, <2>2, <2>5
    <3>3. QED
      BY <1>1, <1>3, <1>4, <2>1, <2>4, <3>1, <3>2 DEF n
  <2>6. CASE ~(n = FrameLen(Msg(s)) \/ nonblock)
    <3>1. off' = [off EXCEPT ![s] = n] /\ To(s, "wait") /\ UNCHANGED todo
      BY <2>3, <2>6
    <3>2. /\ pc'[s] = "wait" /\ off'[s] = off[s] + n /\ off[s] + n < FrameLen(Msg(s))
          /\ \A t \in Senders \ {s} :
               pc'[t] = pc[t] /\ todo'[t] = todo[t] /\ off'[t] = off[t]
      BY <1>1, <1>2, <1>4, <2>6, <3>1 DEF To
    <3>3. QED
      BY <2>1, <2>4, <3>1, <3>2 DEF n
  <2>7. QED
    BY <2>5, <2>6
<1>5. CASE SendOn(s)
  <2>1. pc[s] = "wait" /\ UNCHANGED <<cipher, key, text, frames, nonblock, status>>
    BY <1>5 DEF SendOn, Runs
  <2>2. causes' = IF Waiting # {s} THEN causes \cup {"interleaved"} ELSE causes
    BY <1>5 DEF SendOn, Cause
  <2>3. IF off[s] + n = FrameLen(Msg(s))
        THEN SendReturns(s) /\ off' = [off EXCEPT ![s] = 0]
        ELSE off' = [off EXCEPT ![s] = @ + n] /\ UNCHANGED <<pc, todo>>
    BY <1>5 DEF SendOn
  <2> HIDE DEF n
  <2>4. causes \subseteq causes' /\ causes' \ causes \subseteq {"interleaved", "truncated"}
        /\ ("interleaved" \notin causes' => \A t \in Senders : pc[t] = "wait" => t = s)
    BY <2>2 DEF Waiting
  <2>5. CASE off[s] + n = FrameLen(Msg(s))
    BY <1>2, <1>3, <2>1, <2>3, <2>4, <2>5 DEF n
  <2>6. CASE off[s] + n # FrameLen(Msg(s))
    <3>1. off' = [off EXCEPT ![s] = off[s] + n] /\ UNCHANGED <<pc, todo>>
      BY <2>3, <2>6
    <3>2. /\ off'[s] = off[s] + n
          /\ \A t \in Senders \ {s} : off'[t] = off[t]
      BY <1>2, <3>1
    <3>3. off[s] + n < FrameLen(Msg(s))
      BY <1>1, <2>6 DEF n
    <3>4. QED
      BY <2>1, <2>4, <3>1, <3>2, <3>3 DEF n
  <2>7. QED
    BY <2>5, <2>6
<1>6. QED
  BY <1>4, <1>5

\* A message that enters the stream comes after all that are in it.
LEMMA BeforeGrows ==
  ASSUME sent \in Seq(Msgs), NEW m \in Msgs,
         sent' = sent \/ (sent' = Append(sent, m) /\ ~Entered(m))
  PROVE  /\ \A a, b : Entered(a) /\ Before(a, b) => Before(a, b)'
         /\ \A a : Entered(a) => Entered(a)'
         /\ \A a : Entered(a)' => Entered(a) \/ (a = m /\ sent' = Append(sent, m))
         /\ sent' = Append(sent, m) =>
              /\ Entered(m)' /\ Len(sent') = Len(sent) + 1
              /\ sent'[Len(sent')] = m
              /\ \A a : Entered(a) => Before(a, m)'
         /\ \A i \in 1..Len(sent) : i \in 1..Len(sent') /\ sent'[i] = sent[i]
<1>1. CASE sent' = sent
  BY <1>1, AppendProperties DEF Entered, Before
<1>2. CASE sent' = Append(sent, m) /\ ~Entered(m)
  <2>1. /\ Len(sent) \in Nat /\ Len(sent') = Len(sent) + 1
        /\ \A i \in 1..Len(sent) : i \in 1..Len(sent') /\ sent'[i] = sent[i]
        /\ sent'[Len(sent) + 1] = m
    BY <1>2, AppendProperties
  <2>2. \A i \in 1..Len(sent') : i \in 1..Len(sent) \/ i = Len(sent) + 1
    BY <2>1
  <2>3. \A a : Entered(a) => a # m
    BY <1>2
  <2>4. \A a : Entered(a)' => Entered(a) \/ a = m
    BY <2>1, <2>2 DEF Entered
  <2>5. (\A a : Entered(a) => Entered(a)') /\ Entered(m)'
    BY <2>1 DEF Entered
  <2>6. ASSUME NEW a, Entered(a), NEW b, Before(a, b) \/ b = m
        PROVE  Before(a, b)'
    <3> SUFFICES ASSUME NEW i \in 1..Len(sent'), NEW j \in 1..Len(sent'),
                        sent'[i] = a, sent'[j] = b
                 PROVE  i < j
      BY DEF Before
    <3>1. i \in 1..Len(sent) /\ sent[i] = a
      BY <2>1, <2>2, <2>3, <2>6
    <3>2. CASE j \in 1..Len(sent)
      <4>1. sent[j] = b /\ b # m
        BY <2>1, <3>2 DEF Entered
      <4>2. QED
        BY <2>6, <3>1, <3>2, <4>1 DEF Before
    <3>3. CASE j = Len(sent) + 1
      BY <2>1, <3>1, <3>3
    <3>4. QED
      BY <2>2, <3>2, <3>3
  <2>7. QED
    BY <1>2, <2>1, <2>3, <2>4, <2>5, <2>6
<1>3. QED
  BY <1>1, <1>2


\* The stream gets the message of s, or what it has of it stays.
LEMMA SendingSent ==
  ASSUME LinkTypes, Bounds, Sends, Apart, NEW s \in Senders, Send(s) \/ SendOn(s)
  PROVE  LET n == Len(Taken(s, off[s]))
         IN  /\ sent' = sent \/ (sent' = Append(sent, Msg(s)) /\ ~Entered(Msg(s)))
             /\ off[s] = 0 => ~Entered(Msg(s))
             /\ off[s] > 0 => Entered(Msg(s)) /\ sent' = sent
             /\ n > 0 => \E k \in 1..Len(sent') : sent'[k] = Msg(s)
             /\ n > 0 /\ off[s] = 0 => sent' = Append(sent, Msg(s))
             /\ n = 0 => sent' = sent
<1> DEFINE n == Len(Taken(s, off[s]))
<1>1. /\ todo[s] # <<>> /\ Msg(s) \in Msgs /\ off[s] \in Nat /\ n \in Nat
      /\ sent' = IF off[s] = 0 /\ n > 0 THEN Append(sent, Msg(s)) ELSE sent
  BY SendingFacts
<1>2. pc[s] \in {"send", "wait"}
  BY SendingOutcome
<1> HIDE DEF n
<1>3. off[s] = 0 => ~Entered(Msg(s))
  BY <1>1, <1>2, OwnMessage DEF Started
<1>4. off[s] > 0 => Entered(Msg(s))
  BY <1>1, <1>2 DEF Sends
<1>5. sent' = sent \/ (sent' = Append(sent, Msg(s)) /\ ~Entered(Msg(s)))
  BY <1>1, <1>3
<1>6. n > 0 => \E k \in 1..Len(sent') : sent'[k] = Msg(s)
  <2>1. CASE off[s] = 0
    BY <1>1, <2>1, AppendProperties DEF LinkTypes
  <2>2. CASE off[s] > 0
    BY <1>1, <1>4, <2>2 DEF Entered
  <2>3. QED
    BY <1>1, <2>1, <2>2
<1>7. QED
  BY <1>1, <1>3, <1>4, <1>5, <1>6 DEF n

\* What a thread still has to send and what the stream has stay apart.
LEMMA SendingKeepsApart ==
  ASSUME LinkTypes, Bounds, Sends, Apart, Known, NEW s \in Senders,
         Send(s) \/ SendOn(s)
  PROVE  Sends' /\ Apart' /\ Known'
<1> DEFINE n == Len(Taken(s, off[s]))
<1>1. /\ todo[s] # <<>> /\ Msg(s) \in Msgs /\ off[s] \in Nat /\ n \in Nat
      /\ n <= FrameLen(Msg(s)) - off[s] /\ FrameLen(Msg(s)) \in Nat
      /\ FrameLen(Msg(s)) >= 3
      /\ wire' \in Seq(Units) /\ Len(wire') = Len(wire) + n
      /\ \A i \in 1..Len(wire) : wire'[i] = wire[i]
      /\ \A i \in 1..n : wire'[Len(wire) + i] = <<Msg(s), off[s] + i>>
      /\ UNCHANGED readVars
      /\ SendOn(s) => n > 0
  BY SendingFacts, Frames
<1>2. /\ \/ /\ pc'[s] = "wait" /\ todo' = todo
            /\ off'[s] = off[s] + n /\ off[s] + n < FrameLen(Msg(s))
         \/ /\ off'[s] = 0
            /\ \/ pc'[s] = "unflag" /\ todo' = todo
               \/ pc'[s] = "idle" /\ todo'[s] = Tail(todo[s])
      /\ \A t \in Senders \ {s} :
           pc'[t] = pc[t] /\ todo'[t] = todo[t] /\ off'[t] = off[t]
      /\ pc[s] \in {"send", "wait"}
  BY SendingOutcome
<1>3. /\ sent' = sent \/ (sent' = Append(sent, Msg(s)) /\ ~Entered(Msg(s)))
      /\ off[s] = 0 => ~Entered(Msg(s))
      /\ off[s] > 0 => Entered(Msg(s)) /\ sent' = sent
      /\ n > 0 => \E k \in 1..Len(sent') : sent'[k] = Msg(s)
      /\ n = 0 => sent' = sent
  BY SendingSent
<1>4. sent \in Seq(Msgs) /\ Len(sent) \in Nat /\ wire \in Seq(Units) /\ Len(wire) \in Nat
  BY DEF LinkTypes
<1>5. /\ \A a : Entered(a) => Entered(a)'
      /\ \A a : Entered(a)' => Entered(a) \/ (a = Msg(s) /\ sent' = Append(sent, Msg(s)))
  BY <1>1, <1>3, <1>4, BeforeGrows
<1>6. /\ Msg(s) = todo[s][1] /\ Len(todo[s]) \in Nat \ {0}
      /\ Len(Tail(todo[s])) = Len(todo[s]) - 1
      /\ \A i \in 1..(Len(todo[s]) - 1) : Tail(todo[s])[i] = todo[s][i + 1]
  BY <1>1, MsgFacts
<1> HIDE DEF n
<1>7. Sends'
  <2>1. ASSUME NEW t \in Senders \ {s}
        PROVE  /\ pc'[t] # "idle" => todo'[t] # <<>>
               /\ pc'[t] # "wait" => off'[t] = 0
               /\ pc'[t] = "wait" => off'[t] < FrameLen(Msg(t))'
               /\ pc'[t] = "wait" /\ off'[t] > 0 => Entered(Msg(t))'
    <3>1. Msg(t)' = Msg(t)
      BY <1>2 DEF Msg
    <3>2. FrameLen(Msg(t))' = FrameLen(Msg(t))
      BY <3>1 DEF FrameLen
    <3>3. Entered(Msg(t)) => Entered(Msg(t))'
      BY <1>5, <3>1 DEF Entered
    <3>4. QED
      BY <1>2, <3>1, <3>2, <3>3 DEF Sends
  <2>2. /\ pc'[s] # "idle" => todo'[s] # <<>>
        /\ pc'[s] # "wait" => off'[s] = 0
        /\ pc'[s] = "wait" => off'[s] < FrameLen(Msg(s))'
        /\ pc'[s] = "wait" /\ off'[s] > 0 => Entered(Msg(s))'
    <3>1. CASE pc'[s] = "wait"
      <4>1. /\ todo' = todo /\ off'[s] = off[s] + n /\ off[s] + n < FrameLen(Msg(s))
        BY <1>2, <3>1
      <4>2. Msg(s)' = Msg(s) /\ FrameLen(Msg(s))' = FrameLen(Msg(s))
        BY <4>1 DEF Msg, FrameLen
      <4>3. off'[s] > 0 => Entered(Msg(s))'
        <5>1. off'[s] > 0 => n > 0 \/ off[s] > 0
          BY <1>1, <4>1
        <5>2. off[s] > 0 => \E k \in 1..Len(sent') : sent'[k] = Msg(s)
          BY <1>3 DEF Entered
        <5>3. QED
          BY <1>3, <4>2, <5>1, <5>2 DEF Entered
      <4>4. QED
        BY <1>1, <3>1, <4>1, <4>2, <4>3
    <3>2. CASE pc'[s] # "wait"
      BY <1>1, <1>2, <3>2
    <3>3. QED
      BY <3>1, <3>2
  <2>3. QED
    BY <2>1, <2>2 DEF Sends
<1>8. Apart'
  <2>1. ASSUME NEW t \in Senders, NEW i \in 1..Len(todo'[t])
        PROVE  \E k \in 1..Len(todo[t]) :
                 /\ todo'[t][i] = todo[t][k]
                 /\ k = i \/ (t = s /\ todo'[s] = Tail(todo[s]) /\ k = i + 1)
    <3>1. CASE t = s /\ todo'[s] = Tail(todo[s])
      <4>1. i + 1 \in 1..Len(todo[s]) /\ todo'[s][i] = todo[s][i + 1]
        BY <1>6, <3>1
      <4>2. QED
        BY <3>1, <4>1
    <3>2. CASE todo'[t] = todo[t]
      BY <3>2
    <3>3. QED
      BY <1>2, <3>1, <3>2
  <2>2. ASSUME NEW t \in Senders, NEW u \in Senders,
               NEW i \in 1..Len(todo'[t]), NEW j \in 1..Len(todo'[u]),
               todo'[t][i] = todo'[u][j]
        PROVE  t = u /\ i = j
    <3>1. CASE todo'[s] = Tail(todo[s]) /\ (t = s \/ u = s)
      <4>1. t = u
        <5>1. PICK k \in 1..Len(todo[t]) : todo'[t][i] = todo[t][k]
          BY <2>1
        <5>2. PICK l \in 1..Len(todo[u]) : todo'[u][j] = todo[u][l]
          BY <2>1
        <5>3. todo[t][k] = todo[u][l]
          BY <2>2, <5>1, <5>2
        <5>4. QED
          BY <5>3 DEF Apart
      <4>2. /\ i + 1 \in 1..Len(todo[s]) /\ todo'[s][i] = todo[s][i + 1]
            /\ j + 1 \in 1..Len(todo[s]) /\ todo'[s][j] = todo[s][j + 1]
        <5>1. i \in 1..(Len(todo[s]) - 1) /\ j \in 1..(Len(todo[s]) - 1)
          BY <1>6, <3>1, <4>1
        <5>2. QED
          BY <1>6, <3>1, <5>1
      <4>3. todo[s][i + 1] = todo[s][j + 1]
        BY <2>2, <3>1, <4>1, <4>2
      <4>4. i + 1 = j + 1
        BY <4>2, <4>3 DEF Apart
      <4>5. QED
        BY <4>1, <4>4
    <3>2. CASE todo'[t] = todo[t] /\ todo'[u] = todo[u]
      BY <2>2, <3>2 DEF Apart
    <3>3. QED
      BY <1>2, <3>1, <3>2
  <2>3. ASSUME NEW t \in Senders \ {s}, NEW i \in 1..Len(todo'[t]),
               i > 1 \/ ~Started(t)'
        PROVE  ~Entered(todo[t][i])'
    <3>1. todo'[t] = todo[t] /\ (Started(t)' <=> Started(t))
      BY <1>2 DEF Started
    <3>2. ~Entered(todo[t][i])
      BY <2>3, <3>1 DEF Apart
    <3>3. todo[t][i] # Msg(s)
      BY <1>6, <3>1 DEF Apart
    <3>4. ~Entered(todo[t][i]) => ~Entered(todo'[t][i])
      BY <3>1
    <3>5. \A a : ~Entered(a) /\ a # Msg(s) => ~(\E k \in 1..Len(sent') : sent'[k] = a)
      BY <1>5 DEF Entered
    <3>6. QED
      BY <3>1, <3>2, <3>3, <3>5 DEF Entered
  <2>4. ASSUME NEW i \in 1..Len(todo'[s]), i > 1 \/ ~Started(s)'
        PROVE  ~Entered(todo[s][i])'
    <3> DEFINE NotIn(a) == ~(\E k \in 1..Len(sent') : sent'[k] = a)
    <3>1. \A a : ~Entered(a) /\ a # Msg(s) => NotIn(a)
      BY <1>5 DEF Entered
    <3>2. \A k \in 2..Len(todo[s]) : ~Entered(todo[s][k]) /\ todo[s][k] # Msg(s)
      BY <1>6 DEF Apart
    <3>3. NotIn(todo'[s][i])
      <4>1. CASE todo'[s] = Tail(todo[s])
        <5>1. i + 1 \in 2..Len(todo[s]) /\ todo'[s][i] = todo[s][i + 1]
          BY <1>6, <4>1
        <5>2. QED
          BY <3>1, <3>2, <5>1
      <4>2. CASE todo' = todo /\ i > 1
        BY <1>6, <3>1, <3>2, <4>2
      <4>3. CASE todo' = todo /\ i = 1
        <5>1. ~Started(s)'
          BY <2>4, <4>3
        <5>2. todo'[s] # Tail(todo[s])
          <6>1. Len(todo'[s]) = Len(todo[s])
            BY <4>3
          <6>2. Len(Tail(todo[s])) # Len(todo[s])
            BY <1>6
          <6>3. QED
            BY <6>1, <6>2
        <5>3. pc'[s] = "wait" /\ ~(off'[s] > 0) /\ off'[s] = off[s] + n
          BY <1>2, <5>1, <5>2 DEF Started
        <5>4. n = 0 /\ off[s] = 0
          BY <1>1, <5>3
        <5>5. ~Entered(Msg(s)) /\ sent' = sent
          BY <1>3, <5>4
        <5>6. QED
          BY <1>6, <4>3, <5>5 DEF Entered
      <4>4. QED
        BY <1>2, <4>1, <4>2, <4>3
    <3>4. QED
      BY <3>3 DEF Entered
  <2>5. \A i, j \in 1..Len(sent') : sent'[i] = sent'[j] => i = j
    <3>1. CASE sent' = sent
      BY <3>1 DEF Apart
    <3>2. CASE sent' = Append(sent, Msg(s)) /\ ~Entered(Msg(s))
      <4>1. /\ Len(sent') = Len(sent) + 1 /\ sent'[Len(sent) + 1] = Msg(s)
            /\ \A i \in 1..Len(sent) : sent'[i] = sent[i] /\ sent[i] # Msg(s)
        BY <1>1, <1>4, <3>2, AppendProperties DEF Entered
      <4>2. QED
        BY <1>4, <4>1 DEF Apart
    <3>3. QED
      BY <1>3, <3>1, <3>2
  <2>6. QED
    BY <2>2, <2>3, <2>4, <2>5 DEF Apart
<1>9. Known'
  <2>1. \A u : Whole(u) => Whole(u)'
    BY <1>5 DEF Whole, FrameLen
  <2>2. ASSUME NEW i \in 1..Len(wire')
        PROVE  Whole(wire'[i])
                 \/ (wire'[i][2] \in 1..FrameLen(wire'[i][1]) /\ n > 0
                     /\ wire'[i][1] = Msg(s))
    <3>1. CASE i \in 1..Len(wire)
      BY <1>1, <3>1 DEF Known
    <3>2. CASE i \notin 1..Len(wire)
      <4>1. i - Len(wire) \in 1..n /\ Len(wire) + (i - Len(wire)) = i
        BY <1>1, <1>4, <3>2
      <4>2. wire'[i] = <<Msg(s), off[s] + (i - Len(wire))>> /\ n > 0
        <5>1. wire'[Len(wire) + (i - Len(wire))] = <<Msg(s), off[s] + (i - Len(wire))>>
          BY <1>1, <4>1
        <5>2. QED
          BY <1>1, <4>1, <5>1
      <4>3. off[s] + (i - Len(wire)) \in 1..FrameLen(Msg(s))
        BY <1>1, <4>1
      <4>4. QED
        BY <4>2, <4>3
    <3>3. QED
      BY <3>1, <3>2
  <2>3. ASSUME NEW i \in 1..Len(wire')
        PROVE  (Whole(wire[i]))'
    <3>1. \A a : Entered(a) => \E k \in 1..Len(sent') : sent'[k] = a
      BY <1>5 DEF Entered
    <3>2. /\ wire'[i][2] \in 1..FrameLen(wire'[i][1])
          /\ \E k \in 1..Len(sent') : sent'[k] = wire'[i][1]
      BY <1>3, <2>2, <3>1 DEF Whole
    <3>3. QED
      BY <3>2 DEF Whole, Entered, FrameLen
  <2>4. UNCHANGED <<enc, buf, got>>
    BY <1>1 DEF readVars
  <2>5. QED
    BY <1>5, <2>1, <2>3, <2>4 DEF Known
<1>10. QED
  BY <1>7, <1>8, <1>9


\* A frame that enters the stream was encrypted under its own salt.
LEMMA SendingEncrypted ==
  ASSUME LinkTypes, Bounds, Sends, Apart, Encrypted, NEW s \in Senders,
         Send(s) \/ SendOn(s)
  PROVE  Encrypted'
<1> SUFFICES ASSUME "overlap" \notin causes'
             PROVE  Encrypted'
  BY DEF Encrypted
<1>1. /\ \/ pc'[s] = "wait" /\ todo' = todo
         \/ pc'[s] = "unflag" /\ todo' = todo
         \/ pc'[s] = "idle"
      /\ \A t \in Senders \ {s} : pc'[t] = pc[t] /\ todo'[t] = todo[t]
      /\ causes \subseteq causes' /\ pc[s] \in {"send", "wait"}
      /\ UNCHANGED <<cipher, key, text, frames>>
  BY SendingOutcome
<1>2. /\ \A t, u \in Senders : pc[t] \in Encrypting /\ pc[u] \in Encrypting => t = u
      /\ \A t \in Senders : Keyed(t)
      /\ \A i \in 1..Len(sent) : Good(sent[i])
  BY <1>1 DEF Encrypted
<1>3. pc'[s] \notin Encrypting /\ Good(Msg(s))
  BY <1>1, <1>2 DEF Encrypting, Keyed
<1>4. \A t, u \in Senders : pc'[t] \in Encrypting /\ pc'[u] \in Encrypting => t = u
  BY <1>1, <1>2, <1>3
<1>5. \A t \in Senders \ {s} : Keyed(t)'
  BY <1>1, <1>2 DEF Keyed, Good, Msg
<1>6. Keyed(s)'
  <2>1. todo' = todo => Msg(s)' = Msg(s)
    BY DEF Msg
  <2>2. QED
    BY <1>1, <1>3, <2>1 DEF Keyed, Good, Encrypting
<1>7. \A i \in 1..Len(sent') : Good(sent[i])'
  <2>1. sent' = sent \/ sent' = Append(sent, Msg(s))
    BY SendingSent
  <2>2. CASE sent' = sent
    BY <1>1, <1>2, <2>2 DEF Good
  <2>3. CASE sent' = Append(sent, Msg(s))
    <3>1. /\ Len(sent) \in Nat /\ Len(sent') = Len(sent) + 1
          /\ sent'[Len(sent) + 1] = Msg(s)
          /\ \A i \in 1..Len(sent) : sent'[i] = sent[i]
      BY <2>3, SendingFacts, AppendProperties DEF LinkTypes
    <3>2. QED
      BY <1>1, <1>2, <1>3, <3>1 DEF Good
  <2>4. QED
    BY <2>1, <2>2, <2>3
<1>8. QED
  BY <1>4, <1>5, <1>6, <1>7 DEF Encrypted

\* The headers on the wire stay in the order of the stream, and behind what
\* read_thread has.
LEMMA SendingOrdered ==
  ASSUME LinkTypes, Bounds, Sends, Apart, Known, Headers, Ordered,
         NEW s \in Senders, Send(s) \/ SendOn(s)
  PROVE  Headers' /\ Ordered'
<1> DEFINE n == Len(Taken(s, off[s]))
<1>1. /\ Msg(s) \in Msgs /\ off[s] \in Nat /\ n \in Nat
      /\ Len(wire') = Len(wire) + n
      /\ \A i \in 1..Len(wire) : wire'[i] = wire[i]
      /\ \A i \in 1..n : wire'[Len(wire) + i] = <<Msg(s), off[s] + i>>
      /\ UNCHANGED readVars
  BY SendingFacts
<1>2. causes \subseteq causes'
  BY SendingOutcome
<1>3. /\ sent' = sent \/ (sent' = Append(sent, Msg(s)) /\ ~Entered(Msg(s)))
      /\ n > 0 /\ off[s] = 0 => sent' = Append(sent, Msg(s)) /\ ~Entered(Msg(s))
  BY SendingSent
<1>4. sent \in Seq(Msgs) /\ Len(wire) \in Nat
  BY DEF LinkTypes
<1> HIDE DEF n
<1>5. /\ \A a, b : Entered(a) /\ Before(a, b) => Before(a, b)'
      /\ n > 0 /\ off[s] = 0 =>
           \A a, b : Entered(a) /\ b = Msg(s) => Before(a, b)'
  BY <1>1, <1>3, <1>4, BeforeGrows
<1>6. UNCHANGED <<enc, rpc, got>>
  BY <1>1 DEF readVars
\* A header on the wire is an old one, or it is the first unit taken now.
<1>7. ASSUME NEW j \in 1..Len(wire'), wire'[j][2] = 1
      PROVE  \/ j \in 1..Len(wire) /\ wire'[j] = wire[j]
             \/ j = Len(wire) + 1 /\ wire'[j][1] = Msg(s) /\ n > 0 /\ off[s] = 0
  <2>1. CASE j \in 1..Len(wire)
    BY <1>1, <2>1
  <2>2. CASE j \notin 1..Len(wire)
    <3>1. j - Len(wire) \in 1..n /\ Len(wire) + (j - Len(wire)) = j
      BY <1>1, <1>4, <2>2
    <3>2. wire'[j] = <<Msg(s), off[s] + (j - Len(wire))>>
      <4>1. wire'[Len(wire) + (j - Len(wire))] = <<Msg(s), off[s] + (j - Len(wire))>>
        BY <1>1, <3>1
      <4>2. QED
        BY <3>1, <4>1
    <3>3. off[s] + (j - Len(wire)) = 1
      BY <1>7, <3>2
    <3>4. QED
      BY <1>1, <1>4, <3>1, <3>2, <3>3
  <2>3. QED
    BY <2>1, <2>2
\* What is before every header on the wire is before those that come now.
<1>8. ASSUME NEW a, Entered(a), NEW j \in 1..Len(wire'), wire'[j][2] = 1,
             j \in 1..Len(wire) => Before(a, wire[j][1])
      PROVE  Before(a, wire[j][1])'
  <2>1. \A b : b = wire'[j][1] => Before(a, b)'
    <3>1. CASE j \in 1..Len(wire) /\ wire'[j] = wire[j]
      BY <1>5, <1>8, <3>1
    <3>2. CASE j = Len(wire) + 1 /\ wire'[j][1] = Msg(s) /\ n > 0 /\ off[s] = 0
      BY <1>5, <1>8, <3>2
    <3>3. QED
      BY <1>7, <1>8, <3>1, <3>2
  <2>2. QED
    BY <2>1 DEF Before
<1>9. Headers'
  <2>1. ASSUME NEW i \in 1..Len(wire'), NEW j \in 1..Len(wire'),
               i < j, wire'[i][2] = 1, wire'[j][2] = 1
        PROVE  Before(wire[i][1], wire[j][1])'
    <3>1. i \in 1..Len(wire) /\ wire'[i] = wire[i]
      BY <1>1, <1>4, <1>7, <2>1
    <3>2. Entered(wire[i][1])
      BY <3>1 DEF Known, Whole
    <3>3. j \in 1..Len(wire) => wire[j][2] = 1
      BY <1>1, <2>1
    <3>4. j \in 1..Len(wire) => Before(wire[i][1], wire[j][1])
      BY <2>1, <3>1, <3>3 DEF Headers
    <3>5. \A a : a = wire[i][1] => Before(a, wire[j][1])'
      BY <1>8, <2>1, <3>2, <3>4
    <3>6. QED
      BY <3>1, <3>5 DEF Before
  <2>2. ASSUME rpc \in {"body", "decrypt"}, NEW j \in 1..Len(wire'), wire'[j][2] = 1
        PROVE  Before(enc[1][1], wire[j][1])'
    <3>1. Entered(enc[1][1])
      BY <2>2 DEF Headers, Known, Whole
    <3>2. j \in 1..Len(wire) => Before(enc[1][1], wire[j][1])
      BY <1>1, <2>2 DEF Headers
    <3>3. \A a : a = enc[1][1] => Before(a, wire[j][1])'
      BY <1>8, <2>2, <3>1, <3>2
    <3>4. QED
      BY <1>6, <3>3 DEF Before
  <2>3. QED
    BY <1>6, <2>1, <2>2 DEF Headers
<1>10. Ordered'
  <2> SUFFICES ASSUME "overlap" \notin causes'
               PROVE  Ordered'
    BY DEF Ordered
  <2>1. /\ \A i, j \in 1..Len(got) :
             i < j /\ got[i] # Garbage /\ got[j] # Garbage => Before(got[i], got[j])
        /\ \A i \in 1..Len(got), j \in 1..Len(wire) :
             got[i] # Garbage /\ wire[j][2] = 1 => Before(got[i], wire[j][1])
        /\ rpc \in {"body", "decrypt"} =>
             \A i \in 1..Len(got) : got[i] # Garbage => Before(got[i], enc[1][1])
    BY <1>2 DEF Ordered
  <2>2. \A i \in 1..Len(got) : got[i] # Garbage => Entered(got[i])
    BY DEF Known
  <2>3. \A a, b : Entered(a) /\ Before(a, b) => Before(a, b)'
    BY <1>5
  <2>4. ASSUME NEW i \in 1..Len(got), NEW j \in 1..Len(got),
               i < j, got[i] # Garbage, got[j] # Garbage
        PROVE  Before(got[i], got[j])'
    <3>1. \A a, b : a = got[i] /\ b = got[j] => Before(a, b)'
      BY <2>1, <2>2, <2>3, <2>4
    <3>2. QED
      BY <1>6, <3>1 DEF Before
  <2>5. rpc \in {"body", "decrypt"} =>
          \A i \in 1..Len(got) : got[i] # Garbage => Before(got[i], enc[1][1])'
    BY <1>6, <2>1, <2>2, <2>3 DEF Before
  <2>6. ASSUME NEW i \in 1..Len(got), NEW j \in 1..Len(wire'),
               got[i] # Garbage, wire'[j][2] = 1
        PROVE  Before(got[i], wire[j][1])'
    <3>1. j \in 1..Len(wire) => Before(got[i], wire[j][1])
      BY <1>1, <2>1, <2>6
    <3>2. \A a : a = got[i] => Before(a, wire[j][1])'
      BY <1>8, <2>2, <2>6, <3>1
    <3>3. QED
      BY <1>6, <3>2 DEF Before
  <2>7. QED
    BY <1>6, <2>4, <2>5, <2>6 DEF Ordered
<1>11. QED
  BY <1>9, <1>10


\* An undisturbed stream gets the next units of the frame at its end.
LEMMA SendingStreaming ==
  ASSUME LinkTypes, Bounds, Sends, Apart, Known, Streaming, NEW s \in Senders,
         Send(s) \/ SendOn(s)
  PROVE  Streaming'
<1> SUFFICES ASSUME causes' = {}
             PROVE  Streaming'
  BY DEF Streaming
<1> DEFINE n == Len(Taken(s, off[s]))
           m == Msg(s)
           L == Len(wire)
<1>1. /\ todo[s] # <<>> /\ m \in Msgs /\ off[s] \in Nat /\ n \in Nat
      /\ n <= FrameLen(m) - off[s] /\ FrameLen(m) \in Nat
      /\ wire' \in Seq(Units) /\ Len(wire') = L + n
      /\ \A i \in 1..L : wire'[i] = wire[i]
      /\ \A i \in 1..n : wire'[L + i] = <<m, off[s] + i>>
      /\ UNCHANGED readVars /\ closed = "no" /\ closed' = "no"
  BY SendingFacts, Frames
<1>2. /\ \/ /\ pc'[s] = "wait" /\ todo' = todo
            /\ off'[s] = off[s] + n /\ off[s] + n < FrameLen(m)
         \/ pc'[s] # "wait" /\ off[s] + n = FrameLen(m)
      /\ \A t \in Senders \ {s} :
           pc'[t] = pc[t] /\ todo'[t] = todo[t] /\ off'[t] = off[t]
      /\ causes = {}
      /\ \A t \in Senders : pc[t] = "wait" => t = s
      /\ pc[s] \in {"send", "wait"}
  BY SendingOutcome
<1>3. /\ Joined /\ Reader /\ Turns /\ (rpc # "gone" => Beginning /\ Ending)
  BY <1>2 DEF Streaming
<1>4. Beginning /\ Ending /\ rpc # "gone"
  BY <1>1, <1>3 DEF Turns
<1>5. /\ sent' = sent \/ (sent' = Append(sent, m) /\ ~Entered(m))
      /\ off[s] > 0 => Entered(m) /\ sent' = sent
      /\ n > 0 /\ off[s] = 0 => sent' = Append(sent, m)
      /\ n = 0 => sent' = sent
      /\ off[s] = 0 => ~Entered(m)
  BY SendingSent
<1>6. /\ sent \in Seq(Msgs) /\ Len(sent) \in Nat /\ L \in Nat /\ wire \in Seq(Units)
      /\ got \in Seq(Msgs \cup {Garbage}) /\ Len(got) \in Nat /\ received \in Nat
      /\ L = 0 <=> wire = <<>>
  BY EmptySeq DEF LinkTypes
<1> HIDE DEF n, m, L
<1>7. /\ \A i \in 1..Len(sent) : i \in 1..Len(sent') /\ sent'[i] = sent[i]
      /\ sent' = Append(sent, m) =>
           /\ Len(sent') = Len(sent) + 1 /\ sent'[Len(sent) + 1] = m
           /\ \A i \in 1..Len(sent) : sent[i] # m
      /\ Len(sent) <= Len(sent') /\ Len(sent') \in Nat
      /\ sent' = sent \/ sent' = Append(sent, m)
  <2>1. CASE sent' = sent
    <3>1. sent # Append(sent, m)
      <4>1. Len(Append(sent, m)) = Len(sent) + 1
        BY <1>1, <1>6, AppendProperties
      <4>2. QED
        BY <1>6, <4>1
    <3>2. QED
      BY <1>6, <2>1, <3>1
  <2>2. CASE sent' = Append(sent, m) /\ ~Entered(m)
    <3>1. /\ Len(sent') = Len(sent) + 1 /\ sent'[Len(sent) + 1] = m
          /\ \A i \in 1..Len(sent) : sent'[i] = sent[i]
      BY <1>1, <1>6, <2>2, AppendProperties
    <3>2. \A i \in 1..Len(sent) : sent[i] # m
      BY <2>2 DEF Entered
    <3>3. QED
      BY <1>6, <2>2, <3>1, <3>2
  <2>3. QED
    BY <1>5, <2>1, <2>2
<1>num. /\ n \in Nat /\ L \in Nat /\ off[s] \in Nat /\ FrameLen(m) \in Nat
        /\ n <= FrameLen(m) - off[s]
  BY <1>1, <1>6
<1>8. UNCHANGED <<rpc, enc, total, buf, received, got, goodbyes>>
  BY <1>1 DEF readVars
<1>9. Front' = Front /\ FrontUnit' = FrontUnit /\ Front \in Nat /\ Front >= 1
  BY <1>6, <1>8 DEF Front, FrontUnit
\* Only s can be in the middle of a frame.
<1>10. /\ \A t \in Senders : Partial(t) => t = s
       /\ Partial(s) <=> off[s] > 0
  BY <1>1, <1>2 DEF Partial, Sends
<1>11. /\ off[s] > 0 =>
            /\ sent # <<>> /\ m = sent[Len(sent)]
            /\ L > 0 => wire[L] = <<m, off[s]>>
            /\ L = 0 => Front = Len(sent) /\ FrontUnit = off[s] + 1
       /\ off[s] = 0 =>
            /\ L > 0 => wire[L] = <<sent[Len(sent)], FrameLen(sent[Len(sent)])>>
            /\ L = 0 => Front = Len(sent) + 1 /\ FrontUnit = 1
  <2>1. off[s] > 0 => Partial(s)
    BY <1>10
  <2>2. off[s] = 0 => \A t \in Senders : ~Partial(t)
    BY <1>1, <1>10
  <2>3. QED
    BY <1>4, <1>6, <2>1, <2>2 DEF Ending, m, L
<1>12. \A i \in 1..L : wire[i][1] \in Msgs /\ Entered(wire[i][1])
                       /\ wire[i][2] \in 1..FrameLen(wire[i][1])
  BY <1>6, ElementOfSeq DEF Known, Whole, Units, L
<1>13. \A a \in Msgs : FrameLen(a) \in Nat
  BY Frames
<1>14. Joined'
  <2>1. ASSUME NEW i \in 1..(L + n), NEW j \in 1..(L + n), i < j
        PROVE  /\ wire'[i][2] + (j - i) <= FrameLen(wire'[i][1]) =>
                    wire'[j] = <<wire'[i][1], wire'[i][2] + (j - i)>>
               /\ j = i + 1 /\ wire'[i][2] = FrameLen(wire'[i][1]) =>
                    \A p \in 1..Len(sent') :
                      sent'[p] = wire'[i][1] =>
                        p < Len(sent') /\ wire'[j] = <<sent'[p + 1], 1>>
    <3>1. CASE j <= L
      <4>1. i \in 1..L /\ j \in 1..L /\ wire'[i] = wire[i] /\ wire'[j] = wire[j]
        BY <1>1, <1>6, <2>1, <3>1
      <4>2. wire[i][2] + (j - i) <= FrameLen(wire[i][1]) =>
              wire[j] = <<wire[i][1], wire[i][2] + (j - i)>>
        BY <1>3, <2>1, <4>1 DEF Joined, L
      <4>3. ASSUME j = i + 1, wire[i][2] = FrameLen(wire[i][1]),
                   NEW p \in 1..Len(sent'), sent'[p] = wire[i][1]
            PROVE  p < Len(sent') /\ wire[j] = <<sent'[p + 1], 1>>
        <5>1. p \in 1..Len(sent) /\ sent[p] = wire[i][1]
          <6>1. PICK q \in 1..Len(sent) : sent[q] = wire[i][1]
            BY <1>12, <4>1 DEF Entered
          <6>2. CASE sent' = sent
            BY <4>3, <6>2
          <6>3. CASE sent' = Append(sent, m)
            <7>1. p # Len(sent) + 1
              BY <1>7, <4>3, <6>1, <6>3
            <7>2. QED
              BY <1>6, <1>7, <4>3, <6>3, <7>1
          <6>4. QED
            BY <1>7, <6>2, <6>3
        <5>2. p < Len(sent) /\ wire[j] = <<sent[p + 1], 1>>
          BY <1>3, <4>1, <4>3, <5>1 DEF Joined, L
        <5>3. p + 1 \in 1..Len(sent)
          BY <1>6, <5>1, <5>2
        <5>4. QED
          BY <1>6, <1>7, <5>1, <5>2, <5>3
      <4>4. QED
        BY <4>1, <4>2, <4>3
    <3>2. CASE i > L
      <4>1. i - L \in 1..n /\ j - L \in 1..n /\ L + (i - L) = i /\ L + (j - L) = j
        BY <1>num, <2>1, <3>2
      <4>2. wire'[L + (i - L)] = <<m, off[s] + (i - L)>>
            /\ wire'[L + (j - L)] = <<m, off[s] + (j - L)>>
        BY <1>1, <4>1
      <4>3. wire'[i] = <<m, off[s] + (i - L)>> /\ wire'[j] = <<m, off[s] + (j - L)>>
        BY <4>1, <4>2
      <4>4. off[s] + (i - L) < FrameLen(m)
        BY <1>num, <2>1, <4>1
      <4>5. off[s] + (i - L) + (j - i) = off[s] + (j - L)
        BY <1>num, <2>1
      <4>6. QED
        BY <1>1, <4>3, <4>4, <4>5
    <3>3. CASE i <= L /\ j > L
      <4>1. /\ i \in 1..L /\ wire'[i] = wire[i] /\ L > 0 /\ L \in 1..L
            /\ j - L \in 1..n /\ L + (j - L) = j /\ n > 0
        <5>1. /\ i \in 1..L /\ L > 0 /\ L \in 1..L
              /\ j - L \in 1..n /\ L + (j - L) = j /\ n > 0
          BY <1>num, <2>1, <3>3
        <5>2. QED
          BY <1>1, <5>1
      <4>2. wire'[j] = <<m, off[s] + (j - L)>>
        <5>1. wire'[L + (j - L)] = <<m, off[s] + (j - L)>>
          BY <1>1, <4>1
        <5>2. QED
          BY <4>1, <5>1
      <4>3. wire[i][2] \in Nat /\ wire[i][1] \in Msgs /\ FrameLen(wire[i][1]) \in Nat
        BY <1>12, <1>13, <4>1
      <4>4. wire[i][2] + (L - i) <= FrameLen(wire[i][1]) =>
              wire[L][1] = wire[i][1] /\ wire[L][2] = wire[i][2] + (L - i)
        <5>1. CASE i = L
          BY <1>6, <4>3, <5>1
        <5>2. CASE i < L
          BY <1>3, <4>1, <5>2 DEF Joined, L
        <5>3. QED
          BY <1>6, <4>1, <5>1, <5>2
      <4>5. wire[i][2] + (j - i) <= FrameLen(wire[i][1]) =>
              /\ wire[L][1] = wire[i][1] /\ wire[L][2] = wire[i][2] + (L - i)
              /\ wire[L][2] < FrameLen(wire[i][1])
        BY <1>6, <2>1, <3>3, <4>3, <4>4
      <4>6. CASE off[s] > 0
        <5>1. wire[L] = <<m, off[s]>> /\ off[s] < FrameLen(m)
          BY <1>num, <1>11, <4>1, <4>6
        <5>2. j = i + 1 => i = L
          BY <1>num, <2>1, <3>3
        <5>3. ~(j = i + 1 /\ wire[i][2] = FrameLen(wire[i][1]))
          BY <1>num, <5>1, <5>2
        <5>4. wire[i][2] + (j - i) <= FrameLen(wire[i][1]) =>
                m = wire[i][1] /\ off[s] + (j - L) = wire[i][2] + (j - i)
          <6>1. wire[L][1] = m /\ wire[L][2] = off[s]
            BY <5>1
          <6>2. wire[i][2] + (j - i) = wire[i][2] + (L - i) + (j - L)
            BY <1>num, <2>1, <4>3
          <6>3. QED
            BY <4>5, <6>1, <6>2
        <5>5. QED
          BY <4>1, <4>2, <5>3, <5>4
      <4>7. CASE off[s] = 0
        <5>1. wire[L] = <<sent[Len(sent)], FrameLen(sent[Len(sent)])>>
          BY <1>11, <4>1, <4>7
        <5>2. ~(wire[i][2] + (j - i) <= FrameLen(wire[i][1]))
          BY <4>3, <4>5, <5>1
        <5>3. sent' = Append(sent, m)
          BY <1>5, <4>1, <4>7
        <5>4. ASSUME j = i + 1, NEW p \in 1..Len(sent'), sent'[p] = wire[i][1]
              PROVE  p < Len(sent') /\ wire'[j] = <<sent'[p + 1], 1>>
          <6>1. i = L /\ j - L = 1
            BY <1>6, <2>1, <3>3, <5>4
          <6>2. wire[i][1] = sent[Len(sent)]
            BY <5>1, <6>1
          <6>3. PICK q \in 1..Len(sent) : sent[q] = wire[i][1]
            BY <1>12, <4>1 DEF Entered
          <6>4. Len(sent) \in 1..Len(sent)
            BY <1>6, <6>3
          <6>5. p \in 1..Len(sent) /\ sent[p] = wire[i][1]
            BY <1>6, <1>7, <5>3, <5>4, <6>3
          <6>6. p = Len(sent)
            BY <6>2, <6>4, <6>5 DEF Apart
          <6>7. QED
            BY <1>6, <1>7, <4>2, <4>7, <5>3, <6>1, <6>6
        <5>5. QED
          BY <4>1, <5>2, <5>4
      <4>8. QED
        BY <1>1, <4>6, <4>7
    <3>4. QED
      BY <1>6, <2>1, <3>1, <3>2, <3>3
  <2>2. QED
    BY <1>1, <2>1 DEF Joined, FrameLen
<1>15. Beginning'
  <2>1. CASE L > 0
    <3>1. wire'[1] = wire[1] /\ Front <= Len(sent) /\ wire[1] = <<sent[Front], FrontUnit>>
      BY <1>1, <1>4, <1>6, <2>1 DEF Beginning
    <3>2. Front \in 1..Len(sent)
      BY <1>6, <1>9, <3>1
    <3>3. QED
      BY <1>6, <1>7, <1>9, <3>1, <3>2 DEF Beginning
  <2>2. CASE L = 0 /\ n > 0
    <3>1. wire'[1] = <<m, off[s] + 1>>
      <4>1. wire'[L + 1] = <<m, off[s] + 1>>
        BY <1>1, <2>2
      <4>2. QED
        BY <1>6, <2>2, <4>1
    <3>2. CASE off[s] > 0
      <4>1. sent' = sent /\ Front = Len(sent) /\ FrontUnit = off[s] + 1
            /\ m = sent[Len(sent)]
        BY <1>5, <1>11, <2>2, <3>2
      <4>2. QED
        BY <1>9, <3>1, <4>1 DEF Beginning
    <3>3. CASE off[s] = 0
      <4>1. sent' = Append(sent, m) /\ Front = Len(sent) + 1 /\ FrontUnit = 1
        BY <1>5, <1>11, <2>2, <3>3
      <4>2. QED
        BY <1>7, <1>9, <3>1, <3>3, <4>1 DEF Beginning
    <3>4. QED
      BY <1>1, <3>2, <3>3
  <2>3. CASE L = 0 /\ n = 0
    <3>1. Len(wire') = 0
      BY <1>1, <2>3
    <3>2. wire' = <<>>
      BY <1>1, <3>1, EmptySeq
    <3>3. QED
      BY <3>2 DEF Beginning
  <2>4. QED
    BY <1>1, <1>6, <2>1, <2>2, <2>3
<1>16. Ending'
  <2>1. \A t \in Senders : Partial(t)' => t = s /\ off'[s] = off[s] + n /\ todo' = todo
    BY <1>2 DEF Partial
  <2>2. Msg(s)' = m \/ todo' # todo
    BY DEF m, Msg
  <2>3. n > 0 => /\ wire'[Len(wire')] = <<m, off[s] + n>> /\ wire' # <<>>
                 /\ sent' # <<>> /\ m = sent'[Len(sent')]
    <3>1. ASSUME n > 0
          PROVE  wire'[Len(wire')] = <<m, off[s] + n>> /\ wire' # <<>>
      <4>1. n \in 1..n
        BY <1>1, <3>1
      <4>2. Len(wire') # 0
        BY <1>1, <1>6, <3>1
      <4>3. QED
        BY <1>1, <4>1, <4>2, EmptySeq
    <3>2. ASSUME n > 0
          PROVE  sent' # <<>> /\ m = sent'[Len(sent')]
      <4>1. CASE off[s] > 0
        BY <1>5, <1>11, <4>1
      <4>2. CASE off[s] = 0
        <5>1. sent' = Append(sent, m)
          BY <1>5, <3>2, <4>2
        <5>2. Len(sent') = Len(sent) + 1 /\ m = sent'[Len(sent) + 1]
          BY <1>7, <5>1
        <5>3. Len(sent') # 0
          BY <1>6, <5>2
        <5>4. QED
          BY <5>2, <5>3, EmptySeq
      <4>3. QED
        BY <1>1, <4>1, <4>2
    <3>3. QED
      BY <3>1, <3>2
  <2>4. CASE n > 0
    <3>1. CASE pc'[s] = "wait"
      <4>1. off'[s] = off[s] + n /\ todo' = todo /\ off'[s] > 0
        BY <1>1, <1>2, <2>4, <3>1
      <4>2. Partial(s)' /\ Msg(s)' = m
        BY <2>2, <3>1, <4>1 DEF Partial
      <4>3. \A t \in Senders : Partial(t)' => t = s
        BY <2>1
      <4>4. QED
        BY <2>3, <2>4, <4>1, <4>2, <4>3 DEF Ending
    <3>2. CASE pc'[s] # "wait"
      <4>1. off[s] + n = FrameLen(m)
        BY <1>2, <3>2
      <4>2. \A t \in Senders : ~Partial(t)'
        BY <2>1, <3>2 DEF Partial
      <4>3. wire'[Len(wire')] = <<sent'[Len(sent')], FrameLen(sent'[Len(sent')])>>
            /\ wire' # <<>>
        BY <2>3, <2>4, <4>1
      <4>4. QED
        BY <4>2, <4>3 DEF Ending, FrameLen
    <3>3. QED
      BY <3>1, <3>2
  <2>5. CASE n = 0
    <3>1. wire' = wire
      <4>1. Len(wire') = L
        BY <1>1, <1>6, <2>5
      <4>2. QED
        BY <1>1, <1>6, <4>1, SeqEqual DEF L
    <3>2. sent' = sent
      BY <1>5, <2>5
    <3>3. pc'[s] = "wait" /\ off'[s] = off[s] /\ todo' = todo
      BY <1>1, <1>2, <2>5, SendingFacts DEF n, m
    <3>4. \A t \in Senders : Partial(t)' <=> Partial(t)
      <4>1. \A t \in Senders \ {s} : Partial(t)' <=> Partial(t)
        BY <1>2 DEF Partial
      <4>2. Partial(s)' <=> Partial(s)
        BY <1>10, <3>3 DEF Partial
      <4>3. QED
        BY <4>1, <4>2
    <3>5. \A t \in Senders : Partial(t) => off'[t] = off[t] /\ Msg(t)' = Msg(t)
      BY <1>10, <3>3 DEF Msg
    <3>6. QED
      BY <1>4, <1>9, <3>1, <3>2, <3>4, <3>5 DEF Ending, FrameLen
  <2>6. QED
    BY <1>1, <2>4, <2>5
<1>17. Reader'
  <2>1. \A i \in 1..Len(got) : i <= Len(sent') /\ got[i] = sent'[i]
    BY <1>3, <1>6, <1>7 DEF Reader
  <2>2. rpc \in {"body", "decrypt"} =>
          /\ Len(got) < Len(sent') /\ sent'[Len(got) + 1] = sent[Len(got) + 1]
    BY <1>3, <1>6, <1>7 DEF Reader
  <2>3. QED
    BY <1>3, <1>8, <2>1, <2>2 DEF Reader
<1>18. Turns'
  BY <1>1, <1>2, <1>4, <1>8 DEF Turns
<1>19. QED
  BY <1>14, <1>15, <1>16, <1>17, <1>18 DEF Streaming

-----------------------------------------------------------------------------
\* read_thread and the end of the connection

\* Nothing of the threads changes; so their part of the invariant stays.
LEMMA ReadingKeeps ==
  ASSUME LinkTypes, Sends, Apart, Encrypted, UNCHANGED sendVars, causes \subseteq causes'
  PROVE  /\ Sends' /\ Apart' /\ Encrypted'
         /\ \A a : Entered(a)' <=> Entered(a)
         /\ \A u : Whole(u)' <=> Whole(u)
         /\ \A a, b : Before(a, b)' <=> Before(a, b)
         /\ \A s \in Senders : (Partial(s)' <=> Partial(s)) /\ Msg(s)' = Msg(s)
<1>1. UNCHANGED <<cipher, todo, pc, key, text, frames, off, nonblock, sent>>
  BY DEF sendVars
<1>2. \A s \in Senders : Msg(s)' = Msg(s)
  BY <1>1 DEF Msg
<1>3. \A a : Entered(a)' <=> Entered(a)
  BY <1>1 DEF Entered
<1>4. Sends'
  BY <1>1 DEF Sends, FrameLen, Msg, Entered
<1>5. Apart'
  BY <1>1 DEF Apart, Started, Entered
<1>6. Encrypted'
  <2>1. \A s \in Senders : Keyed(s)' <=> Keyed(s)
    BY <1>1 DEF Keyed, Good, Msg
  <2>2. \A i \in 1..Len(sent) : Good(sent[i])' <=> Good(sent[i])
    BY <1>1 DEF Good
  <2>3. QED
    BY <1>1, <2>1, <2>2 DEF Encrypted
<1>7. QED
  BY <1>1, <1>2, <1>3, <1>4, <1>5, <1>6 DEF Whole, Before, Partial

\* The units that are left after recv took n are those that were behind them.
LEMMA WireLeft ==
  ASSUME LinkTypes, NEW n \in 1..Len(wire),
         Len(wire') = Len(wire) - n,
         \A i \in 1..(Len(wire) - n) : wire'[i] = wire[n + i]
  PROVE  /\ \A i \in 1..Len(wire') : n + i \in 1..Len(wire) /\ wire'[i] = wire[n + i]
         /\ n < Len(wire) => wire'[Len(wire')] = wire[Len(wire)]
<1>1. Len(wire) \in Nat
  BY DEF LinkTypes
<1>2. \A i \in 1..Len(wire') : n + i \in 1..Len(wire) /\ wire'[i] = wire[n + i]
  BY <1>1
<1>3. ASSUME n < Len(wire)
      PROVE  wire'[Len(wire')] = wire[Len(wire)]
  <2>1. Len(wire') \in 1..Len(wire') /\ n + Len(wire') = Len(wire)
    BY <1>1, <1>3
  <2>2. QED
    BY <1>2, <2>1
<1>4. QED
  BY <1>2, <1>3

\* A header: what is known of units, and the order of the headers.
LEMMA HeaderOrdered ==
  ASSUME LinkTypes, Bounds, Sends, Apart, Encrypted, Known, Headers, Ordered,
         ReadHeader
  PROVE  Sends' /\ Apart' /\ Encrypted' /\ Known' /\ Headers' /\ Ordered'
<1>1. PICK n \in 1..Len(wire) :
           /\ n = 1 \/ n = 2
           /\ causes' = IF n = 1 THEN causes \cup {"short"} ELSE causes
           /\ enc'[1] = wire[1] /\ enc'[2] = (IF n = 2 THEN wire[2] ELSE enc[2])
           /\ Len(wire') = Len(wire) - n
           /\ \A i \in 1..(Len(wire) - n) : wire'[i] = wire[n + i]
           /\ \/ /\ MagicOk(enc')
                 /\ total' \in 0..Longest
                 /\ buf' = Padded(buf, total')
              \/ ~MagicOk(enc') /\ UNCHANGED <<buf, rpc>>
  BY HeaderFacts
<1>2. UNCHANGED <<sendVars, got>> /\ rpc = "select" /\ causes \subseteq causes'
      /\ ("overlap" \notin causes' => "overlap" \notin causes)
  BY <1>1 DEF ReadHeader, Reads
<1>3. /\ Sends' /\ Apart' /\ Encrypted'
      /\ \A a : Entered(a)' <=> Entered(a)
      /\ \A u : Whole(u)' <=> Whole(u)
      /\ \A a, b : Before(a, b)' <=> Before(a, b)
  BY <1>2, ReadingKeeps
<1>4. /\ \A i \in 1..Len(wire') : n + i \in 1..Len(wire) /\ wire'[i] = wire[n + i]
      /\ Len(wire) \in Nat
  BY <1>1, WireLeft DEF LinkTypes
<1>5. Known'
  <2>1. \A i \in 1..Len(wire') : Whole(wire'[i])
    BY <1>4 DEF Known
  <2>2. \A i \in 1..2 : enc'[i] = NoUnit \/ Whole(enc'[i])
    <3>1. Whole(enc'[1])
      BY <1>1 DEF Known
    <3>2. enc'[2] = NoUnit \/ Whole(enc'[2])
      BY <1>1 DEF Known
    <3>3. QED
      BY <3>1, <3>2
  <2>3. \A i \in 1..Len(buf') : buf'[i] = NoUnit \/ Whole(buf'[i])
    <3>1. CASE buf' = buf
      BY <3>1 DEF Known
    <3>2. CASE total' \in 0..Longest /\ buf' = Padded(buf, total')
      <4>1. buf \in Seq(Units \cup {NoUnit}) /\ total' \in Nat /\ Len(buf) \in Nat
        BY <3>2, LongestFacts DEF LinkTypes
      <4>2. \A i \in 1..Len(buf') : buf'[i] = NoUnit \/ (i <= Len(buf) /\ buf'[i] = buf[i])
        BY <3>2, <4>1, PaddedFacts
      <4>3. \A i \in 1..Len(buf') : i <= Len(buf) => i \in 1..Len(buf)
        BY <4>1
      <4>4. QED
        BY <4>2, <4>3 DEF Known
    <3>3. QED
      BY <1>1, <3>1, <3>2
  <2>4. \A i \in 1..Len(got') : got'[i] = Garbage \/ Entered(got'[i])
    BY <1>2 DEF Known
  <2>5. \A a : Entered(a) <=> \E k \in 1..Len(sent') : sent'[k] = a
    BY <1>3 DEF Entered
  <2>6. \A u : Whole(u) <=> /\ u[2] \in 1..FrameLen(u[1])
                            /\ \E k \in 1..Len(sent') : sent'[k] = u[1]
    BY <2>5 DEF Whole
  <2>7. QED
    BY <2>1, <2>2, <2>3, <2>4, <2>5, <2>6 DEF Known, Whole, Entered, FrameLen
<1>6. ASSUME NEW j \in 1..Len(wire'), wire'[j][2] = 1
      PROVE  n + j \in 1..Len(wire) /\ n + j > 1 /\ wire[n + j] = wire'[j]
             /\ wire[n + j][2] = 1
  BY <1>4, <1>6
<1>7. rpc' \in {"body", "decrypt"} => /\ enc'[1] # NoUnit /\ enc'[1][2] = 1
                                      /\ wire[1][2] = 1
  BY <1>1, <1>2 DEF MagicOk, NoUnit
<1>8. sent' = sent
  BY <1>2 DEF sendVars
<1>9. Headers'
  <2>1. ASSUME NEW i \in 1..Len(wire'), NEW j \in 1..Len(wire'),
               i < j, wire'[i][2] = 1, wire'[j][2] = 1
        PROVE  Before(wire'[i][1], wire'[j][1])
    <3>1. n + i < n + j
      BY <2>1
    <3>2. QED
      BY <1>6, <2>1, <3>1 DEF Headers
  <2>2. ASSUME rpc' \in {"body", "decrypt"}, NEW j \in 1..Len(wire'), wire'[j][2] = 1
        PROVE  Before(enc'[1][1], wire'[j][1])
    <3>1. 1 \in 1..Len(wire) /\ wire[1][2] = 1
      BY <1>4, <1>7, <2>2
    <3>2. QED
      BY <1>1, <1>6, <2>2, <3>1 DEF Headers
  <2>3. QED
    BY <1>7, <1>8, <2>1, <2>2 DEF Headers, Before
<1>10. Ordered'
  <2> SUFFICES ASSUME "overlap" \notin causes'
               PROVE  Ordered'
    BY DEF Ordered
  <2>1. /\ \A i, j \in 1..Len(got) :
             i < j /\ got[i] # Garbage /\ got[j] # Garbage => Before(got[i], got[j])
        /\ \A i \in 1..Len(got), j \in 1..Len(wire) :
             got[i] # Garbage /\ wire[j][2] = 1 => Before(got[i], wire[j][1])
    BY <1>2 DEF Ordered
  <2>2. \A i \in 1..Len(got), j \in 1..Len(wire') :
             got[i] # Garbage /\ wire'[j][2] = 1 => Before(got[i], wire'[j][1])
    BY <1>6, <2>1
  <2>3. rpc' \in {"body", "decrypt"} =>
          \A i \in 1..Len(got) : got[i] # Garbage => Before(got[i], enc'[1][1])
    BY <1>1, <1>4, <1>7, <2>1
  <2>4. got' = got
    BY <1>2
  <2>5. QED
    BY <1>8, <2>1, <2>2, <2>3, <2>4 DEF Ordered, Before
<1>11. QED
  BY <1>3, <1>5, <1>9, <1>10


\* What is left of the stream still hangs together, and ends as it did.
LEMMA StreamLeft ==
  ASSUME LinkTypes, Sends, Apart, Joined, Ending, UNCHANGED sendVars,
         NEW n \in 1..Len(wire), wire' \in Seq(Units),
         Len(wire') = Len(wire) - n,
         \A i \in 1..(Len(wire) - n) : wire'[i] = wire[n + i],
         n = Len(wire) =>
           \E p \in 1..Len(sent) :
             \/ /\ wire[n][1] = sent[p] /\ wire[n][2] < FrameLen(sent[p])
                /\ Front' = p /\ FrontUnit' = wire[n][2] + 1
             \/ /\ wire[n] = <<sent[p], FrameLen(sent[p])>>
                /\ Front' = p + 1 /\ FrontUnit' = 1
  PROVE  Joined' /\ Ending'
<1>1. /\ \A i \in 1..Len(wire') : n + i \in 1..Len(wire) /\ wire'[i] = wire[n + i]
      /\ n < Len(wire) => wire'[Len(wire')] = wire[Len(wire)]
      /\ Len(wire) \in Nat /\ Len(wire') \in Nat /\ Len(sent) \in Nat
  <2>1. Len(wire) \in Nat /\ Len(wire') \in Nat /\ Len(sent) \in Nat
    BY DEF LinkTypes
  <2>2. /\ \A i \in 1..Len(wire') : n + i \in 1..Len(wire) /\ wire'[i] = wire[n + i]
        /\ n < Len(wire) => wire'[Len(wire')] = wire[Len(wire)]
    BY WireLeft
  <2>3. QED
    BY <2>1, <2>2
<1>2. sent' = sent /\ off' = off /\ pc' = pc /\ todo' = todo
  BY DEF sendVars
<1>3. \A s \in Senders : (Partial(s)' <=> Partial(s)) /\ Msg(s)' = Msg(s)
  BY <1>2 DEF Partial, Msg
<1>4. Joined'
  <2>1. ASSUME NEW i \in 1..Len(wire'), NEW j \in 1..Len(wire'), i < j
        PROVE  /\ wire'[i][2] + (j - i) <= FrameLen(wire'[i][1]) =>
                    wire'[j] = <<wire'[i][1], wire'[i][2] + (j - i)>>
               /\ j = i + 1 /\ wire'[i][2] = FrameLen(wire'[i][1]) =>
                    \A p \in 1..Len(sent) :
                      sent[p] = wire'[i][1] =>
                        p < Len(sent) /\ wire'[j] = <<sent[p + 1], 1>>
    <3> DEFINE a == n + i
               b == n + j
    <3>1. /\ a \in 1..Len(wire) /\ b \in 1..Len(wire)
          /\ wire'[i] = wire[a] /\ wire'[j] = wire[b]
      BY <1>1
    <3>2. a < b /\ b - a = j - i /\ (j = i + 1 => b = a + 1)
      BY <2>1
    <3> HIDE DEF a, b
    <3>3. /\ wire[a][2] + (b - a) <= FrameLen(wire[a][1]) =>
               wire[b] = <<wire[a][1], wire[a][2] + (b - a)>>
          /\ b = a + 1 /\ wire[a][2] = FrameLen(wire[a][1]) =>
               \A p \in 1..Len(sent) :
                 sent[p] = wire[a][1] => p < Len(sent) /\ wire[b] = <<sent[p + 1], 1>>
      BY <3>1, <3>2 DEF Joined
    <3>4. QED
      BY <3>1, <3>2, <3>3
  <2>2. QED
    BY <1>2, <2>1 DEF Joined, FrameLen
<1>5. CASE n < Len(wire)
  <2>1. wire # <<>> /\ wire' # <<>>
    BY <1>1, <1>5, EmptySeq
  <2>2. QED
    BY <1>1, <1>2, <1>3, <1>4, <1>5, <2>1 DEF Ending, FrameLen
<1>6. CASE n = Len(wire)
  <2>1. wire # <<>> /\ wire' = <<>>
    <3>1. Len(wire') = 0
      BY <1>1, <1>6
    <3>2. QED
      BY <1>1, <1>6, <3>1, EmptySeq
  <2>2. PICK p \in 1..Len(sent) :
             \/ /\ wire[n][1] = sent[p] /\ wire[n][2] < FrameLen(sent[p])
                /\ Front' = p /\ FrontUnit' = wire[n][2] + 1
             \/ /\ wire[n] = <<sent[p], FrameLen(sent[p])>>
                /\ Front' = p + 1 /\ FrontUnit' = 1
    BY <1>6
  <2>3. Len(sent) \in 1..Len(sent) /\ sent[Len(sent)] \in Msgs /\ sent # <<>>
    BY <1>1, <2>2, EmptySeq DEF LinkTypes
  <2>4. \A q \in 1..Len(sent) : sent[q] = sent[Len(sent)] => q = Len(sent)
    BY <2>3 DEF Apart
  <2>5. ASSUME NEW s \in Senders, Partial(s)
        PROVE  /\ sent # <<>> /\ Msg(s) = sent[Len(sent)]
               /\ Front' = Len(sent) /\ FrontUnit' = off[s] + 1
    <3>1. Msg(s) = sent[Len(sent)] /\ wire[n] = <<Msg(s), off[s]>>
      BY <1>6, <2>1, <2>5 DEF Ending
    <3>2. off[s] < FrameLen(Msg(s)) /\ off[s] \in Nat
      BY <2>5 DEF Partial, Sends, LinkTypes
    <3>3. wire[n][1] = sent[p]
      BY <2>2
    <3>4. p = Len(sent)
      BY <2>4, <3>1, <3>3
    <3>5. wire[n][2] = off[s] /\ FrameLen(sent[p]) \in Nat
      BY <2>3, <3>1, <3>4, Frames
    <3>6. wire[n][2] # FrameLen(sent[p])
      BY <3>1, <3>2, <3>4, <3>5
    <3>7. Front' = p /\ FrontUnit' = off[s] + 1
      BY <2>2, <3>5, <3>6
    <3>8. QED
      BY <2>3, <3>1, <3>4, <3>7
  <2>6. ASSUME \A s \in Senders : ~Partial(s)
        PROVE  Front' = Len(sent) + 1 /\ FrontUnit' = 1
    <3>1. wire[n] = <<sent[Len(sent)], FrameLen(sent[Len(sent)])>>
      BY <1>6, <2>1, <2>6 DEF Ending
    <3>2. wire[n][1] = sent[p]
      BY <2>2
    <3>3. p = Len(sent)
      BY <2>4, <3>1, <3>2
    <3>4. FrameLen(sent[p]) \in Nat /\ ~(wire[n][2] < FrameLen(sent[p]))
      BY <2>3, <3>1, <3>3, Frames
    <3>5. QED
      BY <2>2, <3>3, <3>4
  <2>7. Ending'
    BY <1>2, <1>3, <2>1, <2>5, <2>6 DEF Ending
  <2>8. QED
    BY <1>4, <2>7
<1>7. QED
  BY <1>1, <1>5, <1>6

\* A header of an undisturbed stream is the next message's.
LEMMA HeaderStreaming ==
  ASSUME LinkTypes, Bounds, Sends, Apart, Known, Streaming, ReadHeader
  PROVE  Streaming'
<1> SUFFICES ASSUME causes' = {}
             PROVE  Joined' /\ Beginning' /\ Ending' /\ Reader' /\ Turns'
  BY DEF Streaming
<1>1. PICK n \in 1..Len(wire) :
           /\ n = 1 \/ n = 2
           /\ causes' = IF n = 1 THEN causes \cup {"short"} ELSE causes
           /\ enc' \in [1..2 -> Units \cup {NoUnit}]
           /\ enc'[1] = wire[1] /\ enc'[2] = (IF n = 2 THEN wire[2] ELSE enc[2])
           /\ wire' \in Seq(Units) /\ Len(wire') = Len(wire) - n
           /\ \A i \in 1..(Len(wire) - n) : wire'[i] = wire[n + i]
           /\ \/ /\ MagicOk(enc')
                 /\ total' \in TotalOf(enc') /\ total' \in 0..Longest
                 /\ buf' = Padded(buf, total') /\ received' = 0
                 /\ rpc' = IF total' = 0 THEN "decrypt" ELSE "body"
              \/ ~MagicOk(enc') /\ UNCHANGED <<total, buf, rpc, received>>
  BY HeaderFacts
<1>2. UNCHANGED <<sendVars, got, goodbyes, closed>> /\ rpc = "select"
  BY DEF ReadHeader, Reads
<1>3. n = 2 /\ causes = {}
  BY <1>1
<1>4. Joined /\ Beginning /\ Ending /\ Reader /\ Turns
  BY <1>2, <1>3 DEF Streaming
<1>5. sent' = sent /\ pc' = pc /\ off' = off /\ todo' = todo
  BY <1>2 DEF sendVars
<1>6. Len(wire) \in Nat /\ Len(wire) >= 2 /\ wire # <<>> /\ Len(got) \in Nat
      /\ Len(sent) \in Nat
  BY <1>3, EmptySeq DEF LinkTypes
<1> DEFINE m == sent[Len(got) + 1]
<1>7. Len(got) + 1 \in 1..Len(sent) /\ wire[1] = <<m, 1>> /\ m \in Msgs
  <2>1. Len(got) + 1 <= Len(sent) /\ wire[1] = <<m, 1>>
    BY <1>2, <1>4, <1>6 DEF Beginning, Front, FrontUnit
  <2>2. QED
    BY <1>6, <2>1 DEF LinkTypes
<1> HIDE DEF m
<1>8. FrameLen(m) \in Nat /\ FrameLen(m) = 2 + BodyLen[m] /\ FrameLen(m) >= 3
      /\ BodyLen[m] \in Nat
  BY <1>7, Frames, BodyAssumption DEF FrameLen
<1>9. ASSUME NEW k \in 2..Len(wire), k <= FrameLen(m)
      PROVE  wire[k] = <<m, k>>
  <2>1. 1 \in 1..Len(wire) /\ k \in 1..Len(wire) /\ 1 < k /\ 1 + (k - 1) = k
    BY <1>6
  <2>2. wire[1][2] + (k - 1) <= FrameLen(wire[1][1]) =>
          wire[k] = <<wire[1][1], wire[1][2] + (k - 1)>>
    BY <1>4, <2>1 DEF Joined
  <2>3. wire[1][1] = m /\ wire[1][2] = 1
    BY <1>7
  <2>4. QED
    BY <1>9, <2>1, <2>2, <2>3
<1>10. enc' = <<<<m, 1>>, <<m, 2>>>>
  <2>1. wire[2] = <<m, 2>>
    BY <1>6, <1>8, <1>9
  <2>2. QED
    BY <1>1, <1>3, <1>7, <2>1
<1>11. /\ total' = BodyLen[m] /\ buf' = Padded(buf, total') /\ received' = 0
       /\ rpc' = "body"
  <2>1. MagicOk(enc')
    BY <1>7, <1>10, NoMsgAssumption DEF MagicOk
  <2>2. TotalOf(enc') = {BodyLen[m]}
    <3>1. enc'[2] = <<m, 2>> /\ enc'[2] # NoUnit
      BY <1>7, <1>10, NoMsgAssumption DEF NoUnit
    <3>2. QED
      BY <3>1 DEF TotalOf
  <2>3. BodyLen[m] # 0
    BY <1>8
  <2>4. QED
    BY <1>1, <2>1, <2>2, <2>3
<1>12. Joined' /\ Ending'
  <2>1. ASSUME n = Len(wire)
        PROVE  \E p \in 1..Len(sent) :
                 /\ wire[n][1] = sent[p] /\ wire[n][2] < FrameLen(sent[p])
                 /\ Front' = p /\ FrontUnit' = wire[n][2] + 1
    <3>1. wire[n] = <<m, 2>> /\ m = sent[Len(got) + 1]
      BY <1>3, <1>6, <1>8, <1>9 DEF m
    <3>2. Front' = Len(got) + 1 /\ FrontUnit' = 3
      BY <1>2, <1>11 DEF Front, FrontUnit
    <3>3. QED
      BY <1>7, <1>8, <3>1, <3>2
  <2>2. QED
    BY <1>1, <1>2, <1>4, <2>1, StreamLeft
<1>13. Beginning'
  <2>1. ASSUME wire' # <<>>
        PROVE  wire'[1] = <<m, 3>>
    <3>1. Len(wire') \in Nat /\ Len(wire') # 0
      BY <1>1, <2>1, EmptySeq
    <3>2. 1 \in 1..(Len(wire) - n) /\ wire'[1] = wire[3] /\ 3 \in 2..Len(wire)
      BY <1>1, <1>3, <3>1
    <3>3. QED
      BY <1>8, <1>9, <3>2
  <2>2. Front' = Len(got) + 1 /\ FrontUnit' = 3
    BY <1>2, <1>11 DEF Front, FrontUnit
  <2>3. QED
    BY <1>5, <1>7, <2>1, <2>2 DEF Beginning, m
<1>14. Reader'
  <2>1. \A i \in 1..Len(got') : i <= Len(sent') /\ got'[i] = sent'[i]
    BY <1>2, <1>4, <1>5 DEF Reader
  <2>2. Len(got') < Len(sent') /\ sent'[Len(got') + 1] = m
    BY <1>2, <1>5, <1>6, <1>7 DEF m
  <2>3. BodyLen[m] <= Len(buf')
    BY <1>8, <1>11, PaddedFacts DEF LinkTypes
  <2>4. goodbyes' = 0
    BY <1>2, <1>4 DEF Reader
  <2>5. QED
    BY <1>10, <1>11, <2>1, <2>2, <2>3, <2>4 DEF Reader
<1>15. Turns'
  BY <1>2, <1>4, <1>5, <1>11 DEF Turns
<1>16. QED
  BY <1>12, <1>13, <1>14, <1>15


\* A piece of a body: what is known of units, and the order of the headers.
LEMMA BodyOrdered ==
  ASSUME LinkTypes, Bounds, Sends, Apart, Encrypted, Known, Headers, Ordered,
         SafeAlone, ReadBody
  PROVE  Sends' /\ Apart' /\ Encrypted' /\ Known' /\ Headers' /\ Ordered' /\ SafeAlone'
<1>1. PICK n \in 1..Len(wire) :
           /\ n <= total
           /\ causes' = IF n > total - received THEN causes \cup {"beyond"} ELSE causes
           /\ wire' \in Seq(Units) /\ Len(wire') = Len(wire) - n
           /\ \A i \in 1..(Len(wire) - n) : wire'[i] = wire[n + i]
           /\ \/ /\ received + n > Len(buf) /\ status' = "undefined"
                 /\ UNCHANGED <<buf, received, rpc>>
              \/ /\ received + n <= Len(buf) /\ received' = received + n
                 /\ rpc' = IF received' < total THEN "body" ELSE "decrypt"
                 /\ buf' \in Seq(Units \cup {NoUnit}) /\ Len(buf') = Len(buf)
                 /\ \A i \in 1..Len(buf) :
                      buf'[i] = IF i \in (received + 1)..(received + n)
                                THEN wire[i - received] ELSE buf[i]
                 /\ UNCHANGED status
  BY BodyFacts
<1>2. UNCHANGED <<sendVars, got, enc>> /\ rpc = "body" /\ causes \subseteq causes'
      /\ ("overlap" \notin causes' => "overlap" \notin causes)
  BY <1>1 DEF ReadBody, Reads
<1>3. /\ Sends' /\ Apart' /\ Encrypted'
      /\ \A a : Entered(a)' <=> Entered(a)
      /\ \A u : Whole(u)' <=> Whole(u)
      /\ \A a, b : Before(a, b)' <=> Before(a, b)
  BY <1>2, ReadingKeeps
<1>4. /\ \A i \in 1..Len(wire') : n + i \in 1..Len(wire) /\ wire'[i] = wire[n + i]
      /\ Len(wire) \in Nat
  BY <1>1, WireLeft DEF LinkTypes
<1>5. Len(buf) \in Nat /\ received \in Nat /\ total \in Nat /\ total <= Len(buf)
  BY <1>2 DEF LinkTypes, Bounds
<1>6. Known'
  <2>1. \A i \in 1..Len(wire') : Whole(wire'[i])
    BY <1>4 DEF Known
  <2>2. \A i \in 1..2 : enc'[i] = NoUnit \/ Whole(enc'[i])
    BY <1>2 DEF Known
  <2>3. \A i \in 1..Len(buf') : buf'[i] = NoUnit \/ Whole(buf'[i])
    <3>1. CASE buf' = buf
      BY <3>1 DEF Known
    <3>2. CASE /\ Len(buf') = Len(buf)
               /\ \A i \in 1..Len(buf) :
                      buf'[i] = IF i \in (received + 1)..(received + n)
                                THEN wire[i - received] ELSE buf[i]
      <4> SUFFICES ASSUME NEW i \in 1..Len(buf)
                   PROVE  buf'[i] = NoUnit \/ Whole(buf'[i])
        BY <3>2
      <4>1. CASE i \in (received + 1)..(received + n)
        <5>1. i - received \in 1..Len(wire)
          BY <1>4, <1>5, <4>1
        <5>2. QED
          BY <3>2, <4>1, <5>1 DEF Known
      <4>2. CASE i \notin (received + 1)..(received + n)
        BY <3>2, <4>2 DEF Known
      <4>3. QED
        BY <4>1, <4>2
    <3>3. QED
      BY <1>1, <3>1, <3>2
  <2>4. \A i \in 1..Len(got') : got'[i] = Garbage \/ Entered(got'[i])
    BY <1>2 DEF Known
  <2>5. \A a : Entered(a) <=> \E k \in 1..Len(sent') : sent'[k] = a
    BY <1>3 DEF Entered
  <2>6. \A u : Whole(u) <=> /\ u[2] \in 1..FrameLen(u[1])
                            /\ \E k \in 1..Len(sent') : sent'[k] = u[1]
    BY <2>5 DEF Whole
  <2>7. QED
    BY <2>1, <2>2, <2>3, <2>4, <2>5, <2>6 DEF Known, Whole, Entered, FrameLen
<1>7. ASSUME NEW j \in 1..Len(wire'), wire'[j][2] = 1
      PROVE  n + j \in 1..Len(wire) /\ wire[n + j] = wire'[j] /\ wire[n + j][2] = 1
  BY <1>4, <1>7
<1>8. sent' = sent /\ got' = got /\ enc' = enc
  BY <1>2 DEF sendVars
<1>9. Headers'
  <2>1. ASSUME NEW i \in 1..Len(wire'), NEW j \in 1..Len(wire'),
               i < j, wire'[i][2] = 1, wire'[j][2] = 1
        PROVE  Before(wire'[i][1], wire'[j][1])
    <3>1. n + i < n + j
      BY <2>1
    <3>2. QED
      BY <1>7, <2>1, <3>1 DEF Headers
  <2>2. \A j \in 1..Len(wire') : wire'[j][2] = 1 => Before(enc[1][1], wire'[j][1])
    BY <1>2, <1>7 DEF Headers
  <2>3. enc[1] # NoUnit /\ enc[1][2] = 1
    BY <1>2 DEF Headers
  <2>4. QED
    BY <1>8, <2>1, <2>2, <2>3 DEF Headers, Before
<1>10. Ordered'
  <2> SUFFICES ASSUME "overlap" \notin causes'
               PROVE  Ordered'
    BY DEF Ordered
  <2>1. /\ \A i, j \in 1..Len(got) :
             i < j /\ got[i] # Garbage /\ got[j] # Garbage => Before(got[i], got[j])
        /\ \A i \in 1..Len(got), j \in 1..Len(wire) :
             got[i] # Garbage /\ wire[j][2] = 1 => Before(got[i], wire[j][1])
        /\ \A i \in 1..Len(got) : got[i] # Garbage => Before(got[i], enc[1][1])
    BY <1>2 DEF Ordered
  <2>2. \A i \in 1..Len(got), j \in 1..Len(wire') :
             got[i] # Garbage /\ wire'[j][2] = 1 => Before(got[i], wire'[j][1])
    BY <1>7, <2>1
  <2>3. QED
    BY <1>8, <2>1, <2>2 DEF Ordered, Before
<1>11. SafeAlone'
  <2>1. CASE received + n > Len(buf)
    <3>1. n > total - received
      BY <1>5, <2>1
    <3>2. QED
      BY <1>1, <3>1 DEF SafeAlone
  <2>2. CASE UNCHANGED status
    BY <1>1, <1>2, <2>2 DEF SafeAlone
  <2>3. QED
    BY <1>1, <2>1, <2>2
<1>12. QED
  BY <1>3, <1>6, <1>9, <1>10, <1>11

\* A piece of a body of an undisturbed stream is the next of that body.
LEMMA BodyStreaming ==
  ASSUME LinkTypes, Bounds, Sends, Apart, Streaming, ReadBody
  PROVE  Streaming'
<1> SUFFICES ASSUME causes' = {}
             PROVE  Joined' /\ Beginning' /\ Ending' /\ Reader' /\ Turns'
  BY DEF Streaming
<1>1. PICK n \in 1..Len(wire) :
           /\ n <= total
           /\ causes' = IF n > total - received THEN causes \cup {"beyond"} ELSE causes
           /\ wire' \in Seq(Units) /\ Len(wire') = Len(wire) - n
           /\ \A i \in 1..(Len(wire) - n) : wire'[i] = wire[n + i]
           /\ \/ /\ received + n > Len(buf) /\ status' = "undefined"
                 /\ UNCHANGED <<buf, received, rpc>>
              \/ /\ received + n <= Len(buf) /\ received' = received + n
                 /\ rpc' = IF received' < total THEN "body" ELSE "decrypt"
                 /\ buf' \in Seq(Units \cup {NoUnit}) /\ Len(buf') = Len(buf)
                 /\ \A i \in 1..Len(buf) :
                      buf'[i] = IF i \in (received + 1)..(received + n)
                                THEN wire[i - received] ELSE buf[i]
                 /\ UNCHANGED status
  BY BodyFacts
<1>2. UNCHANGED <<sendVars, got, goodbyes, closed, enc, total>> /\ rpc = "body"
  BY DEF ReadBody, Reads
<1>3. n <= total - received /\ causes = {}
  <2>1. ~(n > total - received) /\ causes = {}
    BY <1>1
  <2>2. QED
    BY <2>1 DEF LinkTypes
<1>4. Joined /\ Beginning /\ Ending /\ Reader /\ Turns
  BY <1>2, <1>3 DEF Streaming
<1>5. sent' = sent /\ pc' = pc /\ off' = off /\ todo' = todo
  BY <1>2 DEF sendVars
<1>6. /\ Len(wire) \in Nat /\ wire # <<>> /\ Len(got) \in Nat /\ Len(sent) \in Nat
      /\ received \in Nat /\ total \in Nat /\ Len(buf) \in Nat /\ total <= Len(buf)
  BY <1>2, EmptySeq DEF LinkTypes, Bounds
<1> DEFINE m == sent[Len(got) + 1]
<1>7. /\ Len(got) + 1 \in 1..Len(sent) /\ wire[1] = <<m, received + 3>> /\ m \in Msgs
      /\ enc = <<<<m, 1>>, <<m, 2>>>> /\ total = BodyLen[m]
      /\ \A i \in 1..received : buf[i] = <<m, i + 2>>
  <2>1. Len(got) + 1 <= Len(sent) /\ wire[1] = <<m, received + 3>>
    BY <1>2, <1>4, <1>6 DEF Beginning, Front, FrontUnit
  <2>2. /\ enc = <<<<m, 1>>, <<m, 2>>>> /\ total = BodyLen[m]
        /\ \A i \in 1..received : buf[i] = <<m, i + 2>>
    BY <1>2, <1>4 DEF Reader
  <2>3. QED
    BY <1>6, <2>1, <2>2 DEF LinkTypes
<1> HIDE DEF m
<1>8. FrameLen(m) \in Nat /\ FrameLen(m) = total + 2
  BY <1>6, <1>7 DEF FrameLen
<1>9. ASSUME NEW k \in 1..Len(wire), k <= total - received
      PROVE  wire[k] = <<m, received + 2 + k>>
  <2>1. CASE k = 1
    BY <1>6, <1>7, <2>1
  <2>2. CASE k # 1
    <3>1. 1 \in 1..Len(wire) /\ 1 < k
      BY <1>6, <2>2
    <3>2. wire[1][2] + (k - 1) <= FrameLen(wire[1][1]) =>
            wire[k] = <<wire[1][1], wire[1][2] + (k - 1)>>
      BY <1>4, <3>1 DEF Joined
    <3>3. wire[1][1] = m /\ wire[1][2] = received + 3
      BY <1>7
    <3>4. (received + 3) + (k - 1) = received + 2 + k
          /\ (received + 3) + (k - 1) <= total + 2
      BY <1>6, <1>9
    <3>5. QED
      BY <1>8, <3>2, <3>3, <3>4
  <2>3. QED
    BY <2>1, <2>2
<1>10. /\ received' = received + n /\ received' <= total /\ received' \in Nat
       /\ rpc' = IF received' < total THEN "body" ELSE "decrypt"
       /\ Len(buf') = Len(buf)
       /\ \A i \in 1..Len(buf) :
            buf'[i] = IF i \in (received + 1)..(received + n)
                      THEN wire[i - received] ELSE buf[i]
  <2>1. received + n <= total /\ ~(received + n > Len(buf))
    BY <1>3, <1>6
  <2>2. QED
    BY <1>1, <1>6, <2>1
<1>11. wire[n] = <<m, received' + 2>> /\ wire[n][1] = m /\ wire[n][2] = received' + 2
  <2>1. received + 2 + n = received' + 2
    BY <1>6, <1>10
  <2>2. wire[n] = <<m, received + 2 + n>>
    BY <1>3, <1>9
  <2>3. QED
    BY <2>1, <2>2
<1>12. /\ received' < total => Front' = Len(got) + 1 /\ FrontUnit' = received' + 3
       /\ received' = total => Front' = Len(got) + 2 /\ FrontUnit' = 1
  BY <1>2, <1>6, <1>10 DEF Front, FrontUnit
<1>13. Joined' /\ Ending'
  <2>1. \E p \in 1..Len(sent) :
             \/ /\ wire[n][1] = sent[p] /\ wire[n][2] < FrameLen(sent[p])
                /\ Front' = p /\ FrontUnit' = wire[n][2] + 1
             \/ /\ wire[n] = <<sent[p], FrameLen(sent[p])>>
                /\ Front' = p + 1 /\ FrontUnit' = 1
    <3> DEFINE p == Len(got) + 1
    <3>1. p \in 1..Len(sent) /\ sent[p] = m /\ p + 1 = Len(got) + 2
      BY <1>6, <1>7 DEF m
    <3> HIDE DEF p
    <3>2. CASE received' < total
      <4>1. Front' = p /\ FrontUnit' = received' + 3
        BY <1>12, <3>2 DEF p
      <4>2. received' + 2 < total + 2 /\ received' + 3 = (received' + 2) + 1
        BY <1>6, <1>10, <3>2
      <4>3. QED
        BY <1>8, <1>11, <3>1, <4>1, <4>2
    <3>3. CASE received' = total
      BY <1>8, <1>11, <1>12, <3>1, <3>3
    <3>4. received' < total \/ received' = total
      BY <1>6, <1>10
    <3>5. QED
      BY <3>2, <3>3, <3>4
  <2>2. QED
    BY <1>1, <1>2, <1>4, <2>1, StreamLeft
<1>14. Beginning'
  <2> SUFFICES ASSUME wire' # <<>>
               PROVE  Front' <= Len(sent) /\ wire'[1] = <<sent[Front'], FrontUnit'>>
    BY <1>5 DEF Beginning
  <2>1. Len(wire') \in Nat /\ Len(wire') # 0
    BY <1>1, EmptySeq
  <2>2. wire'[1] = wire[n + 1] /\ n + 1 \in 1..Len(wire)
    BY <1>1, <1>6, <2>1
  <2>3. CASE received' < total
    <3>1. n + 1 <= total - received /\ received + 2 + (n + 1) = received' + 3
      BY <1>6, <1>10, <2>3
    <3>2. wire'[1] = <<m, received' + 3>>
      BY <1>9, <2>2, <3>1
    <3>3. Front' = Len(got) + 1 /\ FrontUnit' = received' + 3
      BY <1>12, <2>3
    <3>4. QED
      BY <1>7, <3>2, <3>3 DEF m
  <2>4. CASE received' = total
    <3>1. wire[n][2] = FrameLen(wire[n][1]) /\ wire[n][1] = sent[Len(got) + 1]
      BY <1>8, <1>11, <2>4 DEF m
    <3>2. Len(got) + 1 < Len(sent) /\ wire[n + 1] = <<sent[(Len(got) + 1) + 1], 1>>
      <4>1. n < n + 1
        OBVIOUS
      <4>2. \A q \in 1..Len(sent) :
              sent[q] = wire[n][1] => q < Len(sent) /\ wire[n + 1] = <<sent[q + 1], 1>>
        BY <1>4, <2>2, <3>1, <4>1 DEF Joined
      <4>3. QED
        BY <1>7, <3>1, <4>2
    <3>3. Front' = Len(got) + 2 /\ FrontUnit' = 1 /\ (Len(got) + 1) + 1 = Len(got) + 2
      BY <1>6, <1>12, <2>4
    <3>4. QED
      BY <1>6, <2>2, <3>2, <3>3
  <2>5. QED
    BY <1>6, <1>10, <2>3, <2>4
<1>15. Reader'
  <2>1. \A i \in 1..Len(got') : i <= Len(sent') /\ got'[i] = sent'[i]
    BY <1>2, <1>4, <1>5 DEF Reader
  <2>2. Len(got') < Len(sent') /\ sent'[Len(got') + 1] = m
    BY <1>2, <1>5, <1>6, <1>7 DEF m
  <2>3. ASSUME NEW i \in 1..received'
        PROVE  buf'[i] = <<m, i + 2>>
    <3>1. i \in 1..Len(buf)
      BY <1>6, <1>10
    <3>2. CASE i <= received
      <4>1. i \in 1..received /\ i \notin (received + 1)..(received + n)
        BY <1>6, <3>2
      <4>2. QED
        BY <1>7, <1>10, <3>1, <4>1
    <3>3. CASE i > received
      <4>1. /\ i \in (received + 1)..(received + n)
            /\ i - received \in 1..Len(wire) /\ i - received <= total - received
            /\ received + 2 + (i - received) = i + 2
        BY <1>6, <1>10, <3>3
      <4>2. buf'[i] = wire[i - received]
        BY <1>10, <3>1, <4>1
      <4>3. wire[i - received] = <<m, received + 2 + (i - received)>>
        BY <1>9, <4>1
      <4>4. QED
        BY <4>1, <4>2, <4>3
    <3>4. i \in Nat /\ (i <= received \/ i > received)
      BY <1>6, <1>10
    <3>5. QED
      BY <3>2, <3>3, <3>4
  <2>4. /\ rpc' # "gone" /\ goodbyes' = 0
        /\ rpc' = "decrypt" => received' = total
    BY <1>2, <1>4, <1>6, <1>10 DEF Reader
  <2>5. enc' = enc /\ total' = total /\ total <= Len(buf')
    BY <1>2, <1>6, <1>10
  <2>6. QED
    BY <1>7, <2>1, <2>2, <2>3, <2>4, <2>5 DEF Reader
<1>16. Turns'
  BY <1>2, <1>4, <1>5, <1>10 DEF Turns
<1>17. QED
  BY <1>13, <1>14, <1>15, <1>16


\* The end of the stream: between two frames, or there was a cause.
LEMMA EndsKeep ==
  ASSUME LinkTypes, Bounds, Sends, Apart, Encrypted, Known, Headers, Ordered,
         Streaming, SafeAlone, HeaderEnds \/ BodyEnds
  PROVE  /\ Sends' /\ Apart' /\ Encrypted' /\ Known' /\ Headers' /\ Ordered'
         /\ Streaming' /\ SafeAlone'
<1>1. /\ UNCHANGED <<sendVars, enc, total, buf, got, wire, causes, status>>
      /\ wire = <<>> /\ closed # "no" /\ closed' # "no" /\ Goodbye
      /\ \/ rpc = "select" /\ rpc' = "gone"
         \/ rpc = "body" /\ rpc' \in {"body", "decrypt"}
  BY DEF HeaderEnds, BodyEnds, Reads
<1>2. /\ Sends' /\ Apart' /\ Encrypted'
      /\ \A a : Entered(a)' <=> Entered(a)
      /\ \A u : Whole(u)' <=> Whole(u)
      /\ \A a, b : Before(a, b)' <=> Before(a, b)
  BY <1>1, ReadingKeeps
<1>3. sent' = sent /\ pc' = pc /\ off' = off
  BY <1>1 DEF sendVars
<1>4. Known'
  BY <1>1, <1>3 DEF Known, Whole, Entered, FrameLen
<1>5. Headers'
  BY <1>1, <1>3 DEF Headers, Before
<1>6. Ordered'
  BY <1>1, <1>3 DEF Ordered, Before
<1>7. ASSUME causes' = {}
      PROVE  Joined' /\ (rpc' # "gone" => Beginning' /\ Ending') /\ Reader' /\ Turns'
  <2>1. Joined /\ Reader /\ Turns /\ Beginning /\ Ending
    BY <1>1, <1>7 DEF Streaming
  <2>2. CASE rpc = "body"
    <3>1. \A s \in Senders : ~Partial(s)
      BY <1>1, <2>1 DEF Turns, Partial
    <3>2. received + 3 = 1
      BY <1>1, <2>1, <2>2, <3>1 DEF Ending, FrontUnit
    <3>3. QED
      BY <3>2 DEF LinkTypes
  <2>3. CASE rpc = "select" /\ rpc' = "gone"
    <3>1. goodbyes' <= 1
      <4>1. goodbyes = 0 /\ MaxGoodbyes \in Nat
        BY <2>1, <2>3, GoodbyesAssumption DEF Reader
      <4>2. QED
        BY <1>1, <4>1 DEF Goodbye, SmallerOf
    <3>2. Reader'
      BY <1>1, <1>3, <2>1, <2>3, <3>1 DEF Reader
    <3>3. Turns' /\ Joined'
      BY <1>1, <1>3, <2>1, <2>3 DEF Turns, Joined, FrameLen
    <3>4. QED
      BY <2>3, <3>2, <3>3
  <2>4. QED
    BY <1>1, <2>2, <2>3
<1>8. SafeAlone'
  BY <1>1 DEF SafeAlone
<1>9. Streaming'
  BY <1>7 DEF Streaming
<1>10. QED
  BY <1>2, <1>4, <1>5, <1>6, <1>8, <1>9

\* The first unit of what was decrypted: its message entered the stream.
LEMMA PlainEntered ==
  ASSUME LinkTypes, Bounds, Known, rpc = "decrypt", Plain # Garbage
  PROVE  /\ Plain \in Msgs /\ Entered(Plain) /\ BodyLen[Plain] = total
         /\ buf[1] = <<Plain, 3>>
         /\ Opens(frames[Plain].text, Plain, frames[enc[1][1]].salt)
<1>1. /\ Plain \in Msgs /\ BodyLen[Plain] = total
      /\ SubSeq(buf, 1, total) = Body(Plain)
      /\ Opens(frames[Plain].text, Plain, frames[enc[1][1]].salt)
  BY PlainFacts
<1>2. total \in Nat /\ total >= 1 /\ Len(buf) \in Nat /\ total <= Len(buf)
  BY <1>1, BodyAssumption DEF LinkTypes, Bounds
<1>3. SubSeq(buf, 1, total)[1] = buf[1]
  BY <1>2 DEF LinkTypes
<1>4. Body(Plain)[1] = <<Plain, 3>>
  BY <1>1, <1>2 DEF Body
<1>5. 1 \in 1..Len(buf) /\ buf[1] = <<Plain, 3>> /\ buf[1] # NoUnit
  BY <1>1, <1>2, <1>3, <1>4 DEF NoUnit
<1>6. Whole(buf[1])
  BY <1>5 DEF Known
<1>7. QED
  BY <1>1, <1>5, <1>6 DEF Whole

\* With every frame under its own salt, what is decrypted is the message of
\* the header.
LEMMA PlainHeader ==
  ASSUME LinkTypes, Bounds, Known, Encrypted, Headers, "overlap" \notin causes,
         rpc = "decrypt", Plain # Garbage
  PROVE  Plain = enc[1][1]
<1>1. /\ Plain \in Msgs /\ Entered(Plain)
      /\ Opens(frames[Plain].text, Plain, frames[enc[1][1]].salt)
  BY PlainEntered
<1>2. \A m : Entered(m) => Good(m)
  BY DEF Encrypted, Entered
<1>3. Good(Plain)
  BY <1>1, <1>2
<1>4. Good(enc[1][1])
  BY <1>2 DEF Known, Headers, Whole
<1>5. frames[enc[1][1]].salt = enc[1][1]
  BY <1>4 DEF Good
<1>6. frames[Plain].text.body.key = <<Plain, Plain>>
  BY <1>3 DEF Good, Right
<1>7. frames[Plain].text.body.key = <<Plain, enc[1][1]>>
  BY <1>1, <1>5 DEF Opens
<1>8. QED
  BY <1>6, <1>7

\* What is decrypted of an undisturbed stream is its next message.
LEMMA PlainNext ==
  ASSUME LinkTypes, Bounds, Known, Encrypted, Reader, causes = {}, rpc = "decrypt"
  PROVE  Plain = sent[Len(got) + 1] /\ Len(got) < Len(sent)
<1> DEFINE m == sent[Len(got) + 1]
           Fits(k) == /\ BodyLen[k] = total
                      /\ SubSeq(buf, 1, total) = Body(k)
                      /\ Opens(frames[k].text, k, frames[enc[1][1]].salt)
           fitting == {k \in Msgs : Fits(k)}
<1>1. Len(got) \in Nat /\ Len(sent) \in Nat /\ Len(got) < Len(sent)
  BY DEF Reader, LinkTypes
<1>2. Len(got) + 1 \in 1..Len(sent) /\ m \in Msgs
  BY <1>1 DEF LinkTypes
<1>3. /\ enc = <<<<m, 1>>, <<m, 2>>>> /\ total = BodyLen[m] /\ total <= Len(buf)
      /\ \A i \in 1..total : buf[i] = <<m, i + 2>>
  BY DEF Reader
<1>4. Good(m) /\ enc[1][1] = m
  BY <1>2, <1>3 DEF Encrypted
<1> HIDE DEF m
<1>5. total \in Nat /\ total >= 1 /\ Len(buf) \in Nat /\ buf \in Seq(Units \cup {NoUnit})
  BY <1>2, <1>3, BodyAssumption DEF LinkTypes
<1>6. SubSeq(buf, 1, total) = Body(m)
  <2>1. \A i \in 1..total : buf[i] \in Units \cup {NoUnit}
    BY <1>3, <1>5
  <2>2. SubSeq(buf, 1, total) = [i \in 1..total |-> buf[i]]
    BY <1>3, <1>5
  <2>3. QED
    BY <1>3, <2>2 DEF Body
<1>7. Opens(frames[m].text, m, frames[enc[1][1]].salt)
  BY <1>4 DEF Good, Opens, Right
<1>8. m \in fitting
  BY <1>2, <1>3, <1>6, <1>7
<1>9. Plain = CHOOSE k \in fitting : TRUE
  <2>1. fitting # {}
    BY <1>8
  <2>2. Plain = IF fitting = {} THEN Garbage ELSE CHOOSE k \in fitting : TRUE
    BY DEF Plain
  <2>3. QED
    BY <2>1, <2>2
<1>10. Plain \in fitting
  BY <1>8, <1>9
<1>11. Plain # Garbage
  BY <1>10, GarbageAssumption
<1>12. buf[1] = <<Plain, 3>>
  BY <1>11, PlainEntered
<1>13. buf[1] = <<m, 3>>
  BY <1>3, <1>5
<1>14. QED
  BY <1>1, <1>12, <1>13 DEF m


\* Decryption: the next message in order, or nothing that can be read.
LEMMA DecryptKeeps ==
  ASSUME LinkTypes, Bounds, Sends, Apart, Encrypted, Known, Headers, Ordered,
         Streaming, SafeAlone, Decrypt
  PROVE  /\ Sends' /\ Apart' /\ Encrypted' /\ Known' /\ Headers' /\ Ordered'
         /\ Streaming' /\ SafeAlone'
<1>1. /\ UNCHANGED <<sendVars, enc, total, buf, received, goodbyes, wire, closed,
                     causes, status>>
      /\ rpc = "decrypt" /\ got' = Append(got, Plain)
      /\ rpc' = IF goodbyes > 0 THEN "gone" ELSE "select"
  BY DEF Decrypt, Reads
<1>2. /\ Sends' /\ Apart' /\ Encrypted'
      /\ \A s \in Senders : (Partial(s)' <=> Partial(s)) /\ Msg(s)' = Msg(s)
  BY <1>1, ReadingKeeps
<1>3. sent' = sent /\ pc' = pc /\ off' = off
  BY <1>1 DEF sendVars
<1>4. Plain \in Msgs \cup {Garbage}
  BY PlainFacts
<1>5. /\ Len(got) \in Nat /\ Len(got') = Len(got) + 1
      /\ got'[Len(got) + 1] = Plain
      /\ \A i \in 1..Len(got) : got'[i] = got[i]
      /\ \A i \in 1..Len(got') : i \in 1..Len(got) \/ i = Len(got) + 1
  <2>1. got \in Seq(Msgs \cup {Garbage}) /\ Len(got) \in Nat
    BY DEF LinkTypes
  <2>2. QED
    BY <1>1, <1>4, <2>1, AppendProperties
<1>6. Known'
  <2>1. Plain = Garbage \/ Entered(Plain)
    BY <1>1, PlainEntered
  <2>2. ASSUME NEW i \in 1..Len(got')
        PROVE  got'[i] = Garbage \/ Entered(got'[i])
    BY <1>5, <2>1, <2>2 DEF Known
  <2>3. QED
    BY <1>1, <1>3, <2>2 DEF Known, Whole, Entered, FrameLen
<1>7. Headers'
  BY <1>1, <1>3 DEF Headers, Before
<1>8. Ordered'
  <2> SUFFICES ASSUME "overlap" \notin causes
               PROVE  Ordered'
    BY <1>1 DEF Ordered
  <2>1. Plain # Garbage => Plain = enc[1][1]
    BY <1>1, PlainHeader
  <2>2. ASSUME NEW i \in 1..Len(got'), NEW j \in 1..Len(got'), i < j,
               got'[i] # Garbage, got'[j] # Garbage
        PROVE  Before(got'[i], got'[j])
    <3>1. CASE j = Len(got) + 1
      <4>1. i \in 1..Len(got) /\ got'[j] = enc[1][1]
        BY <1>5, <2>1, <2>2, <3>1
      <4>2. QED
        BY <1>1, <1>5, <2>2, <4>1 DEF Ordered
    <3>2. CASE j # Len(got) + 1
      <4>1. i \in 1..Len(got) /\ j \in 1..Len(got)
        BY <1>5, <2>2, <3>2
      <4>2. QED
        BY <1>5, <2>2, <4>1 DEF Ordered
    <3>3. QED
      BY <3>1, <3>2
  <2>3. ASSUME NEW i \in 1..Len(got'), NEW j \in 1..Len(wire),
               got'[i] # Garbage, wire[j][2] = 1
        PROVE  Before(got'[i], wire[j][1])
    <3>1. CASE i = Len(got) + 1
      <4>1. got'[i] = enc[1][1]
        BY <1>5, <2>1, <2>3, <3>1
      <4>2. QED
        BY <1>1, <2>3, <4>1 DEF Headers
    <3>2. CASE i \in 1..Len(got)
      BY <1>5, <2>3, <3>2 DEF Ordered
    <3>3. QED
      BY <1>5, <3>1, <3>2
  <2>4. rpc' \notin {"body", "decrypt"} /\ wire' = wire
    BY <1>1
  <2>5. \A a, b : Before(a, b) <=>
          \A k, l \in 1..Len(sent') : sent'[k] = a /\ sent'[l] = b => k < l
    BY <1>3 DEF Before
  <2>6. /\ \A i, j \in 1..Len(got') : i < j /\ got'[i] # Garbage /\ got'[j] # Garbage
             => \A k, l \in 1..Len(sent') :
                  sent'[k] = got'[i] /\ sent'[l] = got'[j] => k < l
        /\ \A i \in 1..Len(got'), j \in 1..Len(wire') :
             got'[i] # Garbage /\ wire'[j][2] = 1
             => \A k, l \in 1..Len(sent') :
                  sent'[k] = got'[i] /\ sent'[l] = wire'[j][1] => k < l
    BY <2>2, <2>3, <2>4, <2>5
  <2>7. QED
    BY <2>4, <2>6 DEF Ordered, Before
<1>9. ASSUME causes = {}
      PROVE  Joined' /\ Beginning' /\ Ending' /\ Reader' /\ Turns' /\ rpc' # "gone"
  <2>1. Joined /\ Reader /\ Turns /\ Beginning /\ Ending
    BY <1>1, <1>9 DEF Streaming
  <2>2. Plain = sent[Len(got) + 1] /\ Len(got) < Len(sent)
    BY <1>1, <1>9, <2>1, PlainNext
  <2>3. goodbyes = 0 /\ rpc' = "select"
    BY <1>1, <2>1 DEF Reader
  <2>4. Front' = Front /\ FrontUnit' = FrontUnit
    <3>1. Front = Len(got) + 2 /\ Front' = Len(got') + 1
      BY <1>1, <2>3 DEF Front
    <3>2. FrontUnit = 1 /\ FrontUnit' = 1
      BY <1>1, <2>3 DEF FrontUnit
    <3>3. QED
      BY <1>5, <3>1, <3>2
  <2>5. Beginning'
    BY <1>1, <1>3, <2>1, <2>4 DEF Beginning
  <2>6. Ending'
    BY <1>1, <1>2, <1>3, <2>1, <2>4 DEF Ending, FrameLen
  <2>7. Reader'
    <3>1. ASSUME NEW i \in 1..Len(got')
          PROVE  i <= Len(sent) /\ got'[i] = sent[i]
      <4>1. CASE i \in 1..Len(got)
        BY <1>5, <2>1, <4>1 DEF Reader
      <4>2. CASE i = Len(got) + 1
        <5>1. Len(sent) \in Nat
          BY DEF LinkTypes
        <5>2. Len(got) + 1 <= Len(sent)
          BY <1>5, <2>2, <5>1
        <5>3. QED
          BY <1>5, <2>2, <4>2, <5>2
      <4>3. QED
        BY <1>5, <4>1, <4>2
    <3>2. QED
      BY <1>1, <1>3, <2>3, <3>1 DEF Reader
  <2>8. Turns' /\ Joined'
    BY <1>1, <1>3, <2>1, <2>3 DEF Turns, Joined, FrameLen
  <2>9. QED
    BY <2>3, <2>5, <2>6, <2>7, <2>8
<1>10. SafeAlone'
  BY <1>1 DEF SafeAlone
<1>11. Streaming'
  BY <1>1, <1>9 DEF Streaming
<1>12. QED
  BY <1>2, <1>6, <1>7, <1>8, <1>10, <1>11

\* The sending core goes: in the middle of a frame only with a cause.
LEMMA CloseKeeps ==
  ASSUME LinkIInv, NEW how \in {"eof", "reset"}, Close(how)
  PROVE  LinkIInv'
<1> USE DEF LinkIInv
<1>1. /\ UNCHANGED <<sendVars, readVars, wire, status>> /\ closed' = how
      /\ causes' = IF Waiting # {} THEN causes \cup {"cut"} ELSE causes
  BY DEF Close, Cause
<1>2. causes \subseteq causes' /\ ("overlap" \notin causes' => "overlap" \notin causes)
  BY <1>1
<1>3. /\ Sends' /\ Apart' /\ Encrypted'
      /\ \A s \in Senders : (Partial(s)' <=> Partial(s)) /\ Msg(s)' = Msg(s)
  BY <1>1, <1>2, ReadingKeeps
<1>4. LinkTypes' /\ Bounds'
  BY <1>1 DEF LinkTypes, Bounds, sendVars, readVars, Causes
<1>5. Known' /\ Headers' /\ Ordered'
  <2>1. UNCHANGED <<sent, wire, got, rpc, enc, buf>>
    BY <1>1 DEF sendVars, readVars
  <2>2. Known'
    BY <2>1 DEF Known, Whole, Entered, FrameLen
  <2>3. Headers'
    BY <2>1 DEF Headers, Before
  <2>4. Ordered'
    BY <1>2, <2>1 DEF Ordered, Before
  <2>5. QED
    BY <2>2, <2>3, <2>4
<1>6. ASSUME causes' = {}
      PROVE  Joined' /\ (rpc' # "gone" => Beginning' /\ Ending') /\ Reader' /\ Turns'
  <2>1. causes = {} /\ Waiting = {}
    BY <1>1, <1>6
  <2>2. UNCHANGED <<sent, pc, off, wire, got, rpc, enc, total, buf, received, goodbyes>>
    BY <1>1 DEF sendVars, readVars
  <2>3. Joined /\ (rpc # "gone" => Beginning /\ Ending) /\ Reader /\ Turns
    BY <2>1 DEF Streaming
  <2>4. Joined' /\ (rpc' # "gone" => Beginning')
    BY <2>2, <2>3 DEF Joined, Beginning, Front, FrontUnit, FrameLen
  <2>5. rpc' # "gone" => Ending'
    BY <1>3, <2>2, <2>3 DEF Ending, Front, FrontUnit, FrameLen
  <2>6. Reader'
    BY <2>2, <2>3 DEF Reader
  <2>7. Turns'
    BY <1>1, <2>1, <2>2, <2>3 DEF Turns, Waiting
  <2>8. QED
    BY <2>4, <2>5, <2>6, <2>7
<1>7. SafeAlone'
  BY <1>1, <1>2 DEF SafeAlone
<1>8. QED
  BY <1>3, <1>4, <1>5, <1>6, <1>7 DEF Streaming

\* A cipher context is used after it was cleaned only when threads overlap.
LEMMA PreparingSafe ==
  ASSUME LinkTypes, Sends, Encrypted, SafeAlone, NEW s \in Senders, Preparing(s)
  PROVE  SafeAlone'
<1>1. causes \subseteq causes'
  BY DEF Preparing, TimeOut, Encrypt, Salt, Derive, Context, EncryptUpdate, EncryptFinal,
         Flag, Unflag, Cause
<1>2. CASE status' = status
  BY <1>1, <1>2 DEF SafeAlone
<1>3. CASE status' # status
  <2>1. (EncryptUpdate(s) \/ EncryptFinal(s)) /\ cipher.ctx.key = NoKey
    BY <1>3 DEF Preparing, TimeOut, Encrypt, Salt, Derive, Context, EncryptUpdate,
       EncryptFinal, Flag, Unflag
  <2>2. pc[s] \in {"update", "final"} /\ causes' = causes
    BY <2>1 DEF EncryptUpdate, EncryptFinal, Runs
  <2>3. ASSUME causes = {}
        PROVE  FALSE
    <3>1. Keyed(s)
      BY <2>3 DEF Encrypted
    <3>2. cipher.ctx.key = <<Msg(s), Msg(s)>>
      BY <2>2, <3>1 DEF Keyed, Right
    <3>3. Msg(s) = NoMsg
      BY <2>1, <3>2 DEF NoKey
    <3>4. Msg(s) \in Msgs
      BY <2>2, MsgFacts DEF Sends
    <3>5. QED
      BY <3>3, <3>4, NoMsgAssumption
  <2>4. QED
    BY <2>2, <2>3 DEF SafeAlone
<1>4. QED
  BY <1>2, <1>3


-----------------------------------------------------------------------------
\* The invariant

\* The connection begins with the invariant.
LEMMA LinkInit ==
  ASSUME Init
  PROVE  LinkIInv
<1> USE DEF Init
<1>1. LinkTypes
  <2>1. Cleaned \in Contexts
    BY DEF Cleaned, Contexts
  <2>2. Fresh \in Ciphers /\ NoText \in Ciphertexts
    BY <2>1 DEF Fresh, Ciphers, NoText, Ciphertexts
  <2>3. cipher \in Ciphers /\ text \in [Senders -> Ciphertexts]
        /\ frames \in [Msgs -> [salt : Msgs \cup {NoMsg}, text : Ciphertexts]]
    BY <2>2
  <2>4. todo \in [Senders -> Seq(Msgs)]
    BY PlanAssumption
  <2>5. pc \in [Senders -> Pcs] /\ key \in [Senders -> Keys \cup {NoKey}]
        /\ off \in [Senders -> Nat]
    BY DEF Pcs
  <2>6. enc \in [1..2 -> Units \cup {NoUnit}]
    OBVIOUS
  <2>7. sent \in Seq(Msgs) /\ wire \in Seq(Units) /\ buf \in Seq(Units \cup {NoUnit})
        /\ got \in Seq(Msgs \cup {Garbage})
    BY EmptySeq
  <2>8. QED
    BY <2>3, <2>4, <2>5, <2>6, <2>7 DEF LinkTypes, Causes
<1>2. Len(wire) = 0 /\ Len(got) = 0 /\ Len(sent) = 0 /\ Len(buf) = 0
  BY EmptySeq
<1>3. Bounds
  BY <1>2, CapacityAssumption, WidthAssumption, GoodbyesAssumption, LongestFacts DEF Bounds
<1>4. Sends
  BY DEF Sends
<1>5. Apart
  <2>1. ASSUME NEW s \in Senders, NEW t \in Senders,
               NEW i \in 1..Len(todo[s]), NEW j \in 1..Len(todo[t]),
               todo[s][i] = todo[t][j]
        PROVE  s = t /\ i = j
    <3>1. Plan[s] \in Seq(Msgs) /\ Plan[t] \in Seq(Msgs)
      BY PlanAssumption
    <3>2. DOMAIN Plan[s] = 1..Len(Plan[s]) /\ DOMAIN Plan[t] = 1..Len(Plan[t])
      BY <3>1
    <3>3. QED
      BY <2>1, <3>2, PlanAssumption
  <2>2. QED
    BY <1>2, <2>1 DEF Apart, Entered
<1>6. Known
  BY <1>2 DEF Known
<1>7. Encrypted
  BY <1>2 DEF Encrypted, Keyed, Encrypting
<1>8. Headers /\ Ordered
  BY <1>2 DEF Headers, Ordered
<1>9. Streaming
  <2>1. Joined
    BY <1>2 DEF Joined
  <2>2. Beginning
    BY DEF Beginning
  <2>3. Ending
    BY <1>2 DEF Ending, Partial, Front, FrontUnit
  <2>4. Reader
    BY <1>2 DEF Reader
  <2>5. Turns
    BY DEF Turns
  <2>6. QED
    BY <2>1, <2>2, <2>3, <2>4, <2>5 DEF Streaming
<1>10. SafeAlone
  BY DEF SafeAlone
<1>11. QED
  BY <1>1, <1>3, <1>4, <1>5, <1>6, <1>7, <1>8, <1>9, <1>10 DEF LinkIInv

\* Every step of a thread, of the peer and of read_thread keeps the invariant.
LEMMA LinkStep ==
  ASSUME LinkIInv, [Next]_vars
  PROVE  LinkIInv'
<1> USE DEF LinkIInv
<1>1. ASSUME NEW s \in Senders, Sending(s)
      PROVE  LinkIInv'
  <2>1. CASE Preparing(s)
    <3>1. LinkTypes' /\ Bounds'
      BY <2>1, PreparingTypes
    <3>2. Sends' /\ Apart' /\ Known' /\ Headers' /\ Ordered' /\ Streaming'
      BY <2>1, PreparingKeeps
    <3>3. Encrypted'
      BY <2>1, PreparingEncrypted
    <3>4. SafeAlone'
      BY <2>1, PreparingSafe
    <3>5. QED
      BY <3>1, <3>2, <3>3, <3>4
  <2>2. CASE Send(s) \/ SendOn(s)
    <3>1. LinkTypes' /\ Bounds'
      BY <2>2, SendingTypes
    <3>2. Sends' /\ Apart' /\ Known'
      BY <2>2, SendingKeepsApart
    <3>3. Encrypted'
      BY <2>2, SendingEncrypted
    <3>4. Headers' /\ Ordered'
      BY <2>2, SendingOrdered
    <3>5. Streaming'
      BY <2>2, SendingStreaming
    <3>6. SafeAlone'
      BY <2>2, SendingOutcome DEF SafeAlone
    <3>7. QED
      BY <3>1, <3>2, <3>3, <3>4, <3>5, <3>6
  <2>3. QED
    BY <1>1, <2>1, <2>2 DEF Sending, Preparing
<1>2. ASSUME NEW how \in {"eof", "reset"}, Close(how)
      PROVE  LinkIInv'
  BY <1>2, CloseKeeps
<1>3. ASSUME Reading
      PROVE  LinkIInv'
  <2>1. LinkTypes' /\ Bounds'
    BY <1>3, ReadingTypes
  <2>2. CASE ReadHeader
    <3>1. Sends' /\ Apart' /\ Encrypted' /\ Known' /\ Headers' /\ Ordered'
      BY <2>2, HeaderOrdered
    <3>2. Streaming'
      BY <2>2, HeaderStreaming
    <3>3. SafeAlone'
      BY <2>2 DEF ReadHeader, Reads, SafeAlone
    <3>4. QED
      BY <2>1, <3>1, <3>2, <3>3
  <2>3. CASE ReadBody
    <3>1. Streaming'
      BY <2>3, BodyStreaming
    <3>2. QED
      BY <2>1, <2>3, <3>1, BodyOrdered
  <2>4. CASE HeaderEnds \/ BodyEnds
    BY <2>1, <2>4, EndsKeep
  <2>5. CASE Decrypt
    BY <2>1, <2>5, DecryptKeeps
  <2>6. QED
    BY <1>3, <2>2, <2>3, <2>4, <2>5 DEF Reading
<1>4. ASSUME UNCHANGED vars
      PROVE  LinkIInv'
  <2>1. UNCHANGED <<sendVars, readVars, wire, closed, causes, status>>
    BY <1>4 DEF vars
  <2>2. UNCHANGED <<cipher, todo, pc, key, text, frames, off, nonblock, sent, rpc, enc,
                    total, buf, received, got, goodbyes>>
    BY <2>1 DEF sendVars, readVars
  <2>3. LinkTypes' /\ Bounds'
    BY <2>1, <2>2 DEF LinkTypes, Bounds
  <2>4. Sends' /\ Apart' /\ Encrypted'
    BY <2>1, ReadingKeeps
  <2>5. Known'
    BY <2>1, <2>2 DEF Known, Whole, Entered, FrameLen
  <2>6. Headers'
    BY <2>1, <2>2 DEF Headers, Before
  <2>7. Ordered'
    BY <2>1, <2>2 DEF Ordered, Before
  <2>8. Streaming'
    <3>1. Joined' <=> Joined
      BY <2>1, <2>2 DEF Joined, FrameLen
    <3>2. (Beginning' <=> Beginning) /\ (Ending' <=> Ending)
      BY <2>1, <2>2 DEF Beginning, Ending, Front, FrontUnit, Partial, Msg, FrameLen
    <3>3. Reader' <=> Reader
      BY <2>1, <2>2 DEF Reader
    <3>4. Turns' <=> Turns
      BY <2>1, <2>2 DEF Turns
    <3>5. QED
      BY <2>1, <2>2, <3>1, <3>2, <3>3, <3>4 DEF Streaming
  <2>9. SafeAlone'
    BY <2>1 DEF SafeAlone
  <2>10. QED
    BY <2>3, <2>4, <2>5, <2>6, <2>7, <2>8, <2>9
<1>5. QED
  BY <1>1, <1>2, <1>3, <1>4 DEF Next

\* The connection never leaves the invariant.
THEOREM LinkInductive == Spec => []LinkIInv
<1>1. Init => LinkIInv
  BY LinkInit
<1>2. LinkIInv /\ [Next]_vars => LinkIInv'
  BY LinkStep
<1>3. QED
  BY <1>1, <1>2, PTL DEF Spec

(***************************************************************************)
(* Whatever the threads, the peer and recv do, what read_thread counts      *)
(* stays within its types and databuf; memory that is not its own is used,  *)
(* and a peer reported as gone twice, only after one of the causes.         *)
(***************************************************************************)
THEOREM LinkSafe == Spec => []LinkInv
<1>1. LinkIInv => LinkInv
  <2> SUFFICES ASSUME LinkIInv
               PROVE  LinkInv
    OBVIOUS
  <2> USE DEF LinkIInv
  <2>1. TypeOK
    <3>1. cipher.salt \in Msgs \cup {NoMsg} /\ cipher.ctx.key \in Keys \cup {NoKey}
      BY DEF LinkTypes, Ciphers, Contexts
    <3>2. \A s \in Senders : pc[s] # "idle" => todo[s] # <<>>
      BY DEF Sends
    <3>3. \A i \in 1..Len(wire) : wire[i] \in Units
      BY DEF LinkTypes
    <3>4. total \in 0..Longest /\ received \in 0..(Width - 1) /\ goodbyes \in 0..MaxGoodbyes
      BY LongestFacts, WidthAssumption, GoodbyesAssumption DEF LinkTypes, Bounds
    <3>5. QED
      BY <3>1, <3>2, <3>3, <3>4 DEF TypeOK, LinkTypes, Bounds
  <2>2. OneGoodbye
    BY DEF OneGoodbye, Streaming, Reader
  <2>3. QED
    BY <2>1, <2>2 DEF LinkInv
<1>2. QED
  BY <1>1, LinkInductive, PTL

(***************************************************************************)
(* What decrypts is in the order in which the frames entered the stream and *)
(* nothing comes out twice, unless two threads encrypted at once: whatever  *)
(* is truncated, interleaved, read in pieces or cut off.                    *)
(***************************************************************************)
THEOREM LinkInOrder == Spec => []OnceInOrder
<1>1. LinkIInv => OnceInOrder
  <2> SUFFICES ASSUME LinkIInv, "overlap" \notin causes,
                      NEW i \in 1..Len(got), NEW j \in 1..Len(got), i < j,
                      got[i] # Garbage, got[j] # Garbage
               PROVE  Place(got[i]) < Place(got[j])
    BY DEF OnceInOrder
  <2>1. ASSUME NEW m, Entered(m)
        PROVE  Place(m) \in 1..Len(sent) /\ sent[Place(m)] = m
    BY <2>1 DEF Place, Entered
  <2>2. Entered(got[i]) /\ Entered(got[j])
    BY DEF LinkIInv, Known
  <2>3. Before(got[i], got[j])
    BY DEF LinkIInv, Ordered
  <2>4. QED
    BY <2>1, <2>2, <2>3 DEF Before
<1>2. QED
  BY <1>1, LinkInductive, PTL

\* A step that receives nothing is one of the stream, too.
LEMMA StreamGrows ==
  ASSUME causes \subseteq causes', got' = got,
         sent' = sent \/ \E m \in Msgs : sent' = Append(sent, m)
  PROVE  Stream!Next \/ UNCHANGED <<sent, got, causes # {}>>
<1>1. CASE causes = {} /\ causes' # {}
  <2>1. Stream!Break
    BY <1>1 DEF Stream!Break
  <2>2. QED
    BY <2>1 DEF Stream!Next
<1>2. CASE (causes = {}) <=> (causes' = {})
  <2>1. (causes # {})' = (causes # {})
    BY <1>2
  <2>2. CASE sent' = sent
    BY <2>1, <2>2
  <2>3. CASE \E m \in Msgs : sent' = Append(sent, m)
    <3>1. Stream!Send
      BY <2>1, <2>3 DEF Stream!Send
    <3>2. QED
      BY <3>1 DEF Stream!Next
  <2>4. QED
    BY <2>2, <2>3
<1>3. QED
  BY <1>1, <1>2

\* What is received is the next message, or the stream is broken.
LEMMA StreamReceives ==
  ASSUME LinkIInv, Decrypt
  PROVE  Stream!Next
<1> USE DEF LinkIInv
<1>1. rpc = "decrypt" /\ got' = Append(got, Plain) /\ causes' = causes /\ sent' = sent
  BY DEF Decrypt, Reads, sendVars
<1>2. (causes # {})' = (causes # {})
  BY <1>1
<1>3. CASE causes = {}
  <2>1. Plain = sent[Len(got) + 1] /\ Len(got) < Len(sent)
    BY <1>1, <1>3, PlainNext DEF Streaming
  <2>2. Stream!Receive
    BY <1>1, <1>2, <2>1 DEF Stream!Receive
  <2>3. QED
    BY <2>2 DEF Stream!Next
<1>4. CASE causes # {}
  <2>1. Plain = Garbage \/ Entered(Plain)
    BY <1>1, PlainEntered
  <2>2. Stream!Misreceive
    BY <1>1, <1>2, <1>4, <2>1 DEF Stream!Misreceive, Entered
  <2>3. QED
    BY <2>2 DEF Stream!Next
<1>5. QED
  BY <1>3, <1>4

\* Every step of the connection is one of the stream, or leaves it alone.
LEMMA StreamStep ==
  ASSUME LinkIInv, [Next]_vars
  PROVE  [Stream!Next]_<<sent, got, causes # {}>>
<1> USE DEF LinkIInv
<1>1. CASE UNCHANGED vars
  BY <1>1 DEF vars, sendVars, readVars
<1>2. ASSUME NEW s \in Senders, Sending(s)
      PROVE  Stream!Next \/ UNCHANGED <<sent, got, causes # {}>>
  <2>1. CASE Preparing(s)
    BY <2>1, PreparingFacts, StreamGrows DEF readVars
  <2>2. CASE Send(s) \/ SendOn(s)
    <3>1. got' = got /\ Msg(s) \in Msgs
      BY <2>2, SendingFacts DEF readVars
    <3>2. sent' = sent \/ sent' = Append(sent, Msg(s))
      BY <2>2, SendingSent
    <3>3. causes \subseteq causes'
      BY <2>2, SendingOutcome
    <3>4. QED
      BY <3>1, <3>2, <3>3, StreamGrows
  <2>3. QED
    BY <1>2, <2>1, <2>2 DEF Sending, Preparing
<1>3. ASSUME NEW how \in {"eof", "reset"}, Close(how)
      PROVE  Stream!Next \/ UNCHANGED <<sent, got, causes # {}>>
  BY <1>3, StreamGrows DEF Close, Cause, sendVars, readVars
<1>4. ASSUME Reading
      PROVE  Stream!Next \/ UNCHANGED <<sent, got, causes # {}>>
  <2>1. CASE Decrypt
    BY <2>1, StreamReceives
  <2>2. CASE ReadHeader \/ ReadBody \/ HeaderEnds \/ BodyEnds
    BY <2>2, StreamGrows DEF ReadHeader, ReadBody, HeaderEnds, BodyEnds, Cause, sendVars
  <2>3. QED
    BY <1>4, <2>1, <2>2 DEF Reading
<1>5. QED
  BY <1>1, <1>2, <1>3, <1>4 DEF Next

(***************************************************************************)
(* The connection implements the stream of messages: as long as nothing     *)
(* breaks it, what is received is what was sent, whole, once and in order;  *)
(* and whatever breaks it, nothing is received that was not sent.           *)
(***************************************************************************)
THEOREM LinkStreams == Spec => ImplementsStream
<1>1. Init => Stream!Init
  BY DEF Init, Stream!Init
<1>2. LinkIInv /\ [Next]_vars => [Stream!Next]_<<sent, got, causes # {}>>
  BY StreamStep
<1>3. QED
  BY <1>1, <1>2, LinkInductive, PTL DEF Spec, ImplementsStream, Stream!Spec
=============================================================================

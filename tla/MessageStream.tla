--------------------------- MODULE MessageStream ---------------------------
(***************************************************************************)
(* What the connection between two cores promises the handlers: a message   *)
(* that was sent is received once, whole and in its turn.  When the         *)
(* connection is broken, messages may be missing, repeated or unreadable,   *)
(* but nothing is received that was not sent.                               *)
(***************************************************************************)
EXTENDS Naturals, Sequences

CONSTANTS Msgs, Garbage

VARIABLES sent,    \* the messages, in the order they were sent
          got,     \* what the other core has made of them
          broken   \* whether more than silence may have gone wrong

Init == sent = <<>> /\ got = <<>> /\ broken \in BOOLEAN

Send == \E m \in Msgs : sent' = Append(sent, m) /\ UNCHANGED <<got, broken>>

Receive == /\ Len(got) < Len(sent)
           /\ got' = Append(got, sent[Len(got) + 1])
           /\ UNCHANGED <<sent, broken>>

\* A broken connection yields anything that was sent, or something unreadable.
Misreceive ==
  /\ broken
  /\ \/ got' = Append(got, Garbage)
     \/ \E i \in 1..Len(sent) : got' = Append(got, sent[i])
  /\ UNCHANGED <<sent, broken>>

\* Sending and receiving may break the connection as they go.
Break == broken' = TRUE /\ UNCHANGED got
         /\ (sent' = sent \/ \E m \in Msgs : sent' = Append(sent, m))

Next == Send \/ Receive \/ Misreceive \/ Break

Spec == Init /\ [][Next]_<<sent, got, broken>>
=============================================================================

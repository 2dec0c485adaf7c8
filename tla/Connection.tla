----------------------------- MODULE Connection -----------------------------
(***************************************************************************)
(* One direction of a stream connection (TCP or Unix socket): the sender   *)
(* writes frames, each a length and a text, and the receiver reads them    *)
(* back. send() takes part of what it is given, and what it took arrives   *)
(* in pieces that know nothing of frames.                                  *)
(***************************************************************************)
EXTENDS Naturals, Sequences, SequencesExt, FiniteSetsExt

CONSTANTS
    Texts,        \* the strings that are sent, each a sequence of bytes
    Base,         \* values of a byte: 256 in the code
    Header,       \* bytes of the length: 4 in the code
    Buffer,       \* bytes the send buffer takes
    EarlyPolls    \* whether a poll may meet a part of a length

Bytes == 0 .. (Base - 1)

Power[k \in Nat] == IF k = 0 THEN 1 ELSE Base * Power[k - 1]

Lengths == 0 .. (Power[Header] - 1)

ASSUME BaseAssumption == Base \in Nat /\ Base > 1
ASSUME HeaderAssumption == Header \in Nat \ {0}
ASSUME BufferAssumption == Buffer \in Nat \ {0}
ASSUME TextsAssumption ==
    /\ Texts \in Seq(Seq(Bytes))
    /\ \A i \in DOMAIN Texts : Len(Texts[i]) \in Lengths \ {0}
ASSUME EarlyPollsAssumption == EarlyPolls \in BOOLEAN

VARIABLES
    frame,      \* the text that is being sent, an index of Texts
    part,       \* the part of its frame that is being sent
    T,          \* how many bytes of that part were sent
    outgoing,   \* bytes in the send buffer
    arrived,    \* bytes that arrived and were not received
    len,        \* the length that was received; 0: no frame is begun
    buf,        \* what was received of its text
    received    \* the strings that were received

senderVars == <<frame, part, T>>
receiverVars == <<len, buf, received>>
vars == <<senderVars, outgoing, arrived, receiverVars>>

TypeOK ==
    /\ frame \in 1 .. (Len(Texts) + 1)
    /\ part \in {"length", "text"}
    /\ T \in Nat
    /\ outgoing \in Seq(Bytes) /\ Len(outgoing) <= Buffer
    /\ arrived \in Seq(Bytes)
    /\ len \in Lengths
    /\ buf \in Seq(Bytes) /\ (buf = <<>> \/ Len(buf) < len)
    /\ received \in Seq(Seq(Bytes))

Init ==
    /\ frame = 1
    /\ part = "length"
    /\ T = 0
    /\ outgoing = <<>>
    /\ arrived = <<>>
    /\ len = 0
    /\ buf = <<>>
    /\ received = <<>>

-----------------------------------------------------------------------------
(* htole32() and le32toh(): the lowest byte of a length comes first.       *)
Encoded(n) == [k \in 1 .. Header |-> (n \div Power[k - 1]) % Base]

MutantDecoded(bytes) == FoldLeft(LAMBDA n, b : Base * n + b, 0, bytes)

(* The bytes that did not come are 0.                                      *)
Padded(bytes) == [k \in 1 .. Header |-> IF k <= Len(bytes) THEN bytes[k] ELSE 0]

Decoded(bytes) == CHOOSE n \in Lengths : Encoded(n) = Padded(bytes)

(* send_string: the length, then the text; each in as many calls of send() *)
(* as it takes, a full buffer being tried again.                           *)
Part == IF part = "length" THEN Encoded(Len(Texts[frame])) ELSE Texts[frame]

Room == Buffer - Len(outgoing)

MutantRest == Part

Rest == SubSeq(Part, T + 1, Len(Part))

Write ==
    /\ frame <= Len(Texts)
    /\ \E n \in 1 .. Min({Len(Rest), Room}) :
         /\ outgoing' = outgoing \o SubSeq(Rest, 1, n)
         /\ IF T + n < Len(Part)
              THEN T' = T + n /\ UNCHANGED <<frame, part>>
              ELSE /\ T' = 0
                   /\ part' = IF part = "length" THEN "text" ELSE "length"
                   /\ frame' = IF part = "length" THEN frame ELSE frame + 1
    /\ UNCHANGED <<arrived, receiverVars>>

(* The network brings some of the bytes that were sent.                    *)
Arrive ==
    /\ \E n \in 1 .. Len(outgoing) :
         /\ arrived' = arrived \o SubSeq(outgoing, 1, n)
         /\ outgoing' = SubSeq(outgoing, n + 1, Len(outgoing))
    /\ UNCHANGED <<senderVars, receiverVars>>

-----------------------------------------------------------------------------
(* recv_string: a blocking one waits for all the bytes of a length; a poll *)
(* takes those that are there, reads them as a length whose other bytes    *)
(* are 0, and returns NULL for a length of 0.                              *)
ReceiveLength ==
    /\ len = 0
    /\ arrived # <<>>
    /\ EarlyPolls \/ Len(arrived) >= Header
    /\ LET r == Min({Header, Len(arrived)})
       IN /\ len' = Decoded(SubSeq(arrived, 1, r))
          /\ arrived' = SubSeq(arrived, r + 1, Len(arrived))
    /\ UNCHANGED <<senderVars, outgoing, buf, received>>

(* The text is waited for, whether this is a poll or not, in memory that   *)
(* was allocated for its length.                                           *)
MutantAsked == len + 1

Asked == len

ReceiveText ==
    /\ len # 0
    /\ \E n \in 1 .. Min({Asked - Len(buf), Len(arrived)}) :
         LET taken == buf \o SubSeq(arrived, 1, n)
         IN /\ arrived' = SubSeq(arrived, n + 1, Len(arrived))
            /\ IF Len(taken) = Asked
                 THEN /\ received' = Append(received, taken)
                      /\ buf' = <<>>
                      /\ len' = 0
                 ELSE buf' = taken /\ UNCHANGED <<len, received>>
    /\ UNCHANGED <<senderVars, outgoing>>

Receive == ReceiveLength \/ ReceiveText

Done == Len(received) = Len(Texts) /\ UNCHANGED vars

Next == Write \/ Arrive \/ Receive \/ Done

(* Both ends call send() and recv() again and the network delivers.        *)
Fairness == WF_vars(Write) /\ WF_vars(Arrive) /\ WF_vars(Receive)

Spec == Init /\ [][Next]_vars /\ Fairness

-----------------------------------------------------------------------------
(* The receiver is in step with the frames: a length it works with is that *)
(* of the text that comes next, however the bytes were cut in pieces by    *)
(* send() and the network. Holds if no poll meets a part of a length.      *)
InStep ==
    len # 0 => /\ Len(received) < Len(Texts)
               /\ len = Len(Texts[Len(received) + 1])
               /\ IsPrefix(buf, Texts[Len(received) + 1])

(* What recv_string returned is what send_string was given.                *)
Intact == IsPrefix(received, Texts)

Wire == INSTANCE Channel WITH sent <- frame - 1, received <- received

(* The connection is the channel of whole messages that the protocol       *)
(* counts on, and every message arrives. Holds if no poll meets a part of  *)
(* a length.                                                               *)
ImplementsChannel == Wire!Spec
=============================================================================

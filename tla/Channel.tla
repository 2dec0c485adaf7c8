------------------------------- MODULE Channel -------------------------------
(***************************************************************************)
(* What a connection promises to the protocol above it (Messages): whole   *)
(* messages, in order, each once, and none that was not sent.              *)
(***************************************************************************)
EXTENDS Naturals, Sequences

CONSTANT Texts    \* the messages that are sent, in order

VARIABLES
    sent,         \* how many of them the sender has written
    received      \* what the receiver was given

vars == <<sent, received>>

Init == sent = 0 /\ received = <<>>

Send ==
    /\ sent < Len(Texts)
    /\ sent' = sent + 1
    /\ UNCHANGED received

Deliver ==
    /\ Len(received) < sent
    /\ received' = Append(received, Texts[Len(received) + 1])
    /\ UNCHANGED sent

Next == Send \/ Deliver

Spec == Init /\ [][Next]_vars /\ WF_vars(Send) /\ WF_vars(Deliver)
=============================================================================

--------------------------- MODULE MCControlPlane ---------------------------
(* Small platforms for TLC.                                                *)
EXTENDS ControlPlane

CONSTANTS ram, bus, irq

(* Three domains: 1 has an initiator for ram in 2, 2 one for bus in 3, and  *)
(* 3 one for irq in 2, so that 2 registers two sockets and asks for one.   *)
Ring == [s \in Socket |-> IF s = bus THEN 3 ELSE 2]
RingUsers == [s \in Socket |-> CASE s = ram -> {1} [] s = bus -> {2} [] s = irq -> {3}]

(* Two domains, each with an initiator for a socket of the other.          *)
Pair == [s \in Socket |-> IF s = bus THEN 1 ELSE 2]
PairUsers == [s \in Socket |-> IF s = bus THEN {2} ELSE {1}]

NoCalls == [d \in Domains |-> {}]
SignedIncrements == {-1, 0, 2}
SbrkCalls == [d \in Domains |-> {"SBRK"}]
FileCalls == [d \in Domains |-> IF d = 2 THEN {"FILE"} ELSE {}]
ExitCalls == [d \in Domains |-> IF d = 2 THEN {"EXIT", "FILE"} ELSE {"FILE"}]
MixedCalls == [d \in Domains |-> IF d = 2 THEN {"EXIT", "SBRK"} ELSE {"SBRK"}]
=============================================================================

----------------------------- MODULE MCTlmBridge -----------------------------
(* Routes for TLC.                                                         *)
EXTENDS TlmBridge

Chain == <<1, 2, 3>>       \* an initiator, a bus and a memory
Direct == <<1, 2>>
=============================================================================

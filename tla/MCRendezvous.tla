---------------------------- MODULE MCRendezvous ----------------------------
(* A controller of two domains and a remote wrapper that two proxies look  *)
(* for.                                                                    *)
EXTENDS Rendezvous

CONSTANTS controller, remote, client1, client2, proxy1, proxy2

Goals == [c \in Dialer |-> IF c \in {client1, client2} THEN controller ELSE remote]
Domains == [c \in Dialer |-> IF c = client2 THEN 2 ELSE 1]
=============================================================================

---------------------------- MODULE MCRendezvous ----------------------------
(***************************************************************************)
(* Rendezvous on two and three clients.                                    *)
(***************************************************************************)
EXTENDS Rendezvous, TLC

CONSTANTS c1, c2, c3

(* Everybody is a friend of everybody.                                     *)
Everybody == [c \in Clients |-> Clients \ {c}]
InOrder == [c \in Clients |-> IF c = c1 THEN 1 ELSE IF c = c2 THEN 2 ELSE 3]
=============================================================================

------------------------- MODULE MCTimedRendezvous -------------------------
(***************************************************************************)
(* TimedRendezvous on the clients of MCRendezvous.                         *)
(***************************************************************************)
EXTENDS TimedRendezvous, MCRendezvous
=============================================================================

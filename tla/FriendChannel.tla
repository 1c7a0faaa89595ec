---------------------------- MODULE FriendChannel ----------------------------
(***************************************************************************)
(* What two friends may rely on of their conversation, whatever keys,      *)
(* ports and packets are involved: each says texts one after another; the  *)
(* other hears some of them, each at most once and in the order they were  *)
(* said, and now and then something garbled.                               *)
(***************************************************************************)
EXTENDS Naturals, Sequences

CONSTANTS Peers, Other(_), Text, Garbage

VARIABLES
  said,    \* said[p]: the texts p has said
  heard,   \* heard[p]: what p has heard of the other
  place    \* place[p]: how far into the other's texts p has heard

channel == <<said, heard, place>>

Init ==
  /\ said = [p \in Peers |-> <<>>]
  /\ heard = [p \in Peers |-> <<>>]
  /\ place = [p \in Peers |-> 0]

Say(p) ==
  /\ \E t \in Text : said' = [said EXCEPT ![p] = Append(@, t)]
  /\ UNCHANGED <<heard, place>>

Hear(p) ==
  /\ \E j \in (place[p] + 1)..Len(said[Other(p)]) :
       /\ heard' = [heard EXCEPT ![p] = Append(@, said[Other(p)][j])]
       /\ place' = [place EXCEPT ![p] = j]
  /\ UNCHANGED said

HearGarbled(p) ==
  /\ heard' = [heard EXCEPT ![p] = Append(@, Garbage)]
  /\ UNCHANGED <<said, place>>

Next == \E p \in Peers : Say(p) \/ Hear(p) \/ HearGarbled(p)

Spec == Init /\ [][Next]_channel
=============================================================================

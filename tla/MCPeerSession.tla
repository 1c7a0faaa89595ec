--------------------------- MODULE MCPeerSession ---------------------------
(***************************************************************************)
(* PeerSession on small instances, and its refinement of FriendChannel:    *)
(* said and heard are the two halves of a history, and the place of a peer *)
(* is the number of the newest of the friend's texts it has.               *)
(***************************************************************************)
EXTENDS PeerSession

(* The texts of history h that stand under "who".                          *)
TextsBy(who, h) ==
  LET f[n \in 0..Len(h)] ==
        IF n = 0 THEN <<>>
        ELSE IF h[n].who = who THEN Append(f[n - 1], h[n].text) ELSE f[n - 1]
  IN  f[Len(h)]

Place(p) ==
  Max({0} \cup {log[p][m].text.n : m \in {k \in DOMAIN log[p] : Genuine(log[p][k])}})

TextsInUse == [by : Peers, n : 1..MaxTexts, size : Sizes]

Channel == INSTANCE FriendChannel WITH
  Text <- TextsInUse,
  said <- [p \in Peers |-> TextsBy("you", log[p])],
  heard <- [p \in Peers |-> TextsBy("friend", log[p])],
  place <- [p \in Peers |-> Place(p)]

(* Without duplicated or reordered packets the two histories are those of  *)
(* a friend channel: a text is heard at most once, in the order of saying, *)
(* and never before it is said.                                            *)
ImplementsFriendChannel == Channel!Spec
=============================================================================

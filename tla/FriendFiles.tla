----------------------------- MODULE FriendFiles -----------------------------
(***************************************************************************)
(* What a user may rely on when they send a friend files: a file offered   *)
(* arrives at most once, whole, under its name or under its name with the  *)
(* first free number, and nothing that has arrived changes any more.  An   *)
(* empty file never arrives.                                               *)
(***************************************************************************)
EXTENDS Naturals

CONSTANTS Files, Name, Content

VARIABLES
  offered,   \* the files sent
  received   \* the friend's files: name and number -> contents

transfers == <<offered, received>>

Init == offered = {} /\ received = <<>>

Offer(f) ==
  /\ f \notin offered
  /\ offered' = offered \cup {f}
  /\ UNCHANGED received

Arrive(f) ==
  /\ f \in offered /\ Content[f] # <<>>
  /\ \A p \in DOMAIN received : received[p] # Content[f]
  /\ \E k \in {0} \cup {p[2] + 1 : p \in DOMAIN received} :
       /\ \A j \in 0..k : <<Name[f], j>> \in DOMAIN received <=> j < k
       /\ received' = [p \in DOMAIN received \cup {<<Name[f], k>>} |->
                         IF p \in DOMAIN received THEN received[p] ELSE Content[f]]
  /\ UNCHANGED offered

Next == \E f \in Files : Offer(f) \/ Arrive(f)

Spec == Init /\ [][Next]_transfers
=============================================================================

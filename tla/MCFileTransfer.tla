--------------------------- MODULE MCFileTransfer ---------------------------
(***************************************************************************)
(* FileTransfer on two or four uploads, and its refinement of             *)
(* FriendFiles: a file is offered by its upload and received when the      *)
(* receiver writes it.                                                     *)
(***************************************************************************)
EXTENDS FileTransfer

CONSTANTS f1, f2, f3, f4

(* Two chunks and one, of the same name.                                   *)
NamesSame == [f \in Files |-> "picture"]
TwoAndOne == [f \in Files |-> IF f = f1 THEN 2 ELSE 1]
(* The same with an empty file among them.                               *)
TwoNoneOne == [f \in Files |-> IF f = f2 THEN 0 ELSE TwoAndOne[f]]
(* get_messageID drew different numbers.                                   *)
MidsOwn == [f \in Files |-> IF f = f1 THEN 1 ELSE IF f = f2 THEN 2 ELSE IF f = f3 THEN 3 ELSE 4]

Promise == INSTANCE FriendFiles WITH
  Content <- [f \in Files |-> Whole(f)],
  offered <- Files \ todo,
  received <- disk

(* However packets are lost and programs restarted, of uploads made in     *)
(* turn each arrives at most once, whole and under a free name.            *)
ImplementsFriendFiles == Promise!Spec
=============================================================================

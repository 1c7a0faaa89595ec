----------------------------- MODULE MCTextPath -----------------------------
(***************************************************************************)
(* Small instances of TextPath: the short texts with every place of quotes *)
(* and backslashes, and texts at the limits of a packet.                   *)
(***************************************************************************)
EXTENDS TextPath

Short(n) ==
  {[chars |-> s, size |-> Len(s), mentions |-> {}] :
     s \in UNION {[1..k -> {"a", Quote, Backslash}] : k \in 1..n}}
Long(sizes) == {[chars |-> <<"a">>, size |-> k, mentions |-> {}] : k \in sizes}
Mentioning == {[chars |-> <<"a">>, size |-> 9, mentions |-> {r}] :
                 r \in {"GET /time", "POST /send/", "POST /connection"}}

Plain == [chars |-> <<"a">>, size |-> 1, mentions |-> {}]
OnlyPlain == {Plain}
SomeTexts == Short(2) \cup Long({463, 464, 500}) \cup Mentioning
=============================================================================

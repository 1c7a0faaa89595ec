----------------------------- MODULE MCChatView -----------------------------
(***************************************************************************)
(* Two chats of one and two texts at the start, which may become as long   *)
(* as each other, and the searches of every word against every word.       *)
(***************************************************************************)
EXTENDS ChatView, TLC

CONSTANTS f1, f2

TwoLetters == {"a", "b"}
Words(n) == UNION {[1 .. k -> TwoLetters] : k \in 0 .. n}

SomeTexts ==
  f1 :> << << <<"a">> >>, << <<"b", "b", "b">>, <<"a", "a", "a", "b">> >> >>
  @@ f2 :> << << <<"b", "a", "b", "a">> >>, << <<>>, <<"b">> >> >>
SomeHeld == f1 :> 1 @@ f2 :> 2
SomeQueries == {NoQuery, <<"a", "a", "a">>, <<"b", "b", "b", "b">>}

(* The table against the words that edits make, on short words.            *)
ASSUME DistanceAssumption ==
  \A q \in Words(3), w \in Words(4) :
    (liczLevenshteina(q, w) <= MaxEdits) <=> w \in Near(q, TwoLetters)
=============================================================================

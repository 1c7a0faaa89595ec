------------------------------- MODULE Search -------------------------------
(***************************************************************************)
(* The search in the chat (javascript.js): liczLevenshteina fills the table *)
(* of edit distances, and a message stays visible when one of its words is *)
(* within MaxEdits of the query.  A word is a sequence of letters, already *)
(* in lower case, and a text is a sequence of words.                       *)
(***************************************************************************)
EXTENDS Naturals, Sequences, SequencesExt

MaxEdits == 2

(* macierz[i][j]: the first i letters of b against the first j of a.       *)
Table(a, b) ==
  LET macierz[cell \in (0 .. Len(b)) \X (0 .. Len(a))] ==
        LET i == cell[1]
            j == cell[2]
        IN  IF i = 0 THEN j
            ELSE IF j = 0 THEN i
            ELSE IF b[i] = a[j] THEN macierz[<<i - 1, j - 1>>]
            ELSE 1 + Min({macierz[<<i - 1, j - 1>>], macierz[<<i, j - 1>>],
                          macierz[<<i - 1, j>>]})
  IN macierz

liczLevenshteina(a, b) == Table(a, b)[<<Len(b), Len(a)>>]

(* zastosujFiltr's test of one message.                                    *)
Matches(query, text) ==
  \E i \in DOMAIN text : liczLevenshteina(query, text[i]) <= MaxEdits

(***************************************************************************)
(* What the distance promises: the words that MaxEdits edits of one letter *)
(* can make.                                                               *)
(***************************************************************************)
OneEdit(w, letters) ==
  {RemoveAt(w, i) : i \in DOMAIN w}
    \cup {InsertAt(w, i, c) : i \in 1 .. Len(w) + 1, c \in letters}
    \cup {ReplaceAt(w, i, c) : i \in DOMAIN w, c \in letters}

Near(w, letters) ==
  LET once == {w} \cup OneEdit(w, letters)
  IN once \cup UNION {OneEdit(v, letters) : v \in once}
=============================================================================

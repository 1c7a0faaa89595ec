--------------------------- MODULE TextPathProofs ---------------------------
(***************************************************************************)
(* Theorems of TextPath, for any texts, any number of them and any number  *)
(* of ends within an append.                                               *)
(***************************************************************************)
EXTENDS TextPath, QueueLemmas

----------------------------------------------------------------------------
(* The scan of a request's body.                                           *)

(* What the scan makes of the body from its i-th character on, if f is     *)
(* what it makes of the rest.                                              *)
ScanStep(body, f, i) ==
  IF i > Len(body) THEN <<>>
  ELSE IF body[i] = Backslash /\ i < Len(body) /\ body[i + 1] = Quote
    THEN <<Quote>> \o f[i + 2]
  ELSE IF body[i] = Quote THEN <<>>
  ELSE <<body[i]>> \o f[i + 1]

(* The recursive function of ReadText exists: it is built from the end of  *)
(* the body to its beginning.                                              *)
LEMMA ScanExists ==
  ASSUME NEW body, Len(body) \in Nat
  PROVE  \E f : f = [i \in 1..(Len(body) + 2) |-> ScanStep(body, f, i)]
<1> DEFINE N == Len(body)
           From(k) == (N + 3 - k)..(N + 2)
           S == {k \in Nat : k <= N + 2 =>
                   \E f : f = [i \in From(k) |-> ScanStep(body, f, i)]}
<1>1. 0 \in S
  <2> DEFINE z == [i \in From(0) |-> <<>>]
  <2>1. From(0) = {}
    OBVIOUS
  <2>2. z = [i \in From(0) |-> ScanStep(body, z, i)]
    BY <2>1
  <2> QED BY <2>2
<1>2. ASSUME NEW k \in Nat, k \in S PROVE k + 1 \in S
  <2> SUFFICES ASSUME k + 1 <= N + 2
               PROVE  \E f : f = [i \in From(k + 1) |-> ScanStep(body, f, i)]
    OBVIOUS
  <2>1. PICK f : f = [i \in From(k) |-> ScanStep(body, f, i)]
    BY <1>2
  <2> DEFINE j == N + 2 - k
             g == [i \in From(k + 1) |-> IF i = j THEN ScanStep(body, f, j) ELSE f[i]]
  <2>2. /\ j \in 1..(N + 2)
        /\ From(k + 1) = From(k) \cup {j}
        /\ j \notin From(k)
    OBVIOUS
  <2>3. ASSUME NEW i \in From(k + 1)
        PROVE  ScanStep(body, g, i) = ScanStep(body, f, i)
    <3>1. i \in Nat /\ i >= 1
      OBVIOUS
    <3>2. i <= N => i + 1 \in From(k) /\ g[i + 1] = f[i + 1]
      BY <2>2
    <3>3. i < N => i + 2 \in From(k) /\ g[i + 2] = f[i + 2]
      BY <2>2
    <3> HIDE DEF g
    <3> QED BY <3>1, <3>2, <3>3 DEF ScanStep
  <2>4. ASSUME NEW i \in From(k + 1) PROVE g[i] = ScanStep(body, g, i)
    <3>1. CASE i = j
      BY <2>3, <3>1
    <3>2. CASE i # j
      <4>1. i \in From(k)
        BY <2>2, <3>2
      <4>2. f[i] = ScanStep(body, f, i)
        BY <2>1, <4>1, Zenon
      <4> QED BY <2>3, <3>2, <4>2
    <3> QED BY <3>1, <3>2
  <2>5. g = [i \in From(k + 1) |-> g[i]]
    BY Zenon
  <2> HIDE DEF g
  <2>6. g = [i \in From(k + 1) |-> ScanStep(body, g, i)]
    BY <2>4, <2>5, Zenon
  <2> QED BY <2>6, Zenon
<1>3. N + 2 \in S
  <2> HIDE DEF S
  <2> QED BY <1>1, <1>2, EveryNatural
<1>4. From(N + 2) = 1..(N + 2)
  OBVIOUS
<1> QED BY <1>3, <1>4

IsScan(body, f) ==
  \A i \in 1..(Len(body) + 2) : f[i] = ScanStep(body, f, i)

LEMMA ScanEquation ==
  ASSUME NEW body, Len(body) \in Nat
  PROVE  \E f : IsScan(body, f) /\ ReadText(body) = f[1]
<1> DEFINE Is(f) == f = [i \in 1..(Len(body) + 2) |-> ScanStep(body, f, i)]
<1>1. ReadText(body) = (CHOOSE f : Is(f))[1]
  BY Zenon DEF ReadText, ScanStep
<1>2. Is(CHOOSE f : Is(f))
  BY ScanExists, Zenon
<1> QED BY <1>1, <1>2, Zenon DEF IsScan

(* The scan at one place of the body: behind its end, before an escaped    *)
(* quote, at a quote of its own, and anywhere else.                        *)
LEMMA ScanAt ==
  ASSUME NEW C, Quote \in C, Backslash \in C, NEW body \in Seq(C), NEW f, IsScan(body, f), NEW i \in 1..(Len(body) + 2)
  PROVE  /\ i > Len(body) => f[i] = <<>>
         /\ i < Len(body) /\ body[i] = Backslash /\ body[i + 1] = Quote =>
              f[i] = <<Quote>> \o f[i + 2]
         /\ i <= Len(body) /\ body[i] = Quote => f[i] = <<>>
         /\ /\ i <= Len(body) /\ body[i] # Quote
            /\ ~(body[i] = Backslash /\ i < Len(body) /\ body[i + 1] = Quote)
            => f[i] = <<body[i]>> \o f[i + 1]
<1>1. f[i] = ScanStep(body, f, i)
  BY Zenon DEF IsScan
<1>2. Len(body) \in Nat /\ i \in Nat
  BY LenProperties
<1>3. Quote # Backslash
  BY DEF Quote, Backslash
<1>4. (i <= Len(body)) <=> ~(i > Len(body))
  BY <1>2
<1>5. i < Len(body) => ~(i > Len(body))
  BY <1>2
<1> QED BY <1>1, <1>3, <1>4, <1>5, Zenon DEF ScanStep

(* A character that is neither a quote nor before one is copied.           *)
LEMMA ScanCopies ==
  ASSUME NEW C, Quote \in C, Backslash \in C, NEW body \in Seq(C), NEW f, IsScan(body, f),
         NEW i \in 1..(Len(body) + 2), NEW j, NEW c, i <= Len(body), j = i + 1,
         body[i] = c, c # Quote, c = Backslash => body[j] # Quote
  PROVE  f[i] = <<c>> \o f[j]
BY ScanAt

(* What the scan makes of any part of a body is a sequence of characters.  *)
LEMMA ScanTyped ==
  ASSUME NEW C, Quote \in C, Backslash \in C, NEW body \in Seq(C), NEW f, IsScan(body, f)
  PROVE  \A i \in 1..(Len(body) + 2) : f[i] \in Seq(C)
<1> DEFINE N == Len(body)
           S == {k \in Nat : \A i \in 1..(N + 2) : i >= N + 2 - k => f[i] \in Seq(C)}
<1>0. N \in Nat /\ \A i \in 1..N : body[i] \in C
  BY LenProperties, ElementOfSeq
<1>1. 0 \in S
  <2>1. ASSUME NEW i \in 1..(N + 2), i >= N + 2 - 0 PROVE f[i] \in Seq(C)
    <3>1. i > Len(body)
      BY <1>0, <2>1
    <3>2. f[i] = <<>>
      BY <3>1, ScanAt
    <3> QED BY <3>2, EmptySeq
  <2> QED BY <2>1
<1>2. ASSUME NEW k \in Nat, k \in S PROVE k + 1 \in S
  <2>1. ASSUME NEW i \in 1..(N + 2), i >= N + 2 - (k + 1) PROVE f[i] \in Seq(C)
    <3>1. CASE i >= N + 2 - k
      BY <1>2, <3>1
    <3>2. CASE i > Len(body)
      BY <3>2, ScanAt, EmptySeq
    <3>3. CASE ~(i >= N + 2 - k) /\ ~(i > Len(body))
      <4>1. /\ i \in 1..N
            /\ i + 1 \in 1..(N + 2) /\ i + 1 >= N + 2 - k
            /\ i + 2 \in 1..(N + 2) /\ i + 2 >= N + 2 - k
        BY <1>0, <2>1, <3>3
      <4>2. f[i + 1] \in Seq(C) /\ f[i + 2] \in Seq(C)
        BY <1>2, <4>1
      <4>3. <<Quote>> \in Seq(C) /\ <<body[i]>> \in Seq(C) /\ <<>> \in Seq(C)
        BY <1>0, <4>1
      <4>4. /\ <<Quote>> \o f[i + 2] \in Seq(C)
            /\ <<body[i]>> \o f[i + 1] \in Seq(C)
        BY <4>2, <4>3, ConcatProperties
      <4>5. i <= Len(body)
        BY <4>1
      <4>6. f[i] \in {<<>>, <<Quote>> \o f[i + 2], <<body[i]>> \o f[i + 1]}
        BY <4>5, ScanAt
      <4> QED BY <4>3, <4>4, <4>6
    <3> QED BY <3>1, <3>2, <3>3
  <2> QED BY <2>1
<1>3. N + 2 \in S
  <2>1. N + 2 \in Nat
    BY <1>0
  <2> HIDE DEF S
  <2> QED BY <1>1, <1>2, <2>1, EveryNatural
<1>4. \A i \in 1..(N + 2) : i >= N + 2 - (N + 2)
  BY <1>0
<1> QED BY <1>3, <1>4

LEMMA PairIs ==
  ASSUME NEW x, NEW y
  PROVE  <<x>> \o <<y>> = <<x, y>>
<1> DEFINE T == {x, y}
<1>1. <<x>> \in Seq(T) /\ <<y>> \in Seq(T) /\ <<x, y>> \in Seq(T)
  OBVIOUS
<1>2. Len(<<x>>) = 1 /\ Len(<<y>>) = 1 /\ Len(<<x, y>>) = 2
  OBVIOUS
<1>3. /\ <<x>> \o <<y>> \in Seq(T)
      /\ Len(<<x>> \o <<y>>) = 2
      /\ \A i \in 1..2 : (<<x>> \o <<y>>)[i] = IF i <= 1 THEN <<x>>[i] ELSE <<y>>[i - 1]
  BY <1>1, <1>2, ConcatProperties
<1>4. \A i \in 1..2 : (<<x>> \o <<y>>)[i] = <<x, y>>[i]
  BY <1>3
<1> QED BY <1>1, <1>2, <1>3, <1>4, SeqEqual

(* What becomes of one character when it is escaped, and when it is        *)
(* scanned again.                                                          *)
EscapedChar(x) == IF x \in {Quote, Backslash} THEN <<Backslash, x>> ELSE <<x>>
ScannedChar(x) == IF x = Backslash THEN <<Backslash, Backslash>> ELSE <<x>>

LEMMA CharTypes ==
  ASSUME NEW C, Quote \in C, Backslash \in C, NEW x \in C
  PROVE  /\ EscapedChar(x) \in Seq(C)
         /\ Len(EscapedChar(x)) = IF x \in {Quote, Backslash} THEN 2 ELSE 1
         /\ EscapedChar(x)[1] # Quote
         /\ ScannedChar(x) \in Seq(C)
<1>1. Quote # Backslash
  BY DEF Quote, Backslash
<1>2. <<Backslash, x>> \in Seq(C) /\ <<x>> \in Seq(C)
  BY <1>1
<1>3. <<Backslash, Backslash>> \in Seq(C)
  BY <1>1
<1>4. Len(<<Backslash, x>>) = 2 /\ Len(<<x>>) = 1
  OBVIOUS
<1>5. <<Backslash, x>>[1] = Backslash /\ <<x>>[1] = x
  OBVIOUS
<1>6. CASE x \in {Quote, Backslash}
  BY <1>1, <1>2, <1>3, <1>4, <1>5, <1>6, Zenon DEF EscapedChar, ScannedChar
<1>7. CASE x \notin {Quote, Backslash}
  BY <1>1, <1>2, <1>3, <1>4, <1>5, <1>7, Zenon DEF EscapedChar, ScannedChar
<1> QED BY <1>6, <1>7

(* A character stands escaped in the body behind its b-th character.  If   *)
(* it is a backslash, what follows is not a quote.                         *)
Stands(body, b, x) ==
  /\ b + Len(EscapedChar(x)) <= Len(body)
  /\ \A k \in 1..Len(EscapedChar(x)) : body[b + k] = EscapedChar(x)[k]
  /\ x = Backslash => b + 3 <= Len(body) /\ body[b + 3] # Quote

(* Then the scan makes of it what ScannedChar says, and goes on behind it. *)
LEMMA ScanChar ==
  ASSUME NEW C, Quote \in C, Backslash \in C, NEW body \in Seq(C), NEW f, IsScan(body, f),
         NEW x \in C, NEW b \in Nat, Stands(body, b, x)
  PROVE  f[b + 1] = ScannedChar(x) \o f[b + Len(EscapedChar(x)) + 1]
<1>0. Len(body) \in Nat
  BY LenProperties
<1>1. Quote # Backslash
  BY DEF Quote, Backslash
<1>2. \A i \in 1..(Len(body) + 2) : f[i] \in Seq(C)
  BY ScanTyped
<1>3. CASE x = Quote
  <2>1. EscapedChar(x) = <<Backslash, Quote>> /\ ScannedChar(x) = <<Quote>>
    BY <1>1, <1>3 DEF EscapedChar, ScannedChar
  <2>2. b + 2 <= Len(body) /\ body[b + 1] = Backslash /\ body[b + 2] = Quote
    BY <2>1 DEF Stands
  <2>3. b + 1 \in 1..(Len(body) + 2) /\ b + 1 < Len(body) /\ b + 1 + 1 = b + 2 /\ b + 1 + 2 = b + 3
    BY <1>0, <2>2
  <2>4. f[b + 1] = <<Quote>> \o f[b + 1 + 2]
    BY <2>2, <2>3, ScanAt
  <2>5. b + Len(EscapedChar(x)) + 1 = b + 3
    BY <2>1
  <2> QED BY <2>1, <2>3, <2>4, <2>5
<1>4. CASE x = Backslash
  <2>1. EscapedChar(x) = <<Backslash, Backslash>> /\ ScannedChar(x) = <<Backslash, Backslash>>
    BY <1>1, <1>4 DEF EscapedChar, ScannedChar
  <2>2. b + 3 <= Len(body) /\ body[b + 1] = Backslash /\ body[b + 2] = Backslash /\ body[b + 3] # Quote
    BY <1>4, <2>1 DEF Stands
  <2>3. /\ b + 1 \in 1..(Len(body) + 2) /\ b + 1 <= Len(body) /\ b + 1 + 1 = b + 2
        /\ b + 2 \in 1..(Len(body) + 2) /\ b + 2 <= Len(body) /\ b + 2 + 1 = b + 3
        /\ b + 3 \in 1..(Len(body) + 2)
    BY <1>0, <2>2
  <2>4. f[b + 1] = <<Backslash>> \o f[b + 2]
    <3> DEFINE i == b + 1
               j == b + 2
    <3>1. /\ i \in 1..(Len(body) + 2) /\ i <= Len(body) /\ j = i + 1
          /\ body[i] = Backslash /\ body[j] # Quote
      BY <1>1, <2>2, <2>3
    <3> HIDE DEF i, j
    <3>2. f[i] = <<Backslash>> \o f[j]
      BY <1>1, <3>1, ScanCopies
    <3> QED BY <3>2 DEF i, j
  <2>5. f[b + 2] = <<Backslash>> \o f[b + 3]
    <3> DEFINE i == b + 2
               j == b + 3
    <3>1. /\ i \in 1..(Len(body) + 2) /\ i <= Len(body) /\ j = i + 1
          /\ body[i] = Backslash /\ body[j] # Quote
      BY <1>1, <2>2, <2>3
    <3> HIDE DEF i, j
    <3>2. f[i] = <<Backslash>> \o f[j]
      BY <1>1, <3>1, ScanCopies
    <3> QED BY <3>2 DEF i, j
  <2>6. f[b + 3] \in Seq(C)
    BY <1>2, <2>3
  <2>7. <<Backslash>> \in Seq(C)
    OBVIOUS
  <2>8. <<Backslash>> \o (<<Backslash>> \o f[b + 3])
          = (<<Backslash>> \o <<Backslash>>) \o f[b + 3]
    BY <2>6, <2>7, ConcatAssociative
  <2>9. <<Backslash>> \o <<Backslash>> = <<Backslash, Backslash>>
    BY PairIs
  <2>10. b + Len(EscapedChar(x)) + 1 = b + 3
    BY <2>1
  <2> QED BY <2>1, <2>4, <2>5, <2>8, <2>9, <2>10
<1>5. CASE x \notin {Quote, Backslash}
  <2>1. EscapedChar(x) = <<x>> /\ ScannedChar(x) = <<x>>
    BY <1>1, <1>5 DEF EscapedChar, ScannedChar
  <2>2. b + 1 <= Len(body) /\ body[b + 1] = x
    BY <2>1 DEF Stands
  <2>3. b + 1 \in 1..(Len(body) + 2) /\ b + 1 + 1 = b + 2
    BY <1>0, <2>2
  <2>4. f[b + 1] = <<x>> \o f[b + 1 + 1]
    BY <1>5, <2>2, <2>3, ScanAt
  <2>5. b + Len(EscapedChar(x)) + 1 = b + 2
    BY <2>1
  <2> QED BY <2>1, <2>3, <2>4, <2>5
<1> QED BY <1>3, <1>4, <1>5

EscapedChars(s) == [i \in 1..Len(s) |-> EscapedChar(s[i])]
ScannedChars(s) == [i \in 1..Len(s) |-> ScannedChar(s[i])]

LEMMA CharSeqs ==
  ASSUME NEW C, Quote \in C, Backslash \in C, NEW s \in Seq(C)
  PROVE  /\ EscapedChars(s) \in Seq(Seq(C)) /\ Len(EscapedChars(s)) = Len(s)
         /\ ScannedChars(s) \in Seq(Seq(C)) /\ Len(ScannedChars(s)) = Len(s)
         /\ Escaped(s) = FlattenSeq(EscapedChars(s))
<1>1. Len(s) \in Nat /\ \A i \in 1..Len(s) : s[i] \in C
  BY LenProperties, ElementOfSeq
<1>2. \A i \in 1..Len(s) : EscapedChar(s[i]) \in Seq(C) /\ ScannedChar(s[i]) \in Seq(C)
  BY <1>1, CharTypes
<1>3. EscapedChars(s) \in Seq(Seq(C)) /\ Len(EscapedChars(s)) = Len(s)
  BY <1>1, <1>2 DEF EscapedChars
<1>4. ScannedChars(s) \in Seq(Seq(C)) /\ Len(ScannedChars(s)) = Len(s)
  BY <1>1, <1>2 DEF ScannedChars
<1>5. Escaped(s) = FlattenSeq(EscapedChars(s))
  BY Zenon DEF Escaped, EscapedChars, EscapedChar
<1> QED BY <1>3, <1>4, <1>5

(* The request of the browser: the escaped text, a quote and a brace.      *)
Whole(s) == Escaped(s) \o <<Quote, Brace>>

(* In the body w the escaped characters of s stand one after the other,    *)
(* the p-th of them behind the b[p] first characters of w.                 *)
Laid(w, s, b) ==
  /\ b \in [1..(Len(s) + 1) -> Nat]
  /\ Len(w) = b[Len(s) + 1] + 2
  /\ \A p \in 1..Len(s) :
       /\ b[p + 1] = b[p] + Len(EscapedChar(s[p]))
       /\ b[p + 1] <= b[Len(s) + 1]
       /\ \A k \in 1..Len(EscapedChar(s[p])) : w[b[p] + k] = EscapedChar(s[p])[k]

LEMMA WholePlaces ==
  ASSUME NEW C, Quote \in C, Backslash \in C, Brace \in C,
         NEW s \in Seq(C), s # <<>>
  PROVE  \E b : /\ Whole(s) \in Seq(C)
                /\ Laid(Whole(s), s, b)
                /\ b[1] = 0
                /\ Whole(s)[b[Len(s) + 1] + 1] = Quote
                /\ Whole(s)[b[Len(s) + 1] + 2] = Brace
<1> DEFINE n == Len(s)
           es == EscapedChars(s)
<1>0. n \in Nat /\ n # 0 /\ \A i \in 1..n : s[i] \in C
  BY LenProperties, ElementOfSeq, EmptySeq
<1>1. es \in Seq(Seq(C)) /\ Len(es) = n /\ Escaped(s) = FlattenSeq(es)
  BY CharSeqs
<1>2. \A p \in 1..n : es[p] = EscapedChar(s[p])
  BY DEF EscapedChars
<1> HIDE DEF es
<1>3. PICK f \in [1..n -> Seq(C)] : Flattening(es, n, f) /\ Escaped(s) = f[n]
  BY <1>0, <1>1, FlattenIs
<1>4. \A p \in 1..n :
        /\ Before(f, p) \in Nat /\ Len(es[p]) \in Nat
        /\ Len(f[p]) = Before(f, p) + Len(es[p])
        /\ Len(f[p]) <= Len(f[n])
        /\ \A k \in 1..Len(es[p]) : f[n][Before(f, p) + k] = es[p][k]
  <2>1. f \in [1..Len(es) -> Seq(C)] /\ Flattening(es, Len(es), f)
    BY <1>1, <1>3
  <2>2. Placed(es, f)
    BY <1>1, <2>1, FlatteningPlaces
  <2> QED BY <1>1, <2>2 DEF Placed
<1>5. f[n] \in Seq(C) /\ n \in 1..n
  BY <1>0, <1>3
<1>6. <<Quote, Brace>> \in Seq(C) /\ Len(<<Quote, Brace>>) = 2
  OBVIOUS
<1>7. /\ Whole(s) \in Seq(C)
      /\ Len(Whole(s)) = Len(f[n]) + 2
      /\ \A i \in 1..(Len(f[n]) + 2) :
           Whole(s)[i] = IF i <= Len(f[n]) THEN f[n][i] ELSE <<Quote, Brace>>[i - Len(f[n])]
  <2>1. Whole(s) = f[n] \o <<Quote, Brace>>
    BY <1>3 DEF Whole
  <2> QED BY <1>5, <1>6, <2>1, ConcatProperties
<1>8. Len(f[n]) \in Nat
  BY <1>5, LenProperties
<1> DEFINE b == [p \in 1..(n + 1) |-> Before(f, p)]
<1>9. \A p \in 1..n : Before(f, p + 1) = Len(f[p])
  BY <1>0 DEF Before
<1>10. /\ b \in [1..(n + 1) -> Nat]
       /\ b[1] = 0
       /\ b[n + 1] = Len(f[n])
       /\ \A p \in 1..n : b[p] = Before(f, p) /\ b[p + 1] = Len(f[p])
  <2>1. 1 \in 1..(n + 1) /\ n + 1 \in 1..(n + 1) /\ \A p \in 1..n : p \in 1..(n + 1) /\ p + 1 \in 1..(n + 1)
    BY <1>0
  <2>2. Before(f, 1) = 0
    BY DEF Before
  <2>3. Before(f, n + 1) = Len(f[n])
    BY <1>5, <1>9
  <2>4. \A p \in 1..(n + 1) : p \in 1..n \/ p = n + 1
    BY <1>0
  <2>5. \A p \in 1..(n + 1) : Before(f, p) \in Nat
    BY <1>4, <1>8, <2>3, <2>4, Zenon
  <2> QED BY <1>9, <2>1, <2>2, <2>3, <2>5
<1> HIDE DEF b
<1>11. Whole(s)[b[n + 1] + 1] = Quote /\ Whole(s)[b[n + 1] + 2] = Brace
  <2> DEFINE m == Len(f[n])
  <2>1. m + 1 \in 1..(m + 2) /\ ~(m + 1 <= m) /\ m + 1 - m = 1
    BY <1>8
  <2>2. m + 2 \in 1..(m + 2) /\ ~(m + 2 <= m) /\ m + 2 - m = 2
    BY <1>8
  <2>3. Whole(s)[m + 1] = <<Quote, Brace>>[1]
    BY <1>7, <2>1
  <2>4. Whole(s)[m + 2] = <<Quote, Brace>>[2]
    BY <1>7, <2>2
  <2> QED BY <1>10, <2>3, <2>4
<1>12. ASSUME NEW p \in 1..n, NEW k \in 1..Len(EscapedChar(s[p]))
       PROVE  Whole(s)[b[p] + k] = EscapedChar(s[p])[k]
  <2> DEFINE m == Len(f[n])
             x == EscapedChar(s[p])
             i == Before(f, p) + k
  <2>1. es[p] = x
    BY <1>2
  <2>2. i \in 1..(m + 2) /\ i <= m
    <3> DEFINE a == Before(f, p)
               c == Len(f[p])
               l == Len(x)
    <3>1. a \in Nat /\ l \in Nat /\ c = a + l /\ c <= m /\ m \in Nat /\ k \in 1..l
      BY <1>4, <1>8, <2>1
    <3> HIDE DEF a, c, l, m
    <3>2. a + k \in 1..(m + 2) /\ a + k <= m
      BY <3>1
    <3> QED BY <3>2 DEF a
  <2>3. f[n][i] = x[k]
    BY <1>4, <2>1
  <2> HIDE DEF i, m
  <2>4. Whole(s)[i] = f[n][i]
    BY <1>7, <2>2 DEF m
  <2>5. Whole(s)[i] = x[k]
    BY <2>3, <2>4
  <2> QED BY <1>10, <2>5 DEF i
<1>13. ASSUME NEW p \in 1..n
       PROVE  b[p + 1] = b[p] + Len(EscapedChar(s[p])) /\ b[p + 1] <= b[n + 1]
  BY <1>2, <1>4, <1>10
<1>14. Laid(Whole(s), s, b)
  BY <1>7, <1>10, <1>12, <1>13 DEF Laid
<1> QED BY <1>7, <1>10, <1>11, <1>14

(* Where the character p of s lies in w: between b[p] and b[p + 1].        *)
LiesAt(w, s, b, p) ==
  /\ Len(s) \in Nat /\ b[Len(s) + 1] \in Nat /\ b[p] \in Nat /\ b[p + 1] \in Nat
  /\ b[p + 1] = b[p] + Len(EscapedChar(s[p]))
  /\ b[p + 1] <= b[Len(s) + 1]
  /\ \A k \in 1..Len(EscapedChar(s[p])) : w[b[p] + k] = EscapedChar(s[p])[k]

LEMMA LaidAt ==
  ASSUME NEW C, NEW s \in Seq(C), NEW w, NEW b, Laid(w, s, b), NEW p \in 1..Len(s)
  PROVE  LiesAt(w, s, b, p)
<1>1. Len(s) \in Nat
  BY LenProperties
<1>2. p \in 1..(Len(s) + 1) /\ p + 1 \in 1..(Len(s) + 1) /\ Len(s) + 1 \in 1..(Len(s) + 1)
  BY <1>1
<1>3. b \in [1..(Len(s) + 1) -> Nat]
  BY Zenon DEF Laid
<1>4. b[p] \in Nat /\ b[p + 1] \in Nat /\ b[Len(s) + 1] \in Nat
  BY <1>2, <1>3, Zenon
<1> QED BY <1>1, <1>4, Zenon DEF Laid, LiesAt

(* A character that is no backslash, or is followed by another, stands     *)
(* escaped at its place.                                                   *)
LEMMA WholeStands ==
  ASSUME NEW C, Quote \in C, Backslash \in C, NEW s \in Seq(C),
         NEW w \in Seq(C), NEW b, Laid(w, s, b),
         NEW p \in 1..Len(s), s[p] = Backslash => p < Len(s)
  PROVE  Stands(w, b[p], s[p])
<1>a. /\ b[Len(s) + 1] \in Nat /\ b[p] \in Nat /\ b[p + 1] \in Nat
      /\ b[p + 1] = b[p] + Len(EscapedChar(s[p]))
      /\ b[p + 1] <= b[Len(s) + 1]
      /\ \A k \in 1..Len(EscapedChar(s[p])) : w[b[p] + k] = EscapedChar(s[p])[k]
  <2>1. LiesAt(w, s, b, p)
    BY LaidAt, Zenon
  <2> QED BY <2>1, Zenon DEF LiesAt
<1> DEFINE x == s[p]
           N == Len(s)
<1>0. N \in Nat /\ x \in C
  BY LenProperties, ElementOfSeq
<1>1. /\ b[N + 1] \in Nat /\ b[p] \in Nat /\ b[p + 1] \in Nat
      /\ b[p + 1] = b[p] + Len(EscapedChar(x))
      /\ b[p + 1] <= b[N + 1]
      /\ \A k \in 1..Len(EscapedChar(x)) : w[b[p] + k] = EscapedChar(x)[k]
  BY <1>a, Zenon
<1>2. Len(EscapedChar(x)) = IF x \in {Quote, Backslash} THEN 2 ELSE 1
  BY <1>0, CharTypes
<1>3. Len(w) = b[N + 1] + 2
  BY Zenon DEF Laid
<1>4. b[p] + Len(EscapedChar(x)) <= Len(w)
  BY <1>1, <1>3
<1>5. ASSUME x = Backslash PROVE b[p] + 3 <= Len(w) /\ w[b[p] + 3] # Quote
  <2>1. PICK q \in 1..N : q = p + 1
    BY <1>0, <1>5
  <2> DEFINE y == s[q]
  <2>2. y \in C
    BY ElementOfSeq
  <2>3. EscapedChar(y)[1] # Quote /\ Len(EscapedChar(y)) \in {1, 2}
    BY <2>2, CharTypes
  <2>4. /\ b[q] \in Nat
        /\ b[q + 1] = b[q] + Len(EscapedChar(y)) /\ b[q + 1] <= b[N + 1]
        /\ \A k \in 1..Len(EscapedChar(y)) : w[b[q] + k] = EscapedChar(y)[k]
    <3>1. LiesAt(w, s, b, q)
      BY LaidAt, Zenon
    <3> QED BY <3>1, Zenon DEF LiesAt
  <2>5. b[q] = b[p] + 2
    BY <1>1, <1>2, <1>5, <2>1
  <2>6. w[b[q] + 1] = EscapedChar(y)[1]
    BY <2>3, <2>4
  <2>7. b[q] + 1 = b[p] + 3
    BY <1>1, <2>5
  <2>8. b[p] + 3 <= Len(w)
    <3> DEFINE a == b[p]
               e == b[N + 1]
               l == Len(EscapedChar(y))
    <3>1. a \in Nat /\ e \in Nat /\ l \in {1, 2} /\ a + 2 + l <= e
      BY <1>1, <2>3, <2>4, <2>5
    <3> HIDE DEF a, e, l
    <3>2. a + 3 <= e + 2
      BY <3>1
    <3> QED BY <1>3, <3>2 DEF a, e
  <2>9. w[b[p] + 3] # Quote
    BY <2>3, <2>6, <2>7, Zenon
  <2> QED BY <2>8, <2>9
<1> QED BY <1>1, <1>4, <1>5, Zenon DEF Stands

Associate(x, y, z) == (x \o y) \o z = x \o (y \o z)

LEMMA Associative ==
  ASSUME NEW C, NEW x \in Seq(C), NEW y \in Seq(C), NEW z \in Seq(C)
  PROVE  Associate(x, y, z)
BY ConcatAssociative DEF Associate

(* The scan of a body with the escaped text goes through the characters    *)
(* one by one: what it makes of the first p of them, and the rest.         *)
Scans(s, b, f, g) ==
  \A p \in 1..Len(s) : (s[p] = Backslash => p < Len(s)) =>
    f[1] = g[p] \o f[b[p + 1] + 1]

LEMMA ScanPrefix ==
  ASSUME NEW C, Quote \in C, Backslash \in C, NEW s \in Seq(C),
         NEW w \in Seq(C), NEW b, Laid(w, s, b), b[1] = 0,
         NEW f, IsScan(w, f),
         NEW g \in [1..Len(s) -> Seq(C)], Flattening(ScannedChars(s), Len(s), g)
  PROVE  Scans(s, b, f, g)
<1> DEFINE N == Len(s)
           Known(p) == (s[p] = Backslash => p < N) => f[1] = g[p] \o f[b[p + 1] + 1]
           S == {p \in Nat : p \in 1..N => Known(p)}
<1>0. N \in Nat /\ Len(w) \in Nat /\ \A p \in 1..N : s[p] \in C
  BY LenProperties, ElementOfSeq
<1>1. ASSUME NEW p \in 1..N, s[p] = Backslash => p < N
      PROVE  /\ b[p] \in Nat
             /\ f[b[p] + 1] = ScannedChar(s[p]) \o f[b[p + 1] + 1]
             /\ f[b[p + 1] + 1] \in Seq(C)
  <2>1. Stands(w, b[p], s[p])
    BY <1>1, WholeStands
  <2>2. b[p] \in Nat /\ b[p + 1] \in Nat /\ b[p + 1] = b[p] + Len(EscapedChar(s[p]))
    <3>1. LiesAt(w, s, b, p)
      BY <1>1, LaidAt, Zenon
    <3> QED BY <3>1, Zenon DEF LiesAt
  <2>3. s[p] \in C
    BY <1>0
  <2>4. f[b[p] + 1] = ScannedChar(s[p]) \o f[b[p] + Len(EscapedChar(s[p])) + 1]
    <3> DEFINE a == b[p]
               x == s[p]
    <3>1. a \in Nat /\ x \in C /\ Stands(w, a, x)
      BY <2>1, <2>2, <2>3
    <3> HIDE DEF a, x
    <3>2. f[a + 1] = ScannedChar(x) \o f[a + Len(EscapedChar(x)) + 1]
      BY <3>1, ScanChar
    <3> QED BY <3>2 DEF a, x
  <2>5. b[p + 1] <= Len(w)
    BY <2>1, <2>2 DEF Stands
  <2>6. b[p + 1] + 1 \in 1..(Len(w) + 2)
    BY <1>0, <2>2, <2>5
  <2>7. f[b[p + 1] + 1] \in Seq(C)
    BY <2>6, ScanTyped
  <2> QED BY <2>2, <2>4, <2>7
<1>2. \A p \in 1..N : ScannedChars(s)[p] = ScannedChar(s[p])
  BY DEF ScannedChars
<1>3. 0 \in S
  OBVIOUS
<1>4. ASSUME NEW n \in Nat, n \in S PROVE n + 1 \in S
  <2>1. ASSUME NEW p \in 1..N, p = n + 1, s[p] = Backslash => p < N
        PROVE  f[1] = g[p] \o f[b[p + 1] + 1]
    <3>1. CASE p = 1
      <4>1. g[p] = ScannedChar(s[p])
        BY <1>2, <3>1, Zenon DEF Flattening
      <4>2. f[b[1] + 1] = g[p] \o f[b[p + 1] + 1]
        BY <1>1, <2>1, <3>1, <4>1
      <4>3. b[1] + 1 = 1
        OBVIOUS
      <4> QED BY <4>2, <4>3
    <3>2. CASE p # 1
      <4>1. PICK q \in 1..N : q = p - 1
        BY <1>0, <3>2
      <4>2. q < N /\ q + 1 = p /\ q = n
        BY <1>0, <2>1, <4>1
      <4>3. f[1] = g[q] \o f[b[p] + 1]
        BY <1>4, <4>2
      <4>4. g[p] = g[q] \o ScannedChar(s[p])
        BY <1>2, <3>2, <4>1, Zenon DEF Flattening
      <4>5. /\ f[b[p] + 1] = ScannedChar(s[p]) \o f[b[p + 1] + 1]
            /\ f[b[p + 1] + 1] \in Seq(C)
        BY <1>1, <2>1
      <4>6. ScannedChar(s[p]) \in Seq(C) /\ g[q] \in Seq(C)
        BY <1>0, CharTypes
      <4>7. (g[q] \o ScannedChar(s[p])) \o f[b[p + 1] + 1]
              = g[q] \o (ScannedChar(s[p]) \o f[b[p + 1] + 1])
        <5>1. Associate(g[q], ScannedChar(s[p]), f[b[p + 1] + 1])
          BY <4>5, <4>6, Associative, Zenon
        <5> QED BY <5>1, Zenon DEF Associate
      <4> QED BY <4>3, <4>4, <4>5, <4>7
    <3> QED BY <3>1, <3>2
  <2>2. \A p \in 1..N : p = n + 1 => Known(p)
    BY <2>1
  <2> HIDE DEF Known
  <2> QED BY <2>2
<1>5. \A n \in Nat : n \in S
  <2> HIDE DEF S
  <2> QED BY <1>3, <1>4, EveryNatural
<1>6. \A p \in 1..N : Known(p)
  <2> HIDE DEF Known
  <2> QED BY <1>0, <1>5
<1> QED BY <1>6 DEF Scans

(* What the scan makes of the end of the body, behind the escaped text.    *)
LEMMA ScanEnd ==
  ASSUME NEW C, Quote \in C, Backslash \in C, Brace \in C,
         NEW w \in Seq(C), NEW f, IsScan(w, f), NEW m \in Nat,
         Len(w) = m + 2, w[m + 1] = Quote, w[m + 2] = Brace
  PROVE  /\ f[m + 1] = <<>>
         /\ m > 0 /\ w[m] = Backslash => f[m] = <<Quote, Brace>>
<1>0. Quote # Backslash /\ Brace # Quote /\ Brace # Backslash
  BY DEF Quote, Backslash, Brace
<1>1. m + 1 \in 1..(Len(w) + 2) /\ m + 1 <= Len(w)
  OBVIOUS
<1>2. f[m + 1] = <<>>
  BY <1>1, ScanAt
<1>3. ASSUME m > 0, w[m] = Backslash PROVE f[m] = <<Quote, Brace>>
  <2>1. m \in 1..(Len(w) + 2) /\ m < Len(w)
    BY <1>3
  <2>2. f[m] = <<Quote>> \o f[m + 2]
    BY <1>3, <2>1, ScanAt
  <2>3. m + 2 \in 1..(Len(w) + 2) /\ m + 2 <= Len(w) /\ m + 3 = m + 2 + 1
    OBVIOUS
  <2>4. f[m + 2] = <<Brace>> \o f[m + 3]
    <3> DEFINE i == m + 2
               j == m + 3
    <3>1. i \in 1..(Len(w) + 2) /\ i <= Len(w) /\ j = i + 1 /\ w[i] = Brace
      BY <2>3
    <3> HIDE DEF i, j
    <3>2. f[i] = <<Brace>> \o f[j]
      BY <1>0, <3>1, ScanCopies
    <3> QED BY <3>2 DEF i, j
  <2>5. m + 3 \in 1..(Len(w) + 2) /\ m + 3 > Len(w)
    OBVIOUS
  <2>6. f[m + 3] = <<>>
    BY <2>5, ScanAt
  <2>7. <<Brace>> \o <<>> = <<Brace>>
    <3>1. <<Brace>> \in Seq(C)
      OBVIOUS
    <3> QED BY <3>1, ConcatEmptySeq
  <2> QED BY <2>2, <2>4, <2>6, <2>7, PairIs
<1> QED BY <1>2, <1>3

(* What is expected of a text is its characters, scanned one by one, and   *)
(* after a backslash at its end the end of the request.                    *)
LEMMA ExpectedIs ==
  ASSUME NEW s
  PROVE  Expected(s) = IF s # <<>> /\ Last(s) = Backslash
                         THEN Front(FlattenSeq(ScannedChars(s))) \o <<Quote, Brace>>
                         ELSE FlattenSeq(ScannedChars(s))
BY Zenon DEF Expected, ScannedChars, ScannedChar

(* A text of two parts, the second of two characters, without its last.    *)
LEMMA FrontOfPair ==
  ASSUME NEW C, NEW x \in Seq(C), NEW y \in C, NEW z \in C
  PROVE  Front(x \o <<y, z>>) = x \o <<y>>
<1> DEFINE n == Len(x)
           a == x \o <<y, z>>
           b == x \o <<y>>
<1>1. n \in Nat /\ <<y, z>> \in Seq(C) /\ <<y>> \in Seq(C) /\ Len(<<y, z>>) = 2 /\ Len(<<y>>) = 1
  BY LenProperties
<1>2. /\ a \in Seq(C) /\ Len(a) = n + 2
      /\ \A i \in 1..(n + 2) : a[i] = IF i <= n THEN x[i] ELSE <<y, z>>[i - n]
  BY <1>1, ConcatProperties
<1>3. /\ b \in Seq(C) /\ Len(b) = n + 1
      /\ \A i \in 1..(n + 1) : b[i] = IF i <= n THEN x[i] ELSE <<y>>[i - n]
  BY <1>1, ConcatProperties
<1> HIDE DEF a, b
<1>4. \A i \in 1..(n + 1) : a[i] = b[i]
  <2>1. ASSUME NEW i \in 1..(n + 1) PROVE a[i] = b[i]
    <3>1. i \in 1..(n + 2) /\ (i <= n \/ i - n = 1)
      BY <1>1
    <3>2. <<y, z>>[1] = y /\ <<y>>[1] = y
      OBVIOUS
    <3>3. CASE i <= n
      BY <1>2, <1>3, <3>1, <3>3, Zenon
    <3>4. CASE ~(i <= n)
      BY <1>2, <1>3, <3>1, <3>2, <3>4, Zenon
    <3> QED BY <3>3, <3>4
  <2> QED BY <2>1
<1>5. Front(a) = SubSeq(a, 1, n + 1)
  <2>1. Len(a) - 1 = n + 1
    BY <1>1, <1>2
  <2> QED BY <2>1 DEF Front
<1>6. \A i \in 1..(n + 1) : a[i] \in C
  BY <1>1, <1>2, ElementOfSeq
<1>7. /\ SubSeq(a, 1, n + 1) \in Seq(C)
      /\ Len(SubSeq(a, 1, n + 1)) = n + 1
      /\ \A i \in 1..(n + 1) : SubSeq(a, 1, n + 1)[i] = a[i]
  <2>1. 1 \in Int /\ n + 1 \in Int /\ 1 <= n + 1 /\ n + 1 - 1 + 1 = n + 1
    BY <1>1
  <2>2. /\ SubSeq(a, 1, n + 1) \in Seq(C)
        /\ Len(SubSeq(a, 1, n + 1)) = IF 1 <= n + 1 THEN n + 1 - 1 + 1 ELSE 0
        /\ \A i \in 1..(n + 1 - 1 + 1) : SubSeq(a, 1, n + 1)[i] = a[1 + i - 1]
    BY <1>6, <2>1, SubSeqProperties
  <2> QED BY <1>1, <2>1, <2>2
<1>8. SubSeq(a, 1, n + 1) = b
  <2> DEFINE c == SubSeq(a, 1, n + 1)
  <2>1. c \in Seq(C) /\ Len(c) = Len(b) /\ \A i \in 1..Len(c) : c[i] = b[i]
    BY <1>3, <1>4, <1>7
  <2> HIDE DEF c
  <2>2. c = b
    BY <1>3, <2>1, SeqEqual
  <2> QED BY <2>2 DEF c
<1> QED BY <1>5, <1>8 DEF a, b

LEMMA ReadBackEmpty ==
  ASSUME NEW C, Quote \in C, Backslash \in C, Brace \in C
  PROVE  Whole(<<>>) \in Seq(C) /\ ReadText(Whole(<<>>)) = Expected(<<>>)
<1>1. <<>> \in Seq(C) /\ Len(<<>>) = 0
  BY EmptySeq
<1>2. EscapedChars(<<>>) \in Seq(Seq(C)) /\ Len(EscapedChars(<<>>)) = 0
      /\ ScannedChars(<<>>) \in Seq(Seq(C)) /\ Len(ScannedChars(<<>>)) = 0
      /\ Escaped(<<>>) = FlattenSeq(EscapedChars(<<>>))
  BY <1>1, CharSeqs, Zenon
<1>3. EscapedChars(<<>>) = <<>> /\ ScannedChars(<<>>) = <<>>
  <2>1. \A q \in Seq(Seq(C)) : Len(q) = 0 => q = <<>>
    BY EmptySeq
  <2> QED BY <1>2, <2>1, Zenon
<1>4. FlattenSeq(<<>>) = <<>>
  BY <1>1, Zenon DEF FlattenSeq
<1>5. Escaped(<<>>) = <<>> /\ Expected(<<>>) = <<>>
  BY <1>2, <1>3, <1>4, ExpectedIs
<1>6. <<Quote, Brace>> \in Seq(C) /\ Len(<<Quote, Brace>>) = 2
      /\ <<Quote, Brace>>[1] = Quote /\ <<Quote, Brace>>[2] = Brace
  OBVIOUS
<1>7. Whole(<<>>) = <<Quote, Brace>>
  BY <1>5, <1>6, ConcatEmptySeq DEF Whole
<1> DEFINE w == Whole(<<>>)
<1>8. w \in Seq(C) /\ Len(w) = 0 + 2 /\ w[0 + 1] = Quote /\ w[0 + 2] = Brace
  <2>1. 0 + 2 = 2 /\ 0 + 1 = 1
    OBVIOUS
  <2>2. w = <<Quote, Brace>>
    BY <1>7
  <2> HIDE DEF w
  <2> QED BY <1>6, <2>1, <2>2, Zenon
<1> HIDE DEF w
<1>9. PICK f : IsScan(w, f) /\ ReadText(w) = f[1]
  BY <1>8, ScanEquation
<1>10. f[0 + 1] = <<>>
  BY <1>8, <1>9, ScanEnd
<1> QED BY <1>5, <1>8, <1>9, <1>10 DEF w

LEMMA ReadBackMore ==
  ASSUME NEW C, Quote \in C, Backslash \in C, Brace \in C,
         NEW s \in Seq(C), s # <<>>
  PROVE  Whole(s) \in Seq(C) /\ ReadText(Whole(s)) = Expected(s)
<1> DEFINE N == Len(s)
           w == Whole(s)
           ss == ScannedChars(s)
<1>1. N \in Nat /\ N # 0 /\ N \in 1..N /\ Last(s) = s[N] /\ s[N] \in C
  BY LenProperties, EmptySeq, ElementOfSeq DEF Last
<1>2. PICK b : /\ w \in Seq(C) /\ Laid(w, s, b) /\ b[1] = 0
               /\ w[b[N + 1] + 1] = Quote /\ w[b[N + 1] + 2] = Brace
  BY WholePlaces
<1>3. ss \in Seq(Seq(C)) /\ Len(ss) = N
  BY CharSeqs
<1>4. PICK g \in [1..N -> Seq(C)] : Flattening(ss, N, g) /\ FlattenSeq(ss) = g[N]
  <2> HIDE DEF ss
  <2>1. \E g \in [1..Len(ss) -> Seq(C)] :
          Flattening(ss, Len(ss), g) /\ FlattenSeq(ss) = g[Len(ss)]
    BY <1>1, <1>3, FlattenIs
  <2> QED BY <1>3, <2>1
<1> HIDE DEF w
<1>5. Len(w) \in Nat
  BY <1>2, LenProperties
<1>6. PICK f : IsScan(w, f) /\ ReadText(w) = f[1]
  BY <1>5, ScanEquation
<1>7. /\ b[N] \in Nat /\ b[N + 1] \in Nat
      /\ b[N + 1] = b[N] + Len(EscapedChar(s[N]))
      /\ \A k \in 1..Len(EscapedChar(s[N])) : w[b[N] + k] = EscapedChar(s[N])[k]
  <2>1. LiesAt(w, s, b, N)
    BY <1>1, <1>2, LaidAt
  <2> QED BY <2>1, <1>1, Zenon DEF LiesAt
<1>8. Len(w) = b[N + 1] + 2
  BY <1>2, Zenon DEF Laid
<1>9. /\ f[b[N + 1] + 1] = <<>>
      /\ b[N + 1] > 0 /\ w[b[N + 1]] = Backslash => f[b[N + 1]] = <<Quote, Brace>>
  <2> DEFINE m == b[N + 1]
  <2>1. m \in Nat /\ Len(w) = m + 2 /\ w[m + 1] = Quote /\ w[m + 2] = Brace
    BY <1>2, <1>7, <1>8
  <2> HIDE DEF m
  <2>2. f[m + 1] = <<>> /\ (m > 0 /\ w[m] = Backslash => f[m] = <<Quote, Brace>>)
    <3>1. w \in Seq(C) /\ IsScan(w, f)
      BY <1>2, <1>6
    <3> QED BY <2>1, <3>1, ScanEnd
  <2> QED BY <2>2 DEF m
<1>10. \A p \in 1..N : (s[p] = Backslash => p < N) => f[1] = g[p] \o f[b[p + 1] + 1]
  <2>1. Scans(s, b, f, g)
    BY <1>2, <1>4, <1>6, ScanPrefix
  <2> QED BY <2>1 DEF Scans
<1>11. ss[N] = ScannedChar(s[N])
  BY <1>1 DEF ScannedChars
<1>12. CASE s[N] # Backslash
  <2>1. f[1] = g[N] \o <<>>
    BY <1>1, <1>9, <1>10, <1>12
  <2>2. g[N] \in Seq(C)
    BY <1>1
  <2>3. f[1] = g[N]
    BY <2>1, <2>2, ConcatEmptySeq
  <2>4. Expected(s) = g[N]
    BY <1>1, <1>4, <1>12, ExpectedIs
  <2> QED BY <1>2, <1>6, <2>3, <2>4 DEF w
<1>13. CASE s[N] = Backslash
  <2>0. Quote # Backslash
    BY DEF Quote, Backslash
  <2>1. EscapedChar(s[N]) = <<Backslash, Backslash>> /\ ScannedChar(s[N]) = <<Backslash, Backslash>>
    BY <1>13 DEF EscapedChar, ScannedChar
  <2>2. b[N + 1] = b[N] + 2 /\ w[b[N] + 1] = Backslash /\ w[b[N] + 2] = Backslash
    BY <1>7, <2>1
  <2>3. f[b[N] + 1] = <<Backslash>> \o <<Quote, Brace>>
    <3> DEFINE c == b[N]
    <3>1. /\ c \in Nat /\ b[N + 1] = c + 2 /\ Len(w) = c + 4
          /\ w[c + 1] = Backslash /\ w[c + 2] = Backslash
      BY <1>7, <1>8, <2>2
    <3>2. f[c + 2] = <<Quote, Brace>>
      BY <1>9, <3>1
    <3> HIDE DEF c
    <3>3. c + 1 \in 1..(Len(w) + 2) /\ c + 1 <= Len(w) /\ c + 1 + 1 = c + 2
      BY <3>1
    <3>4. f[c + 1] = <<w[c + 1]>> \o f[c + 1 + 1]
      <4> DEFINE i == c + 1
      <4>1. /\ i \in 1..(Len(w) + 2) /\ i <= Len(w) /\ w[i] # Quote
            /\ w[i + 1] # Quote
        BY <2>0, <3>1, <3>3
      <4> HIDE DEF i
      <4>2. f[i] = <<w[i]>> \o f[i + 1]
        BY <1>2, <1>6, <4>1, ScanAt
      <4> QED BY <4>2 DEF i
    <3>5. f[c + 1] = <<Backslash>> \o f[c + 2]
      BY <3>1, <3>3, <3>4
    <3> QED BY <3>2, <3>5 DEF c
  <2>4. PICK h \in Seq(C) : /\ f[1] = h \o f[b[N] + 1]
                             /\ g[N] = h \o <<Backslash, Backslash>>
    <3>1. CASE N = 1
      <4>1. g[N] = <<Backslash, Backslash>>
        BY <1>1, <1>4, <1>11, <2>1, <3>1, Zenon DEF Flattening
      <4>2. <<>> \in Seq(C) /\ <<Backslash, Backslash>> \in Seq(C) /\ f[b[N] + 1] \in Seq(C)
        <5>1. <<Backslash>> \in Seq(C) /\ <<Quote, Brace>> \in Seq(C)
          OBVIOUS
        <5> QED BY <2>3, <5>1, ConcatProperties
      <4>3. <<>> \o <<Backslash, Backslash>> = <<Backslash, Backslash>>
            /\ <<>> \o f[b[N] + 1] = f[b[N] + 1]
        BY <4>2, ConcatEmptySeq
      <4>4. f[1] = f[b[N] + 1]
        BY <1>2, <3>1
      <4> QED BY <4>1, <4>2, <4>3, <4>4
    <3>2. CASE N # 1
      <4>1. PICK q \in 1..N : q = N - 1 /\ q < N /\ q + 1 = N
        <5>1. \A n \in Nat : n # 0 /\ n # 1 =>
                n - 1 \in 1..n /\ n - 1 < n /\ n - 1 + 1 = n
          OBVIOUS
        <5> HIDE DEF N
        <5> QED BY <1>1, <3>2, <5>1
      <4>2. f[1] = g[q] \o f[b[N] + 1]
        BY <1>10, <4>1
      <4>3. g[N] = g[q] \o <<Backslash, Backslash>>
        BY <1>1, <1>4, <1>11, <2>1, <3>2, <4>1, Zenon DEF Flattening
      <4>4. g[q] \in Seq(C)
        OBVIOUS
      <4> QED BY <4>2, <4>3, <4>4
    <3> QED BY <3>1, <3>2
  <2>5. f[1] = (h \o <<Backslash>>) \o <<Quote, Brace>>
    <3>1. <<Backslash>> \in Seq(C) /\ <<Quote, Brace>> \in Seq(C)
      OBVIOUS
    <3>2. Associate(h, <<Backslash>>, <<Quote, Brace>>)
      BY <3>1, Associative
    <3> QED BY <2>3, <2>4, <3>2 DEF Associate
  <2>6. Front(g[N]) = h \o <<Backslash>>
    <3> DEFINE tail == <<Backslash, Backslash>>
    <3>1. g[N] = h \o tail
      BY <2>4
    <3>2. Front(h \o tail) = h \o <<Backslash>>
      BY FrontOfPair
    <3> HIDE DEF tail
    <3> QED BY <3>1, <3>2, Zenon
  <2>7. Expected(s) = Front(g[N]) \o <<Quote, Brace>>
    BY <1>1, <1>4, <1>13, ExpectedIs
  <2> QED BY <1>2, <1>6, <2>5, <2>6, <2>7 DEF w
<1> QED BY <1>12, <1>13

(* What POST /send saves and sends: for every text, exactly what is to be  *)
(* expected of it.  Only a backslash is not kept as it was typed.          *)
THEOREM ReadBack ==
  ASSUME NEW C, Quote \in C, Backslash \in C, Brace \in C, NEW s \in Seq(C)
  PROVE  /\ Body(s, Pieces) \in Seq(C)
         /\ ReadText(Body(s, Pieces)) = Expected(s)
<1>1. Body(s, Pieces) = Whole(s)
  BY DEF Body, Whole
<1>2. CASE s = <<>>
  BY <1>1, <1>2, ReadBackEmpty
<1>3. CASE s # <<>>
  BY <1>1, <1>3, ReadBackMore
<1> QED BY <1>2, <1>3

(* And it is a sequence of the same characters.                            *)
LEMMA ReadTyped ==
  ASSUME NEW C, Quote \in C, Backslash \in C, Brace \in C, NEW s \in Seq(C)
  PROVE  ReadText(Body(s, Pieces)) \in Seq(C)
<1> DEFINE w == Body(s, Pieces)
<1>1. w \in Seq(C)
  BY ReadBack
<1> HIDE DEF w
<1>2. Len(w) \in Nat
  BY <1>1, LenProperties
<1>3. PICK f : IsScan(w, f) /\ ReadText(w) = f[1]
  BY <1>2, ScanEquation
<1>4. 1 \in 1..(Len(w) + 2)
  BY <1>2
<1>5. f[1] \in Seq(C)
  BY <1>1, <1>3, <1>4, ScanTyped
<1> QED BY <1>3, <1>5 DEF w

----------------------------------------------------------------------------
(* The readers of messages.txt.                                            *)

(* The fold of make_json_messages exists: it is built for the first lines  *)
(* of the file and extended by one line at a time.                         *)
ReadingStep(q, g, s) ==
  IF s = {} THEN Shut ELSE ReadLine(g[s \ {Max(s)}], q[Max(s)])

LEMMA ReadingExists ==
  ASSUME NEW q, NEW N \in Nat
  PROVE  \E g : g = [s \in SUBSET (1..N) |-> ReadingStep(q, g, s)]
<1> DEFINE Is(n, g) == g = [s \in SUBSET (1..n) |-> ReadingStep(q, g, s)]
           S == {n \in Nat : \E g : Is(n, g)}
<1>1. 0 \in S
  <2> DEFINE z == [s \in SUBSET (1..0) |-> Shut]
  <2>1. SUBSET (1..0) = {{}}
    OBVIOUS
  <2>2. \A s \in SUBSET (1..0) : ReadingStep(q, z, s) = Shut
    BY <2>1 DEF ReadingStep
  <2>3. Is(0, z)
    BY <2>2, Zenon
  <2> QED BY <2>3
<1>2. ASSUME NEW n \in Nat, n \in S PROVE n + 1 \in S
  <2>1. PICK g : Is(n, g)
    BY <1>2
  <2> DEFINE G == [s \in SUBSET (1..(n + 1)) |->
                     IF n + 1 \in s THEN ReadLine(g[s \ {n + 1}], q[n + 1]) ELSE g[s]]
  <2>2. \A s \in SUBSET (1..(n + 1)) :
          /\ s \ {n + 1} \in SUBSET (1..n)
          /\ n + 1 \notin s => s \in SUBSET (1..n)
          /\ \A m : s \ {m} \in SUBSET (1..(n + 1))
    <3> HIDE DEF G, S, Is
    <3>1. ASSUME NEW s \in SUBSET (1..(n + 1))
          PROVE  s \ {n + 1} \in SUBSET (1..n)
      <4>1. \A x \in 1..(n + 1) : x # n + 1 => x \in 1..n
        OBVIOUS
      <4> QED BY <4>1
    <3>2. ASSUME NEW s \in SUBSET (1..(n + 1)), n + 1 \notin s
          PROVE  s \in SUBSET (1..n)
      <4>1. \A x \in 1..(n + 1) : x # n + 1 => x \in 1..n
        OBVIOUS
      <4> QED BY <3>2, <4>1
    <3>3. ASSUME NEW s \in SUBSET (1..(n + 1)), NEW m
          PROVE  s \ {m} \in SUBSET (1..(n + 1))
      BY Zenon
    <3> QED BY <3>1, <3>2, <3>3
  <2>3. ASSUME NEW s \in SUBSET (1..(n + 1)) PROVE G[s] = ReadingStep(q, G, s)
    <3>1. CASE n + 1 \in s
      <4>1. Max(s) = n + 1
        BY <3>1, GreatestOf
      <4>2. G[s] = ReadLine(g[s \ {n + 1}], q[n + 1])
        BY <3>1
      <4>3. G[s \ {n + 1}] = g[s \ {n + 1}]
        BY <2>2
      <4>4. s # {}
        BY <3>1
      <4> HIDE DEF G
      <4> QED BY <4>1, <4>2, <4>3, <4>4, Zenon DEF ReadingStep
    <3>2. CASE n + 1 \notin s
      <4>1. G[s] = g[s] /\ s \in SUBSET (1..n)
        BY <2>2, <3>2
      <4>2. g[s] = ReadingStep(q, g, s)
        BY <2>1, <4>1, Zenon
      <4>3. G[s \ {Max(s)}] = g[s \ {Max(s)}]
        BY <2>2, <3>2
      <4> HIDE DEF G
      <4> QED BY <4>1, <4>2, <4>3, Zenon DEF ReadingStep
    <3> QED BY <3>1, <3>2
  <2>4. G = [s \in SUBSET (1..(n + 1)) |-> G[s]]
    BY Zenon
  <2> HIDE DEF G
  <2>5. Is(n + 1, G)
    BY <2>3, <2>4, Zenon
  <2> HIDE DEF Is
  <2> QED BY <2>5
<1>3. N \in S
  <2> HIDE DEF S
  <2> QED BY <1>1, <1>2, EveryNatural
<1> QED BY <1>3

(* So the fold is the last of the values h[n] it takes on the way.         *)
ReadingLines(q, h) ==
  /\ h[0] = Shut
  /\ \A n \in 1..Len(q) : h[n] = ReadLine(h[n - 1], q[n])

LEMMA ReadingValues ==
  ASSUME NEW q, Len(q) \in Nat, DOMAIN q = 1..Len(q)
  PROVE  \E h : ReadingLines(q, h) /\ FoldLeft(ReadLine, Shut, q) = h[Len(q)]
<1> DEFINE N == Len(q)
           IsFold(g) == g = [s \in SUBSET (1..N) |-> ReadingStep(q, g, s)]
<1>1. FoldLeft(ReadLine, Shut, q) = (CHOOSE g : IsFold(g))[1..N]
  BY Zenon DEF FoldLeft, MapThenFoldSet, ReadingStep
<1>2. \E g : IsFold(g)
  BY ReadingExists, Zenon
<1>3. PICK g : IsFold(g) /\ FoldLeft(ReadLine, Shut, q) = g[1..N]
  BY <1>1, <1>2, Zenon
<1> DEFINE h == [n \in 0..N |-> g[1..n]]
<1>4. h[0] = Shut
  <2>1. 1..0 = {} /\ {} \in SUBSET (1..N)
    OBVIOUS
  <2>2. g[{}] = Shut
    BY <1>3, <2>1, Zenon DEF ReadingStep
  <2>3. h[0] = g[1..0]
    BY SMT
  <2> QED BY <2>1, <2>2, <2>3
<1>5. ASSUME NEW n \in 1..N PROVE h[n] = ReadLine(h[n - 1], q[n])
  <2>1. /\ n \in Nat /\ 1..n \in SUBSET (1..N) /\ n \in 1..n /\ 1..n # {}
        /\ (1..n) \ {n} = 1..(n - 1) /\ n \in 0..N /\ n - 1 \in 0..N
    <3> HIDE DEF h, IsFold
    <3>1. N \in Nat
      OBVIOUS
    <3> HIDE DEF N
    <3>2. n \in Nat /\ n \in 1..n /\ n \in 0..N /\ n - 1 \in 0..N
      BY <3>1
    <3>3. \A x \in 1..n : x \in 1..N
      BY <3>1
    <3>4. \A x : x \in 1..n /\ x # n <=> x \in 1..(n - 1)
      BY <3>1
    <3>5. (1..n) \ {n} = 1..(n - 1)
      BY <3>4, Zenon
    <3> QED BY <3>2, <3>3, <3>5
  <2>2. Max(1..n) = n
    BY <2>1, GreatestOf
  <2>3. g[1..n] = ReadingStep(q, g, 1..n)
    BY <1>3, <2>1, Zenon
  <2>4. g[1..n] = ReadLine(g[1..(n - 1)], q[n])
    BY <2>1, <2>2, <2>3, Zenon DEF ReadingStep
  <2>5. h[n] = g[1..n] /\ h[n - 1] = g[1..(n - 1)]
    BY <2>1
  <2> HIDE DEF h
  <2> QED BY <2>4, <2>5
<1>6. h[N] = g[1..N]
  BY SMT
<1> HIDE DEF h
<1> QED BY <1>3, <1>4, <1>5, <1>6, Zenon DEF ReadingLines

(* Whatever lines follow, the fold goes on from where it is.               *)
GoesOn(a, u, h) ==
  /\ h[0] = a
  /\ \A n \in 1..Len(u) : h[n] = ReadLine(h[n - 1], u[n])

LEMMA ReadingOn ==
  ASSUME NEW L, NEW q \in Seq(L), NEW u \in Seq(L)
  PROVE  \E h : /\ GoesOn(FoldLeft(ReadLine, Shut, q), u, h)
                /\ FoldLeft(ReadLine, Shut, q \o u) = h[Len(u)]
<1> DEFINE N == Len(q)
           M == Len(u)
           r == q \o u
<1>1. N \in Nat /\ DOMAIN q = 1..N /\ M \in Nat
  BY LenProperties
<1>2. /\ r \in Seq(L) /\ Len(r) = N + M
      /\ \A n \in 1..(N + M) : r[n] = IF n <= N THEN q[n] ELSE u[n - N]
  BY ConcatProperties
<1> HIDE DEF r
<1>3. DOMAIN r = 1..Len(r) /\ Len(r) \in Nat
  BY <1>2, LenProperties
<1>4. PICK g : ReadingLines(q, g) /\ FoldLeft(ReadLine, Shut, q) = g[N]
  BY <1>1, ReadingValues
<1>5. PICK k : ReadingLines(r, k) /\ FoldLeft(ReadLine, Shut, r) = k[Len(r)]
  BY <1>3, ReadingValues
<1> DEFINE S == {n \in Nat : n <= N => k[n] = g[n]}
<1>6. 0 \in S
  BY <1>4, <1>5, Zenon DEF ReadingLines
<1>7. ASSUME NEW n \in Nat, n \in S PROVE n + 1 \in S
  <2>1. ASSUME NEW m \in 1..N, m = n + 1 PROVE k[m] = g[m]
    <3>1. m - 1 = n /\ m \in 1..Len(r) /\ m \in 1..(N + M) /\ m <= N /\ n <= N
      BY <1>1, <1>2, <2>1
    <3>2. k[n] = g[n] /\ r[m] = q[m]
      BY <1>2, <1>7, <3>1
    <3>3. g[m] = ReadLine(g[m - 1], q[m])
      BY <1>4, Zenon DEF ReadingLines
    <3>4. k[m] = ReadLine(k[m - 1], r[m])
      BY <1>5, <3>1, Zenon DEF ReadingLines
    <3> QED BY <3>1, <3>2, <3>3, <3>4, Zenon
  <2>2. n + 1 <= N => n + 1 \in 1..N
    BY <1>1
  <2> QED BY <2>1, <2>2
<1>8. N \in S
  <2> HIDE DEF S
  <2> QED BY <1>1, <1>6, <1>7, EveryNatural
<1>9. k[N] = g[N]
  BY <1>1, <1>8
<1> DEFINE h == [n \in 0..M |-> k[N + n]]
<1>10. h[0] = k[N] /\ h[M] = k[Len(r)]
  <2>1. 0 \in 0..M /\ M \in 0..M /\ N + 0 = N /\ N + M = Len(r)
    BY <1>1, <1>2
  <2> QED BY <2>1
<1>11. ASSUME NEW n \in 1..M PROVE h[n] = ReadLine(h[n - 1], u[n])
  <2>1. PICK m \in 1..Len(r) : m = N + n
    BY <1>1, <1>2
  <2>2. /\ m \in 1..(N + M) /\ ~(m <= N) /\ m - N = n
        /\ n \in 0..M /\ n - 1 \in 0..M /\ N + (n - 1) = m - 1
    BY <1>1, <2>1
  <2>3. r[m] = u[n]
    BY <1>2, <2>2
  <2>4. k[m] = ReadLine(k[m - 1], r[m])
    BY <1>5, Zenon DEF ReadingLines
  <2>5. h[n] = k[m] /\ h[n - 1] = k[m - 1]
    BY <2>1, <2>2
  <2> HIDE DEF h
  <2> QED BY <2>3, <2>4, <2>5
<1> HIDE DEF h
<1> QED BY <1>4, <1>5, <1>9, <1>10, <1>11, Zenon DEF GoesOn, r

----------------------------------------------------------------------------
(* The types.                                                              *)

Chars == {Quote, Backslash, Brace} \cup UNION {Range(t.chars) : t \in Texts}
Mentions == {{}} \cup {t.mentions : t \in Texts}
KeptTexts == [n : Nat, chars : Seq(Chars), size : Int, mentions : Mentions]
Whos == {"you", "friend"}
Lines == [tag : Whos \cup {"message", "stamp", "end", "part"}, text : KeptTexts]
Appended == [who : Whos, text : KeptTexts, torn : BOOLEAN]
Requested == [from : Clients, got : 0..Pieces,
              state : {"reading", "answered", "broken"}, text : KeptTexts]

Typed ==
  /\ requests \in Seq(Requested)
  /\ \A i \in DOMAIN requests : requests[i].text.n = i
  /\ files \in [Clients -> Seq(Lines)]
  /\ log \in [Clients -> Seq(Appended)]
  /\ \A p \in net : p.to \in Clients /\ p.text \in KeptTexts /\ p.sum = CRC32(p.text)

LEMMA FriendIs ==
  ASSUME NEW c \in Clients
  PROVE  Friend(c) \in Clients /\ Friend(c) # c /\ Friend(Friend(c)) = c
<1>1. PICK x, y \in Clients : x # y /\ Clients = {x, y}
  BY ClientsAssumption
<1>2. \A e \in Clients : Friend(e) \in Clients /\ Friend(e) # e
  BY <1>1 DEF Friend
<1> QED BY <1>1, <1>2

LEMMA CharsAre ==
  Quote \in Chars /\ Backslash \in Chars /\ Brace \in Chars
BY DEF Chars

LEMMA WiderSeq ==
  ASSUME NEW S, NEW T, S \subseteq T, NEW q \in Seq(S)
  PROVE  q \in Seq(T)
<1>1. Len(q) \in Nat /\ q \in [1..Len(q) -> S]
  BY LenProperties
<1>2. q \in [1..Len(q) -> T]
  BY <1>1
<1> QED BY <1>1, <1>2

LEMMA TypedTexts ==
  ASSUME NEW t \in Texts
  PROVE  t.chars \in Seq(Chars) /\ t.size \in Int /\ t.mentions \in Mentions
<1>1. t.chars \in Seq(Range(t.chars)) /\ t.size \in Nat
  BY TextsAssumption
<1>2. Range(t.chars) \subseteq Chars
  BY DEF Chars
<1> QED BY <1>1, <1>2, WiderSeq DEF Mentions

LEMMA NoTextTyped == NoText \in KeptTexts
<1>1. <<>> \in Seq(Chars)
  BY EmptySeq
<1> QED BY <1>1 DEF NoText, KeptTexts, Mentions

(* The text as POST /send saves it is a text, with the number of its       *)
(* request, and with the characters that are to be expected.               *)
LEMMA ScannedIs ==
  ASSUME NEW t \in KeptTexts
  PROVE  /\ Scanned(t, Pieces) \in KeptTexts
         /\ Scanned(t, Pieces).n = t.n
         /\ Scanned(t, Pieces).chars = Expected(t.chars)
<1> DEFINE r == ReadText(Body(t.chars, Pieces))
<1>1. t.chars \in Seq(Chars) /\ t.size \in Int
  BY DEF KeptTexts
<1>2. r \in Seq(Chars) /\ r = Expected(t.chars)
  BY <1>1, CharsAre, ReadBack, ReadTyped
<1>3. Scanned(t, Pieces) = [t EXCEPT !.chars = r, !.size = (@ + Len(r)) - Len(t.chars)]
  BY Zenon DEF Scanned
<1> HIDE DEF r
<1>4. Len(r) \in Nat /\ Len(t.chars) \in Nat
  BY <1>1, <1>2, LenProperties
<1>5. (t.size + Len(r)) - Len(t.chars) \in Int
  BY <1>1, <1>4
<1> QED BY <1>2, <1>3, <1>5 DEF KeptTexts

LEMMA EntryTyped ==
  ASSUME NEW who \in Whos, NEW t \in KeptTexts
  PROVE  /\ Entry(who, t) \in Seq(Lines) /\ Len(Entry(who, t)) = 4
         /\ Entry(who, t)[1] = Line(who)
         /\ Entry(who, t)[2] = [tag |-> "message", text |-> t]
         /\ Entry(who, t)[3] = Line("stamp")
         /\ Entry(who, t)[4] = Line("end")
<1>1. Line(who) \in Lines /\ Line("stamp") \in Lines /\ Line("end") \in Lines
  BY NoTextTyped DEF Line, Lines
<1>2. [tag |-> "message", text |-> t] \in Lines
  BY DEF Lines
<1> HIDE DEF Lines
<1> QED BY <1>1, <1>2 DEF Entry

(* What is left of an append that was cut has no line that ends an entry.  *)
LEMMA TornTyped ==
  ASSUME NEW who \in Whos, NEW t \in KeptTexts, NEW lines \in Torn(who, t)
  PROVE  /\ lines \in Seq(Lines)
         /\ \A i \in 1..Len(lines) : lines[i].tag # "end"
<1> DEFINE e == Entry(who, t)
<1>1. /\ e \in Seq(Lines) /\ Len(e) = 4
      /\ e[1] = Line(who) /\ e[2] = [tag |-> "message", text |-> t] /\ e[3] = Line("stamp")
  BY EntryTyped
<1>2. /\ e[1].tag # "end" /\ e[2].tag # "end" /\ e[3].tag # "end"
  BY <1>1 DEF Line, Whos
<1> HIDE DEF e
<1>3. CASE \E k \in 0..3, rest \in {<<>>, <<Line("part")>>} : lines = SubSeq(e, 1, k) \o rest
  <2>1. PICK k \in 0..3, rest \in {<<>>, <<Line("part")>>} : lines = SubSeq(e, 1, k) \o rest
    BY <1>3
  <2> DEFINE u == SubSeq(e, 1, k)
  <2>2. u \in Seq(Lines) /\ Len(u) = k /\ \A i \in 1..k : u[i] = e[i]
    <3>0. 1 \in Int /\ k \in Int /\ \A i \in 1..k : i \in 1..4
      OBVIOUS
    <3>1. 1 \in Int /\ k \in Int /\ \A i \in 1..k : e[i] \in Lines
      BY <1>1, <3>0, ElementOfSeq, Zenon
    <3>2. /\ u \in Seq(Lines)
          /\ Len(u) = IF 1 <= k THEN k - 1 + 1 ELSE 0
          /\ \A i \in 1..(k - 1 + 1) : u[i] = e[1 + i - 1]
      BY <3>1, SubSeqProperties
    <3> QED BY <3>1, <3>2
  <2>3. \A i \in 1..k : u[i].tag # "end"
    BY <1>2, <2>2
  <2> HIDE DEF u
  <2>4. /\ rest \in Seq(Lines) /\ Len(rest) \in Nat
        /\ \A i \in 1..Len(rest) : rest[i].tag # "end"
    <3>1. Line("part") \in Lines /\ Line("part").tag # "end"
      BY NoTextTyped DEF Line, Lines
    <3>2. CASE rest = <<>>
      BY <3>2, EmptySeq
    <3>3. CASE rest = <<Line("part")>>
      BY <3>1, <3>3
    <3> QED BY <3>2, <3>3
  <2>5. /\ u \o rest \in Seq(Lines)
        /\ Len(u \o rest) = Len(u) + Len(rest)
        /\ \A i \in 1..(Len(u) + Len(rest)) :
             (u \o rest)[i] = IF i <= Len(u) THEN u[i] ELSE rest[i - Len(u)]
    BY <2>2, <2>4, ConcatProperties
  <2>6. ASSUME NEW i \in 1..(Len(u) + Len(rest)) PROVE (u \o rest)[i].tag # "end"
    <3>1. CASE i <= Len(u)
      <4>1. i \in 1..k
        BY <2>2, <3>1
      <4> QED BY <2>3, <2>5, <3>1, <4>1
    <3>2. CASE ~(i <= Len(u))
      <4>1. i - Len(u) \in 1..Len(rest)
        BY <2>2, <2>4, <3>2
      <4> QED BY <2>4, <2>5, <3>2, <4>1
    <3> QED BY <3>1, <3>2
  <2>7. lines = u \o rest
    BY <2>1 DEF u
  <2> QED BY <2>5, <2>6, <2>7
<1>4. CASE lines = <<Line(who), [tag |-> "message", text |-> [t EXCEPT !.chars = <<>>]]>>
  <2>1. [t EXCEPT !.chars = <<>>] \in KeptTexts
    <3>1. <<>> \in Seq(Chars)
      BY EmptySeq
    <3> QED BY <3>1 DEF KeptTexts
  <2>2. [tag |-> "message", text |-> [t EXCEPT !.chars = <<>>]] \in Lines
    BY <2>1 DEF Lines
  <2>3. Line(who) \in Lines
    BY NoTextTyped DEF Line, Lines
  <2>4. Line(who).tag # "end"
    BY DEF Line, Whos
  <2> HIDE DEF Lines
  <2> QED BY <1>4, <2>2, <2>3, <2>4
<1>5. \/ \E k \in 0..3, rest \in {<<>>, <<Line("part")>>} : lines = SubSeq(e, 1, k) \o rest
      \/ lines = <<Line(who), [tag |-> "message", text |-> [t EXCEPT !.chars = <<>>]]>>
  BY DEF Torn, e
<1> QED BY <1>3, <1>4, <1>5

----------------------------------------------------------------------------
(* What a step does to the histories.                                      *)

(* A text is appended to the history of c, to its end or in part.          *)
Appending(c, who, t, torn) ==
  /\ log' = [log EXCEPT ![c] = Append(@, [who |-> who, text |-> t, torn |-> torn])]
  /\ \E lines \in IF torn THEN Torn(who, t) ELSE {Entry(who, t)} :
       files' = [files EXCEPT ![c] = @ \o lines]

(* The requests to send a text that were answered.                         *)
Answered == {i \in DOMAIN requests : requests[i].state = "answered" /\ IsSend(requests[i].text)}

(* A step that leaves the histories alone.                                 *)
Quiet ==
  /\ UNCHANGED <<files, log>>
  /\ net' \subseteq net
  /\ \A t \in refused' : t \in refused \/ (t \in KeptTexts /\ ~Fits(t))
  /\ Answered' = Answered

(* The text of a request goes into the history of its sender, and if it    *)
(* got there whole the request is answered and a packet may be on its way. *)
OwnText(i, torn) ==
  LET r == requests[i]
      t == Scanned(r.text, Pieces)
  IN  /\ Appending(r.from, "you", t, torn)
      /\ net' \subseteq net \cup IF torn THEN {} ELSE Sent(r.from, t)
      /\ refused' = refused
      /\ i \notin Answered
      /\ Answered' = Answered \cup IF torn THEN {} ELSE {i}

(* The text of a packet goes into the history of the friend.               *)
FriendText(p, torn) ==
  /\ Fits(p.text)
  /\ Appending(p.to, "friend", p.text, torn)
  /\ net' \subseteq net
  /\ refused' = refused
  /\ Answered' = Answered

(* Requests are not forgotten, nor changed but for how far they have come. *)
Remembered ==
  \A i \in DOMAIN requests :
    /\ i \in DOMAIN requests'
    /\ requests'[i].text = requests[i].text
    /\ requests'[i].from = requests[i].from

(* Requests that only go from one state to another, other than to the      *)
(* answer of a text.                                                       *)
LEMMA Moved ==
  ASSUME Typed, DOMAIN requests' = DOMAIN requests,
         \A i \in DOMAIN requests :
            /\ requests'[i] \in Requested
            /\ requests'[i].text = requests[i].text
            /\ requests'[i].from = requests[i].from
            /\ IsSend(requests[i].text) =>
                 (requests'[i].state = "answered" <=> requests[i].state = "answered"),
         requests' = [i \in DOMAIN requests |-> requests'[i]]
  PROVE  /\ requests' \in Seq(Requested)
         /\ \A i \in DOMAIN requests' : requests'[i].text.n = i
         /\ Remembered
         /\ Answered' = Answered
<1>1. requests \in Seq(Requested) /\ DOMAIN requests = 1..Len(requests) /\ Len(requests) \in Nat
  BY LenProperties DEF Typed
<1>2. requests' \in Seq(Requested)
  BY <1>1
<1>3. \A i \in DOMAIN requests' : requests'[i].text.n = i
  BY DEF Typed
<1>4. Remembered
  BY DEF Remembered
<1>5. Answered' = Answered
  BY Zenon DEF Answered
<1> QED BY <1>2, <1>3, <1>4, <1>5

LEMMA QuietRequests ==
  ASSUME Typed, UNCHANGED requests
  PROVE  Remembered /\ Answered' = Answered
BY Zenon DEF Remembered, Answered

(* The connections of a client that ends are broken, and nothing else      *)
(* happens to the requests.                                                *)
LEMMA TornIs ==
  ASSUME Typed, NEW c \in Clients, NEW who \in Whos, NEW t \in KeptTexts,
         SavedInPart(c, who, t)
  PROVE  /\ Appending(c, who, t, TRUE)
         /\ requests' \in Seq(Requested)
         /\ \A i \in DOMAIN requests' : requests'[i].text.n = i
         /\ Remembered
         /\ Answered' = Answered
<1>1. Appending(c, who, t, TRUE)
  BY Zenon DEF SavedInPart, Appending
<1>2. requests' = [i \in DOMAIN requests |->
                     IF requests[i].from = c /\ requests[i].state = "reading"
                       THEN [requests[i] EXCEPT !.state = "broken"] ELSE requests[i]]
  BY Zenon DEF SavedInPart
<1>3. requests \in Seq(Requested) /\ \A i \in DOMAIN requests : requests[i] \in Requested
  BY ElementOfSeq, LenProperties DEF Typed
<1>4. DOMAIN requests' = DOMAIN requests
  BY <1>2
<1>5. ASSUME NEW i \in DOMAIN requests
      PROVE  /\ requests'[i] \in Requested
             /\ requests'[i].text = requests[i].text
             /\ requests'[i].from = requests[i].from
             /\ requests'[i].state = "answered" <=> requests[i].state = "answered"
  BY <1>2, <1>3 DEF Requested
<1>6. requests' = [i \in DOMAIN requests |-> requests'[i]]
  BY <1>2, Zenon
<1> QED BY <1>1, <1>4, <1>5, <1>6, Moved

LEMMA SavedIs ==
  ASSUME NEW c, NEW who, NEW t, Saved(c, who, t)
  PROVE  Appending(c, who, t, FALSE)
BY Zenon DEF Saved, Appending

(* Appending keeps the types.                                              *)
LEMMA AppendingTyped ==
  ASSUME Typed, NEW c \in Clients, NEW who \in Whos, NEW t \in KeptTexts,
         NEW torn \in BOOLEAN, Appending(c, who, t, torn)
  PROVE  /\ files' \in [Clients -> Seq(Lines)]
         /\ log' \in [Clients -> Seq(Appended)]
<1>1. [who |-> who, text |-> t, torn |-> torn] \in Appended
  BY DEF Appended
<1>2. log \in [Clients -> Seq(Appended)] /\ files \in [Clients -> Seq(Lines)]
  BY DEF Typed
<1>3. Append(log[c], [who |-> who, text |-> t, torn |-> torn]) \in Seq(Appended)
  BY <1>1, <1>2, AppendProperties
<1>4. log' \in [Clients -> Seq(Appended)]
  BY <1>2, <1>3, Zenon DEF Appending
<1>5. PICK lines \in IF torn THEN Torn(who, t) ELSE {Entry(who, t)} :
        files' = [files EXCEPT ![c] = @ \o lines]
  BY Zenon DEF Appending
<1>6. lines \in Seq(Lines)
  BY <1>5, TornTyped, EntryTyped
<1>7. files[c] \o lines \in Seq(Lines)
  BY <1>2, <1>6, ConcatProperties
<1> QED BY <1>2, <1>4, <1>5, <1>7

(* The kinds of steps there are.                                           *)
Kind ==
  \/ Quiet
  \/ \E i \in DOMAIN requests, torn \in BOOLEAN : OwnText(i, torn)
  \/ \E p \in net, torn \in BOOLEAN : FriendText(p, torn)

LEMMA TypeStep ==
  ASSUME Typed, NEW c \in Clients, NEW t \in Texts, Type(c, t)
  PROVE  Typed' /\ Remembered /\ Kind
<1> DEFINE n == Len(requests)
           r == [from |-> c, got |-> 0, state |-> "reading",
                 text |-> [n |-> n + 1, chars |-> t.chars, size |-> t.size,
                           mentions |-> t.mentions]]
<1>1. requests \in Seq(Requested) /\ n \in Nat /\ DOMAIN requests = 1..n
  BY LenProperties DEF Typed
<1>2. r \in Requested
  <2>1. n + 1 \in Nat
    BY <1>1
  <2>2. [n |-> n + 1, chars |-> t.chars, size |-> t.size, mentions |-> t.mentions] \in KeptTexts
    BY <2>1, TypedTexts DEF KeptTexts
  <2>3. 0 \in 0..Pieces
    BY DEF Pieces
  <2> QED BY <2>2, <2>3 DEF Requested
<1>3. requests' = Append(requests, r)
  BY Zenon DEF Type
<1>4. r.text.n = n + 1 /\ r.state = "reading"
  OBVIOUS
<1> HIDE DEF r
<1>5. /\ requests' \in Seq(Requested) /\ Len(requests') = n + 1
      /\ requests'[n + 1] = r
      /\ \A i \in 1..n : requests'[i] = requests[i]
      /\ DOMAIN requests' = 1..(n + 1)
  BY <1>1, <1>2, <1>3, AppendProperties, LenProperties
<1> HIDE DEF n
<1>6. \A i \in 1..(n + 1) : i \in 1..n \/ i = n + 1
  BY <1>1
<1>7. \A i \in DOMAIN requests' : requests'[i].text.n = i
  BY <1>1, <1>4, <1>5, <1>6 DEF Typed
<1>8. \A i \in 1..n : i \in 1..(n + 1)
  BY <1>1
<1>9. Remembered
  BY <1>1, <1>5, <1>8 DEF Remembered
<1>10. Answered' = Answered
  <2>1. \A i : i \in Answered' <=> i \in Answered
    BY <1>1, <1>4, <1>5, <1>6, <1>8, Zenon DEF Answered
  <2> QED BY <2>1, Zenon
<1>11. UNCHANGED <<files, log, net, refused>>
  BY DEF Type
<1>12. Kind
  BY <1>10, <1>11 DEF Kind, Quiet
<1>13. Typed'
  BY <1>5, <1>7, <1>11 DEF Typed
<1> QED BY <1>9, <1>12, <1>13

LEMMA MoveStep ==
  ASSUME Typed, NEW i \in DOMAIN requests, ReadMore(i) \/ Break(i)
  PROVE  Typed' /\ Remembered /\ Kind
<1>1. requests \in Seq(Requested) /\ \A j \in DOMAIN requests : requests[j] \in Requested
  BY ElementOfSeq, LenProperties DEF Typed
<1>2. requests[i].state = "reading"
  BY DEF ReadMore, Break
<1>3. /\ DOMAIN requests' = DOMAIN requests
      /\ requests' = [j \in DOMAIN requests |-> requests'[j]]
      /\ \A j \in DOMAIN requests : j # i => requests'[j] = requests[j]
      /\ /\ requests'[i] \in Requested
         /\ requests'[i].text = requests[i].text
         /\ requests'[i].from = requests[i].from
         /\ requests'[i].state # "answered"
  <2>1. CASE ReadMore(i)
    <3>1. PICK got \in (requests[i].got + 1)..Pieces :
            requests' = [requests EXCEPT ![i].got = got]
      BY <2>1 DEF ReadMore
    <3>2. requests[i].got \in 0..Pieces /\ got \in 0..Pieces
      BY <1>1, <3>1 DEF Requested, Pieces
    <3> QED BY <1>1, <1>2, <3>1, <3>2 DEF Requested
  <2>2. CASE Break(i)
    <3>1. requests' = [requests EXCEPT ![i].state = "broken"]
      BY <2>2 DEF Break
    <3> QED BY <1>1, <3>1 DEF Requested
  <2> QED BY <2>1, <2>2
<1>4. /\ requests' \in Seq(Requested)
      /\ \A j \in DOMAIN requests' : requests'[j].text.n = j
      /\ Remembered
      /\ Answered' = Answered
  <2>1. \A j \in DOMAIN requests :
            /\ requests'[j] \in Requested
            /\ requests'[j].text = requests[j].text
            /\ requests'[j].from = requests[j].from
            /\ requests'[j].state = "answered" <=> requests[j].state = "answered"
    BY <1>1, <1>2, <1>3
  <2> QED BY <1>3, <2>1, Moved
<1>5. UNCHANGED <<files, log, net, refused>>
  BY DEF ReadMore, Break
<1> QED BY <1>4, <1>5 DEF Typed, Kind, Quiet

(* The answer to the whole of a request.                                   *)
LEMMA AnswerIs ==
  ASSUME Typed, NEW i \in DOMAIN requests, requests[i].state = "reading",
         NEW got, got = Pieces,
         requests' = [requests EXCEPT ![i].state = "answered", ![i].got = got]
  PROVE  /\ requests' \in Seq(Requested)
         /\ \A j \in DOMAIN requests' : requests'[j].text.n = j
         /\ Remembered
         /\ i \notin Answered
         /\ Answered' = Answered \cup IF IsSend(requests[i].text) THEN {i} ELSE {}
<1>1. requests \in Seq(Requested) /\ \A j \in DOMAIN requests : requests[j] \in Requested
  BY ElementOfSeq, LenProperties DEF Typed
<1>2. DOMAIN requests' = DOMAIN requests
  OBVIOUS
<1>3. /\ requests'[i] = [requests[i] EXCEPT !.state = "answered", !.got = got]
      /\ \A j \in DOMAIN requests : j # i => requests'[j] = requests[j]
  OBVIOUS
<1>4. requests'[i] \in Requested /\ requests'[i].text = requests[i].text
      /\ requests'[i].from = requests[i].from /\ requests'[i].state = "answered"
  BY <1>1, <1>3 DEF Requested, Pieces
<1>5. \A j \in DOMAIN requests :
        /\ requests'[j] \in Requested
        /\ requests'[j].text = requests[j].text
        /\ requests'[j].from = requests[j].from
  BY <1>1, <1>3, <1>4
<1>6. requests' \in Seq(Requested)
  <2>1. DOMAIN requests = 1..Len(requests) /\ Len(requests) \in Nat
    BY <1>1, LenProperties
  <2>2. requests' = [j \in DOMAIN requests |-> requests'[j]]
    BY Zenon
  <2>3. requests' \in [1..Len(requests) -> Requested]
    BY <1>5, <2>1, <2>2
  <2> QED BY <2>1, <2>3, FunctionSeq, Zenon
<1>7. \A j \in DOMAIN requests' : requests'[j].text.n = j
  BY <1>2, <1>5 DEF Typed
<1>8. Remembered
  BY <1>2, <1>5 DEF Remembered
<1>9. i \notin Answered
  BY DEF Answered
<1>10. Answered' = Answered \cup IF IsSend(requests[i].text) THEN {i} ELSE {}
  <2>1. \A j : j \in Answered' <=>
               j \in DOMAIN requests /\ requests'[j].state = "answered" /\ IsSend(requests[j].text)
    BY <1>2, <1>5, Zenon DEF Answered
  <2>2. \A j : j \in Answered <=>
               j \in DOMAIN requests /\ requests[j].state = "answered" /\ IsSend(requests[j].text)
    BY Zenon DEF Answered
  <2>3. \A j : j \in Answered' <=> j \in Answered \/ (j = i /\ IsSend(requests[i].text))
    BY <1>3, <1>4, <2>1, <2>2, Zenon
  <2>4. CASE IsSend(requests[i].text)
    BY <2>3, <2>4
  <2>5. CASE ~IsSend(requests[i].text)
    BY <2>3, <2>5
  <2> QED BY <2>4, <2>5
<1> QED BY <1>6, <1>7, <1>8, <1>9, <1>10

LEMMA HandleStep ==
  ASSUME Typed, NEW i \in DOMAIN requests, Handle(i)
  PROVE  Typed' /\ Remembered /\ Kind
<1> DEFINE r == requests[i]
           t == Scanned(r.text, Pieces)
<1>1. r \in Requested
  BY ElementOfSeq, LenProperties DEF Typed
<1>2. r.from \in Clients /\ r.text \in KeptTexts
  BY <1>1 DEF Requested
<1>3. t \in KeptTexts
  BY <1>2, ScannedIs
<1>4. r.state = "reading" /\ refused' = refused
  BY DEF Handle
<1>5. \/ /\ IsSend(r.text)
         /\ Saved(r.from, "you", t)
         /\ requests' = [requests EXCEPT ![i].state = "answered", ![i].got = Pieces]
         /\ net' = net \/ net' = Sent(r.from, t)
      \/ /\ IsSend(r.text)
         /\ SavedInPart(r.from, "you", t)
         /\ net' = net
      \/ /\ ~IsSend(r.text)
         /\ requests' = [requests EXCEPT ![i].state = "answered", ![i].got = Pieces]
         /\ UNCHANGED <<files, log, net>>
  BY Zenon DEF Handle, IsWhole, SentOnTear
<1>6. i \notin Answered
  BY <1>4 DEF Answered
<1> HIDE DEF t
<1>7. "you" \in Whos
  BY DEF Whos
<1>8. CASE /\ IsSend(r.text)
           /\ Saved(r.from, "you", t)
           /\ requests' = [requests EXCEPT ![i].state = "answered", ![i].got = Pieces]
           /\ net' = net \/ net' = Sent(r.from, t)
  <2>1. Appending(r.from, "you", t, FALSE)
    BY <1>8, SavedIs
  <2>2. /\ requests' \in Seq(Requested)
        /\ \A j \in DOMAIN requests' : requests'[j].text.n = j
        /\ Remembered
        /\ Answered' = Answered \cup {i}
    BY <1>4, <1>8, AnswerIs
  <2>3. files' \in [Clients -> Seq(Lines)] /\ log' \in [Clients -> Seq(Appended)]
    BY <1>2, <1>3, <1>7, <2>1, AppendingTyped
  <2>4. net' \subseteq net \cup Sent(r.from, t)
    BY <1>8
  <2>5. OwnText(i, FALSE)
    BY <1>4, <1>6, <2>1, <2>2, <2>4 DEF OwnText, t
  <2>6. \A p \in net' : p.to \in Clients /\ p.text \in KeptTexts /\ p.sum = CRC32(p.text)
    <3>1. Cut(t) \in KeptTexts
      BY <1>3 DEF Cut, KeptTexts, MaxText
    <3>2. Friend(r.from) \in Clients
      BY <1>2, FriendIs
    <3>3. \A p \in net : p.to \in Clients /\ p.text \in KeptTexts /\ p.sum = CRC32(p.text)
      BY DEF Typed
    <3>4. \A p \in net' : p \in net \/ p = [to |-> Friend(r.from), text |-> Cut(t), sum |-> CRC32(Cut(t))]
      BY <2>4 DEF Sent
    <3> QED BY <3>1, <3>2, <3>3, <3>4
  <2> QED BY <2>2, <2>3, <2>5, <2>6 DEF Typed, Kind
<1>9. CASE /\ IsSend(r.text)
           /\ SavedInPart(r.from, "you", t)
           /\ net' = net
  <2>1. /\ Appending(r.from, "you", t, TRUE)
        /\ requests' \in Seq(Requested)
        /\ \A j \in DOMAIN requests' : requests'[j].text.n = j
        /\ Remembered
        /\ Answered' = Answered
    BY <1>2, <1>3, <1>7, <1>9, TornIs
  <2>2. files' \in [Clients -> Seq(Lines)] /\ log' \in [Clients -> Seq(Appended)]
    BY <1>2, <1>3, <1>7, <2>1, AppendingTyped
  <2>3. OwnText(i, TRUE)
    BY <1>4, <1>6, <1>9, <2>1 DEF OwnText, t
  <2> QED BY <1>9, <2>1, <2>2, <2>3 DEF Typed, Kind
<1>10. CASE /\ ~IsSend(r.text)
            /\ requests' = [requests EXCEPT ![i].state = "answered", ![i].got = Pieces]
            /\ UNCHANGED <<files, log, net>>
  <2>1. /\ requests' \in Seq(Requested)
        /\ \A j \in DOMAIN requests' : requests'[j].text.n = j
        /\ Remembered
        /\ Answered' = Answered
    BY <1>4, <1>10, AnswerIs
  <2> QED BY <1>4, <1>10, <2>1 DEF Typed, Kind, Quiet
<1> QED BY <1>5, <1>8, <1>9, <1>10

LEMMA LoseStep ==
  ASSUME Typed, NEW p \in net, Lose(p)
  PROVE  Typed' /\ Remembered /\ Kind
<1>1. UNCHANGED <<requests, files, log, refused>> /\ net' \subseteq net
  BY DEF Lose
<1>2. Remembered /\ Answered' = Answered
  BY <1>1, QuietRequests
<1> QED BY <1>1, <1>2 DEF Typed, Kind, Quiet

LEMMA ReceiveStep ==
  ASSUME Typed, NEW p \in net, Receive(p)
  PROVE  Typed' /\ Remembered /\ Kind
<1>1. p.to \in Clients /\ p.text \in KeptTexts /\ p.sum = CRC32(p.text)
  BY DEF Typed
<1>2. PICK t \in Arriving(p) :
        /\ net' = net \ {p}
        /\ \/ /\ ~Intact(p, t)
              /\ UNCHANGED <<requests, files, log, refused, tears>>
           \/ /\ Intact(p, t) /\ ~Fits(t)
              /\ refused' = refused \cup {t}
              /\ UNCHANGED <<requests, files, log, tears>>
           \/ /\ Intact(p, t) /\ Fits(t)
              /\ \/ Saved(p.to, "friend", t) /\ UNCHANGED <<requests, tears>>
                 \/ SavedInPart(p.to, "friend", t)
              /\ UNCHANGED refused
  BY Zenon DEF Receive
<1>3. Intact(p, t) => t = p.text
  <2>1. ASSUME CRC32(t) = CRC32(p.text) PROVE t = p.text
    <3>1. CRC32(t).crc = t /\ CRC32(p.text).crc = p.text
      BY DEF CRC32
    <3> QED BY <2>1, <3>1
  <2> QED BY <1>1, <2>1 DEF Intact
<1>4. "friend" \in Whos /\ net' \subseteq net
  BY <1>2 DEF Whos
<1>5. CASE UNCHANGED <<requests, files, log>> 
           /\ \A u \in refused' : u \in refused \/ (u \in KeptTexts /\ ~Fits(u))
  BY <1>4, <1>5, QuietRequests DEF Typed, Kind, Quiet
<1>6. CASE /\ Fits(p.text) /\ UNCHANGED <<requests, refused>>
           /\ Saved(p.to, "friend", p.text)
  <2>1. Appending(p.to, "friend", p.text, FALSE)
    BY <1>6, SavedIs
  <2>2. files' \in [Clients -> Seq(Lines)] /\ log' \in [Clients -> Seq(Appended)]
    BY <1>1, <1>4, <2>1, AppendingTyped
  <2>3. Remembered /\ Answered' = Answered
    BY <1>6, QuietRequests
  <2>4. FriendText(p, FALSE)
    BY <1>4, <1>6, <2>1, <2>3 DEF FriendText
  <2> QED BY <1>4, <1>6, <2>2, <2>3, <2>4 DEF Typed, Kind
<1>7. CASE /\ Fits(p.text) /\ UNCHANGED refused
           /\ SavedInPart(p.to, "friend", p.text)
  <2>1. /\ Appending(p.to, "friend", p.text, TRUE)
        /\ requests' \in Seq(Requested)
        /\ \A j \in DOMAIN requests' : requests'[j].text.n = j
        /\ Remembered
        /\ Answered' = Answered
    BY <1>1, <1>4, <1>7, TornIs
  <2>2. files' \in [Clients -> Seq(Lines)] /\ log' \in [Clients -> Seq(Appended)]
    BY <1>1, <1>4, <2>1, AppendingTyped
  <2>3. FriendText(p, TRUE)
    BY <1>4, <1>7, <2>1 DEF FriendText
  <2> QED BY <1>4, <2>1, <2>2, <2>3 DEF Typed, Kind
<1> QED BY <1>1, <1>2, <1>3, <1>5, <1>6, <1>7

LEMMA Steps ==
  ASSUME Typed, [Next]_vars
  PROVE  Typed' /\ Remembered /\ Kind
<1>1. CASE UNCHANGED vars
  <2>1. UNCHANGED <<requests, files, log, net, refused>>
    BY <1>1 DEF vars
  <2>2. Remembered /\ Answered' = Answered
    BY <2>1, QuietRequests
  <2> QED BY <2>1, <2>2 DEF Typed, Kind, Quiet
<1>2. CASE \E c \in Clients, t \in Texts : Type(c, t)
  BY <1>2, TypeStep
<1>3. CASE \E i \in DOMAIN requests : ReadMore(i) \/ Handle(i) \/ Break(i)
  BY <1>3, MoveStep, HandleStep
<1>4. CASE \E p \in net : Lose(p) \/ Receive(p)
  BY <1>4, LoseStep, ReceiveStep
<1> QED BY <1>1, <1>2, <1>3, <1>4 DEF Next

----------------------------------------------------------------------------
(* Where the texts of the histories and of the packets are from.           *)

(* Every text of a history is that of a request, as it is to be expected,  *)
(* and the ones of the sender itself are of its own requests.              *)
KnownTexts ==
  \A c \in Clients : \A i \in DOMAIN log[c] :
    LET e == log[c][i]
    IN  /\ e.text.n \in DOMAIN requests
        /\ e.text.chars = Expected(requests[e.text.n].text.chars)
        /\ e.who = "you" => requests[e.text.n].from = c

(* Every packet on its way is that of a text in its sender's history.      *)
NetFrom ==
  \A p \in net : \E e \in DOMAIN log[Friend(p.to)] :
    /\ log[Friend(p.to)][e].who = "you"
    /\ ~log[Friend(p.to)][e].torn
    /\ p.text = Cut(log[Friend(p.to)][e].text)

(* What has been appended, and where, if the history of c grew by e.       *)
Grown(c, e) ==
  /\ \A d \in Clients : \A i \in DOMAIN log[d] :
       i \in DOMAIN log'[d] /\ log'[d][i] = log[d][i]
  /\ \A d \in Clients : \A i \in DOMAIN log'[d] :
       \/ i \in DOMAIN log[d] /\ log'[d][i] = log[d][i]
       \/ d = c /\ i = Len(log[c]) + 1 /\ log'[d][i] = e
  /\ Len(log[c]) + 1 \in DOMAIN log'[c] /\ Len(log[c]) + 1 \notin DOMAIN log[c]
  /\ log'[c][Len(log[c]) + 1] = e

LEMMA GrownIs ==
  ASSUME Typed, NEW c \in Clients, NEW who \in Whos, NEW t \in KeptTexts,
         NEW torn \in BOOLEAN, Appending(c, who, t, torn)
  PROVE  Grown(c, [who |-> who, text |-> t, torn |-> torn])
<1> DEFINE e == [who |-> who, text |-> t, torn |-> torn]
           n == Len(log[c])
<1>1. e \in Appended
  BY DEF Appended
<1>2. log \in [Clients -> Seq(Appended)] /\ log' = [log EXCEPT ![c] = Append(@, e)]
  BY Zenon DEF Typed, Appending
<1> HIDE DEF e
<1>3. n \in Nat /\ DOMAIN log[c] = 1..n
  BY <1>2, LenProperties
<1>4. /\ log'[c] = Append(log[c], e)
      /\ \A d \in Clients : d # c => log'[d] = log[d]
  BY <1>2
<1>5. /\ log'[c] \in Seq(Appended) /\ Len(log'[c]) = n + 1 /\ log'[c][n + 1] = e
      /\ \A i \in 1..n : log'[c][i] = log[c][i]
  BY <1>1, <1>2, <1>4, AppendProperties
<1>6. DOMAIN log'[c] = 1..(n + 1)
  BY <1>5, LenProperties
<1> HIDE DEF n
<1>7. /\ \A i \in 1..n : i \in 1..(n + 1)
      /\ \A i \in 1..(n + 1) : i \in 1..n \/ i = n + 1
      /\ n + 1 \in 1..(n + 1) /\ n + 1 \notin 1..n
  BY <1>3
<1>8. \A d \in Clients : \A i \in DOMAIN log[d] : i \in DOMAIN log'[d] /\ log'[d][i] = log[d][i]
  BY <1>3, <1>4, <1>5, <1>6, <1>7
<1>9. \A d \in Clients : \A i \in DOMAIN log'[d] :
        \/ i \in DOMAIN log[d] /\ log'[d][i] = log[d][i]
        \/ d = c /\ i = n + 1 /\ log'[d][i] = e
  BY <1>3, <1>4, <1>5, <1>6, <1>7
<1> QED BY <1>3, <1>5, <1>6, <1>7, <1>8, <1>9, Zenon DEF Grown, e, n

(* A step that makes the histories grow is one of two kinds.               *)
LEMMA OwnIs ==
  ASSUME Typed, NEW i \in DOMAIN requests, NEW torn \in BOOLEAN, OwnText(i, torn)
  PROVE  /\ requests[i].from \in Clients
         /\ Scanned(requests[i].text, Pieces) \in KeptTexts
         /\ Scanned(requests[i].text, Pieces).n = i
         /\ Scanned(requests[i].text, Pieces).chars = Expected(requests[i].text.chars)
         /\ Grown(requests[i].from,
                  [who |-> "you", text |-> Scanned(requests[i].text, Pieces), torn |-> torn])
<1>1. requests[i] \in Requested /\ requests[i].text.n = i
  BY ElementOfSeq, LenProperties DEF Typed
<1>2. requests[i].from \in Clients /\ requests[i].text \in KeptTexts
  BY <1>1 DEF Requested
<1> DEFINE t == Scanned(requests[i].text, Pieces)
<1>3. t \in KeptTexts /\ t.n = i /\ t.chars = Expected(requests[i].text.chars)
  BY <1>1, <1>2, ScannedIs
<1>4. Appending(requests[i].from, "you", t, torn)
  BY DEF OwnText
<1>5. "you" \in Whos
  BY DEF Whos
<1> HIDE DEF t
<1>6. Grown(requests[i].from, [who |-> "you", text |-> t, torn |-> torn])
  BY <1>2, <1>3, <1>4, <1>5, GrownIs
<1> QED BY <1>2, <1>3, <1>6 DEF t

LEMMA FriendsIs ==
  ASSUME Typed, NEW p \in net, NEW torn \in BOOLEAN, FriendText(p, torn)
  PROVE  /\ p.to \in Clients /\ p.text \in KeptTexts
         /\ Grown(p.to, [who |-> "friend", text |-> p.text, torn |-> torn])
<1>1. p.to \in Clients /\ p.text \in KeptTexts
  BY DEF Typed
<1>2. Appending(p.to, "friend", p.text, torn) /\ "friend" \in Whos
  BY DEF FriendText, Whos
<1> QED BY <1>1, <1>2, GrownIs

LEMMA CutIs ==
  ASSUME NEW t \in KeptTexts
  PROVE  /\ Cut(t).n = t.n /\ Cut(t).chars = t.chars
         /\ Fits(Cut(t)) => Cut(t) = t /\ t.size < 464
         /\ ~Fits(t) => t.size >= 464
<1>1. t.size \in Int /\ t = [n |-> t.n, chars |-> t.chars, size |-> t.size, mentions |-> t.mentions]
  BY DEF KeptTexts
<1>2. Cut(t).n = t.n /\ Cut(t).chars = t.chars
  BY <1>1 DEF Cut
<1>3. \A k \in Int : SealedSize(k) <= MaxSealed <=> k < 464
  BY DEF SealedSize, MaxSealed
<1>4. ASSUME Fits(Cut(t)) PROVE Cut(t) = t /\ t.size < 464
  <2>1. CASE t.size > MaxText
    <3>1. Cut(t).size = 477
      BY <1>1, <2>1 DEF Cut, MaxText
    <3> QED BY <1>3, <1>4, <3>1 DEF Fits
  <2>2. CASE ~(t.size > MaxText)
    <3>1. Cut(t) = t
      BY <1>1, <2>2 DEF Cut
    <3> QED BY <1>1, <1>3, <1>4, <3>1 DEF Fits
  <2> QED BY <2>1, <2>2
<1>5. ~Fits(t) => t.size >= 464
  BY <1>1, <1>3 DEF Fits
<1> QED BY <1>2, <1>4, <1>5

LEMMA KnownStep ==
  ASSUME Typed, KnownTexts, NetFrom, Remembered, Kind
  PROVE  KnownTexts'
<1>1. ASSUME NEW c \in Clients, NEW i \in DOMAIN log[c], i \in DOMAIN log'[c],
             log'[c][i] = log[c][i]
      PROVE  LET e == log'[c][i]
             IN  /\ e.text.n \in DOMAIN requests'
                 /\ e.text.chars = Expected(requests'[e.text.n].text.chars)
                 /\ e.who = "you" => requests'[e.text.n].from = c
  <2> DEFINE e == log[c][i]
  <2>1. /\ e.text.n \in DOMAIN requests
        /\ e.text.chars = Expected(requests[e.text.n].text.chars)
        /\ e.who = "you" => requests[e.text.n].from = c
    BY DEF KnownTexts
  <2>2. /\ e.text.n \in DOMAIN requests'
        /\ requests'[e.text.n].text = requests[e.text.n].text
        /\ requests'[e.text.n].from = requests[e.text.n].from
    BY <2>1 DEF Remembered
  <2> QED BY <1>1, <2>1, <2>2
<1>2. CASE Quiet
  BY <1>1, <1>2 DEF KnownTexts, Quiet
<1>3. ASSUME NEW j \in DOMAIN requests, NEW torn \in BOOLEAN, OwnText(j, torn)
      PROVE  KnownTexts'
  <2> DEFINE t == Scanned(requests[j].text, Pieces)
             d == requests[j].from
  <2>1. /\ d \in Clients /\ t.n = j /\ t.chars = Expected(requests[j].text.chars)
        /\ Grown(d, [who |-> "you", text |-> t, torn |-> torn])
    BY <1>3, OwnIs
  <2>2. j \in DOMAIN requests' /\ requests'[j].text = requests[j].text /\ requests'[j].from = d
    BY DEF Remembered
  <2> HIDE DEF t, d
  <2>3. ASSUME NEW c \in Clients, NEW i \in DOMAIN log'[c]
        PROVE  LET e == log'[c][i]
               IN  /\ e.text.n \in DOMAIN requests'
                   /\ e.text.chars = Expected(requests'[e.text.n].text.chars)
                   /\ e.who = "you" => requests'[e.text.n].from = c
    <3>1. CASE i \in DOMAIN log[c] /\ log'[c][i] = log[c][i]
      BY <1>1, <3>1
    <3>2. CASE c = d /\ log'[c][i] = [who |-> "you", text |-> t, torn |-> torn]
      <4>1. log'[c][i].text = t
        BY <3>2
      <4> QED BY <2>1, <2>2, <3>2, <4>1
    <3> QED BY <2>1, <3>1, <3>2, Zenon DEF Grown
  <2> QED BY <2>3 DEF KnownTexts
<1>4. ASSUME NEW p \in net, NEW torn \in BOOLEAN, FriendText(p, torn)
      PROVE  KnownTexts'
  <2>1. p.to \in Clients /\ Grown(p.to, [who |-> "friend", text |-> p.text, torn |-> torn])
    BY <1>4, FriendsIs
  <2>2. PICK f \in DOMAIN log[Friend(p.to)] :
          p.text = Cut(log[Friend(p.to)][f].text)
    BY DEF NetFrom
  <2> DEFINE u == log[Friend(p.to)][f].text
  <2>3. Friend(p.to) \in Clients
    BY <2>1, FriendIs
  <2>4. u \in KeptTexts
    <3>1. log[Friend(p.to)] \in Seq(Appended)
      BY <2>3 DEF Typed
    <3>2. log[Friend(p.to)][f] \in Appended
      BY <3>1, ElementOfSeq, LenProperties
    <3> QED BY <3>2 DEF Appended
  <2>5. p.text.n = u.n /\ p.text.chars = u.chars
    BY <2>2, <2>4, CutIs
  <2>6. u.n \in DOMAIN requests /\ u.chars = Expected(requests[u.n].text.chars)
    BY <2>3 DEF KnownTexts
  <2>7. u.n \in DOMAIN requests' /\ requests'[u.n].text = requests[u.n].text
    BY <2>6 DEF Remembered
  <2> HIDE DEF u
  <2>8. ASSUME NEW c \in Clients, NEW i \in DOMAIN log'[c]
        PROVE  LET e == log'[c][i]
               IN  /\ e.text.n \in DOMAIN requests'
                   /\ e.text.chars = Expected(requests'[e.text.n].text.chars)
                   /\ e.who = "you" => requests'[e.text.n].from = c
    <3>1. CASE i \in DOMAIN log[c] /\ log'[c][i] = log[c][i]
      BY <1>1, <3>1
    <3>2. CASE log'[c][i] = [who |-> "friend", text |-> p.text, torn |-> torn]
      <4>1. log'[c][i].text = p.text /\ log'[c][i].who # "you"
        BY <3>2
      <4> QED BY <2>5, <2>6, <2>7, <4>1
    <3> QED BY <2>1, <3>1, <3>2, Zenon DEF Grown
  <2> QED BY <2>8 DEF KnownTexts
<1> QED BY <1>2, <1>3, <1>4 DEF Kind

LEMMA NetFromStep ==
  ASSUME Typed, NetFrom, Kind
  PROVE  NetFrom'
<1> DEFINE From(l, p) == /\ l.who = "you" /\ ~l.torn
                         /\ p.text = Cut(l.text)
<1>1. ASSUME NEW p \in net,
             \A d \in Clients : \A i \in DOMAIN log[d] :
                i \in DOMAIN log'[d] /\ log'[d][i] = log[d][i]
      PROVE  \E e \in DOMAIN log'[Friend(p.to)] : From(log'[Friend(p.to)][e], p)
  <2>1. PICK e \in DOMAIN log[Friend(p.to)] : From(log[Friend(p.to)][e], p)
    BY DEF NetFrom
  <2>2. Friend(p.to) \in Clients
    BY FriendIs DEF Typed
  <2> HIDE DEF From
  <2> QED BY <1>1, <2>1, <2>2
<1>2. CASE Quiet
  <2>1. \A p \in net' : p \in net
    BY <1>2 DEF Quiet
  <2> QED BY <1>2, <2>1 DEF Quiet, NetFrom
<1>3. ASSUME NEW j \in DOMAIN requests, NEW torn \in BOOLEAN, OwnText(j, torn)
      PROVE  NetFrom'
  <2> DEFINE t == Scanned(requests[j].text, Pieces)
             d == requests[j].from
             n == Len(log[d]) + 1
  <2>1. d \in Clients /\ Grown(d, [who |-> "you", text |-> t, torn |-> torn])
    BY <1>3, OwnIs
  <2>2. net' \subseteq net \cup IF torn THEN {} ELSE Sent(d, t)
    BY <1>3 DEF OwnText
  <2>3. Friend(Friend(d)) = d
    BY <2>1, FriendIs
  <2> HIDE DEF t, d
  <2>4. ASSUME NEW p \in net'
        PROVE  \E e \in DOMAIN log'[Friend(p.to)] : From(log'[Friend(p.to)][e], p)
    <3>1. CASE p \in net
      BY <1>1, <2>1, <3>1, Zenon DEF Grown
    <3>2. CASE p \notin net
      <4>1. ~torn /\ p = [to |-> Friend(d), text |-> Cut(t), sum |-> CRC32(Cut(t))]
        BY <2>2, <3>2 DEF Sent
      <4>2. p.to = Friend(d) /\ p.text = Cut(t)
        BY <4>1
      <4>3. n \in DOMAIN log'[d] /\ log'[d][n] = [who |-> "you", text |-> t, torn |-> torn]
        BY <2>1, Zenon DEF Grown
      <4> HIDE DEF n
      <4>4. From(log'[d][n], p)
        BY <4>1, <4>2, <4>3
      <4> HIDE DEF From
      <4> QED BY <2>3, <4>2, <4>3, <4>4
    <3> QED BY <3>1, <3>2
  <2> QED BY <2>4 DEF NetFrom
<1>4. ASSUME NEW q \in net, NEW torn \in BOOLEAN, FriendText(q, torn)
      PROVE  NetFrom'
  <2>1. q.to \in Clients /\ Grown(q.to, [who |-> "friend", text |-> q.text, torn |-> torn])
    BY <1>4, FriendsIs
  <2>2. \A p \in net' : p \in net
    BY <1>4 DEF FriendText
  <2>3. \A p \in net' : \E e \in DOMAIN log'[Friend(p.to)] : From(log'[Friend(p.to)][e], p)
    <3> HIDE DEF From
    <3> QED BY <1>1, <2>1, <2>2, Zenon DEF Grown
  <2> QED BY <2>3 DEF NetFrom
<1> QED BY <1>2, <1>3, <1>4 DEF Kind

LEMMA MadeOwn ==
  ASSUME NEW x, NEW y, NEW z
  PROVE  [[who |-> x, text |-> y, torn |-> z] EXCEPT !.who = "you", !.torn = FALSE]
           = [who |-> "you", text |-> y, torn |-> FALSE]
<1> DEFINE r == [[who |-> x, text |-> y, torn |-> z] EXCEPT !.who = "you", !.torn = FALSE]
<1>1. r \in [who : {x, "you"}, text : {y}, torn : {z, FALSE}]
  OBVIOUS
<1>2. r.who = "you" /\ r.text = y /\ r.torn = FALSE
  OBVIOUS
<1> HIDE DEF r
<1>3. r = [who |-> r.who, text |-> r.text, torn |-> r.torn]
  BY <1>1
<1> QED BY <1>2, <1>3, Zenon DEF r

LEMMA FriendKnowsStep ==
  ASSUME Typed, NetFrom, FriendKnowsNoMore, Kind
  PROVE  FriendKnowsNoMore'
<1> DEFINE Has(l, d) == \E e \in DOMAIN log'[d] :
                          log'[d][e] = [l EXCEPT !.who = "you", !.torn = FALSE]
<1>1. ASSUME NEW c \in Clients, NEW i \in DOMAIN log[c], log[c][i].who = "friend",
             \A d \in Clients : \A k \in DOMAIN log[d] :
                k \in DOMAIN log'[d] /\ log'[d][k] = log[d][k]
      PROVE  Has(log[c][i], Friend(c))
  <2>1. PICK e \in DOMAIN log[Friend(c)] :
          log[Friend(c)][e] = [log[c][i] EXCEPT !.who = "you", !.torn = FALSE]
    BY <1>1, Zenon DEF FriendKnowsNoMore
  <2>2. Friend(c) \in Clients
    BY FriendIs
  <2>3. e \in DOMAIN log'[Friend(c)] /\ log'[Friend(c)][e] = log[Friend(c)][e]
    BY <1>1, <2>2
  <2> QED BY <2>1, <2>3, Zenon
<1>2. CASE Quiet
  <2>1. log' = log
    BY <1>2 DEF Quiet
  <2> QED BY <2>1, Zenon DEF FriendKnowsNoMore
<1>3. ASSUME NEW j \in DOMAIN requests, NEW torn \in BOOLEAN, OwnText(j, torn)
      PROVE  FriendKnowsNoMore'
  <2> DEFINE d == requests[j].from
             e == [who |-> "you", text |-> Scanned(requests[j].text, Pieces), torn |-> torn]
  <2>1. d \in Clients /\ Grown(d, e)
    BY <1>3, OwnIs
  <2>2. e.who # "friend"
    OBVIOUS
  <2> HIDE DEF d, e
  <2>3. ASSUME NEW c \in Clients, NEW i \in DOMAIN log'[c], log'[c][i].who = "friend"
        PROVE  Has(log'[c][i], Friend(c))
    <3>1. i \in DOMAIN log[c] /\ log'[c][i] = log[c][i]
      BY <2>1, <2>2, <2>3, Zenon DEF Grown
    <3>2. Has(log[c][i], Friend(c))
      <4> HIDE DEF Has
      <4> QED BY <1>1, <2>1, <2>3, <3>1, Zenon DEF Grown
    <3> QED BY <3>1, <3>2, Zenon
  <2> QED BY <2>3, Zenon DEF FriendKnowsNoMore
<1>4. ASSUME NEW p \in net, NEW torn \in BOOLEAN, FriendText(p, torn)
      PROVE  FriendKnowsNoMore'
  <2> DEFINE e == [who |-> "friend", text |-> p.text, torn |-> torn]
             f == Friend(p.to)
  <2>1. p.to \in Clients /\ p.text \in KeptTexts /\ Grown(p.to, e)
    BY <1>4, FriendsIs
  <2>2. f \in Clients /\ f # p.to
    BY <2>1, FriendIs
  <2>3. PICK k \in DOMAIN log[f] : /\ log[f][k].who = "you" /\ ~log[f][k].torn
                                   /\ p.text = Cut(log[f][k].text)
    BY DEF NetFrom
  <2>4. log[f][k] \in Appended
    <3>1. log[f] \in Seq(Appended)
      BY <2>2 DEF Typed
    <3> QED BY <3>1, ElementOfSeq, LenProperties
  <2>5. log[f][k].text \in KeptTexts
    BY <2>4 DEF Appended
  <2>6. p.text = log[f][k].text
    BY <1>4, <2>3, <2>5, CutIs DEF FriendText
  <2>7. log[f][k] = [e EXCEPT !.who = "you", !.torn = FALSE]
    <3> DEFINE l == log[f][k]
    <3>1. l = [who |-> l.who, text |-> l.text, torn |-> l.torn] /\ l.torn \in BOOLEAN
      BY <2>4 DEF Appended
    <3> HIDE DEF l
    <3>2. l.torn = FALSE
      BY <2>3, <3>1 DEF l
    <3>3. l.who = "you" /\ l.text = p.text
      BY <2>3, <2>6 DEF l
    <3>4. l = [who |-> "you", text |-> p.text, torn |-> FALSE]
      BY <3>1, <3>2, <3>3
    <3>5. [e EXCEPT !.who = "you", !.torn = FALSE] = [who |-> "you", text |-> p.text, torn |-> FALSE]
      BY MadeOwn
    <3> QED BY <3>4, <3>5 DEF l
  <2>8. Has(e, f)
    <3>1. k \in DOMAIN log'[f] /\ log'[f][k] = log[f][k]
      BY <2>1, <2>2, Zenon DEF Grown
    <3> QED BY <2>7, <3>1, Zenon
  <2> HIDE DEF e
  <2>9. ASSUME NEW c \in Clients, NEW i \in DOMAIN log'[c], log'[c][i].who = "friend"
        PROVE  Has(log'[c][i], Friend(c))
    <3> HIDE DEF Has
    <3>1. CASE i \in DOMAIN log[c] /\ log'[c][i] = log[c][i]
      BY <1>1, <2>1, <2>9, <3>1, Zenon DEF Grown
    <3>2. CASE c = p.to /\ log'[c][i] = e
      BY <2>8, <3>2
    <3> QED BY <2>1, <3>1, <3>2, Zenon DEF Grown
  <2> QED BY <2>9, Zenon DEF FriendKnowsNoMore
<1> QED BY <1>2, <1>3, <1>4 DEF Kind

LEMMA RefusedStep ==
  ASSUME Typed, NetFrom, RefusedAreLong, Kind
  PROVE  RefusedAreLong'
<1>1. CASE Quiet
  <2>1. \A t \in refused' : t.size >= 464
    BY <1>1, CutIs DEF Quiet, RefusedAreLong
  <2>2. log' = log
    BY <1>1 DEF Quiet
  <2> QED BY <2>1, <2>2, Zenon DEF RefusedAreLong
<1>2. ASSUME NEW c, NEW e, Grown(c, e), refused' = refused,
             e.who = "friend" => e.text.size < 464
      PROVE  RefusedAreLong'
  <2>1. ASSUME NEW d \in Clients, NEW i \in DOMAIN log'[d], log'[d][i].who = "friend"
        PROVE  log'[d][i].text.size < 464
    <3>1. CASE i \in DOMAIN log[d] /\ log'[d][i] = log[d][i]
      BY <2>1, <3>1 DEF RefusedAreLong
    <3>2. CASE log'[d][i] = e
      BY <1>2, <2>1, <3>2
    <3> QED BY <1>2, <3>1, <3>2, Zenon DEF Grown
  <2>2. \A t \in refused' : t.size >= 464
    BY <1>2 DEF RefusedAreLong
  <2> QED BY <2>1, <2>2 DEF RefusedAreLong
<1>3. ASSUME NEW j \in DOMAIN requests, NEW torn \in BOOLEAN, OwnText(j, torn)
      PROVE  RefusedAreLong'
  <2> DEFINE e == [who |-> "you", text |-> Scanned(requests[j].text, Pieces), torn |-> torn]
  <2>1. Grown(requests[j].from, e) /\ refused' = refused
    BY <1>3, OwnIs DEF OwnText
  <2>2. e.who # "friend"
    OBVIOUS
  <2> HIDE DEF e
  <2> QED BY <1>2, <2>1, <2>2, Zenon
<1>4. ASSUME NEW p \in net, NEW torn \in BOOLEAN, FriendText(p, torn)
      PROVE  RefusedAreLong'
  <2> DEFINE e == [who |-> "friend", text |-> p.text, torn |-> torn]
  <2>1. Grown(p.to, e) /\ refused' = refused /\ p.to \in Clients
    BY <1>4, FriendsIs DEF FriendText
  <2>2. PICK k \in DOMAIN log[Friend(p.to)] : p.text = Cut(log[Friend(p.to)][k].text)
    BY DEF NetFrom
  <2>3. log[Friend(p.to)][k].text \in KeptTexts
    <3>1. log[Friend(p.to)] \in Seq(Appended)
      BY <2>1, FriendIs DEF Typed
    <3>2. log[Friend(p.to)][k] \in Appended
      BY <3>1, ElementOfSeq, LenProperties
    <3> QED BY <3>2 DEF Appended
  <2>4. e.text.size < 464
    <3>1. Fits(p.text)
      BY <1>4 DEF FriendText
    <3>2. e.text = p.text
      OBVIOUS
    <3> QED BY <2>2, <2>3, <3>1, <3>2, CutIs
  <2> HIDE DEF e
  <2> QED BY <1>2, <2>1, <2>4, Zenon
<1> QED BY <1>1, <1>3, <1>4 DEF Kind

(* The whole appends of the i-th text to the history of its sender.        *)
Saves(i) ==
  {e \in DOMAIN log[requests[i].from] :
     /\ log[requests[i].from][e].who = "you"
     /\ ~log[requests[i].from][e].torn
     /\ log[requests[i].from][e].text.n = i}

SavedOnce ==
  \A i \in DOMAIN requests :
    IF i \in Answered THEN \E e \in Saves(i) : Saves(i) = {e} ELSE Saves(i) = {}

LEMMA SavedStep ==
  ASSUME Typed, Typed', KnownTexts, SavedOnce, Remembered, Kind
  PROVE  SavedOnce'
<1>0. \A i \in Answered : i \in DOMAIN requests
  BY DEF Answered
<1>1. ASSUME NEW i \in DOMAIN requests', i \notin DOMAIN requests, UNCHANGED log
      PROVE  Saves(i)' = {}
  <2> DEFINE c == requests'[i].from
  <2>1. c \in Clients
    <3>1. requests'[i] \in Requested
      <4>1. requests' \in Seq(Requested)
        BY DEF Typed
      <4> HIDE DEF Requested
      <4> QED BY <4>1, ElementOfSeq, LenProperties
    <3> QED BY <3>1 DEF Requested
  <2>2. \A e \in DOMAIN log[c] : log[c][e].text.n # i
    BY <1>1, <2>1 DEF KnownTexts
  <2> QED BY <1>1, <2>2 DEF Saves
<1>2. CASE Quiet
  <2>1. log' = log /\ Answered' = Answered
    BY <1>2 DEF Quiet
  <2>2. ASSUME NEW i \in DOMAIN requests' 
        PROVE  IF i \in Answered' THEN \E e \in Saves(i)' : Saves(i)' = {e} ELSE Saves(i)' = {}
    <3>1. CASE i \in DOMAIN requests
      <4>1. requests'[i].from = requests[i].from
        BY <3>1 DEF Remembered
      <4>2. Saves(i)' = Saves(i)
        BY <2>1, <4>1, Zenon DEF Saves
      <4> QED BY <2>1, <3>1, <4>2 DEF SavedOnce
    <3>2. CASE i \notin DOMAIN requests
      BY <1>0, <1>1, <2>1, <3>2
    <3> QED BY <3>1, <3>2
  <2> QED BY <2>2, Zenon DEF SavedOnce
<1>3. ASSUME NEW c \in Clients, NEW e, Grown(c, e),
             NEW J, J \subseteq DOMAIN requests, J \cap Answered = {},
             Answered' = Answered \cup J,
             \A i : i \in J => /\ e.who = "you" /\ ~e.torn /\ e.text.n = i
                               /\ requests[i].from = c,
             \A i : i \notin J => e.who # "you" \/ e.torn \/ e.text.n # i
      PROVE  SavedOnce'
  <2> DEFINE m == Len(log[c]) + 1
  <2>1. m \in DOMAIN log'[c] /\ m \notin DOMAIN log[c] /\ log'[c][m] = e
    BY <1>3, Zenon DEF Grown
  <2> HIDE DEF m
  <2>2. ASSUME NEW i \in DOMAIN requests
        PROVE  IF i \in Answered' THEN \E k \in Saves(i)' : Saves(i)' = {k} ELSE Saves(i)' = {}
    <3> DEFINE d == requests[i].from
    <3>1. requests'[i].from = d /\ d \in Clients
      <4>1. requests[i] \in Requested
        BY ElementOfSeq, LenProperties DEF Typed
      <4> QED BY <4>1 DEF Remembered, Requested
    <3>2. \A k : k \in Saves(i)' <=> k \in DOMAIN log'[d] /\ log'[d][k].who = "you"
                                  /\ ~log'[d][k].torn /\ log'[d][k].text.n = i
      BY <3>1, Zenon DEF Saves
    <3>3. \A k : k \in Saves(i) <=> k \in DOMAIN log[d] /\ log[d][k].who = "you"
                                  /\ ~log[d][k].torn /\ log[d][k].text.n = i
      BY Zenon DEF Saves
    <3> HIDE DEF d
    <3>8. \A k \in DOMAIN log[d] : k \in DOMAIN log'[d] /\ log'[d][k] = log[d][k]
      BY <1>3, <3>1, Zenon DEF Grown
    <3>9. \A k \in DOMAIN log'[d] :
            \/ k \in DOMAIN log[d] /\ log'[d][k] = log[d][k]
            \/ d = c /\ k = Len(log[c]) + 1 /\ log'[d][k] = e
      BY <1>3, <3>1, Zenon DEF Grown
    <3>4. \A k : k \in Saves(i) => k \in Saves(i)'
      BY <3>2, <3>3, <3>8
    <3>5. \A k : k \in Saves(i)' => k \in Saves(i) \/ (d = c /\ k = m /\ log'[d][k] = e)
      BY <3>2, <3>3, <3>9 DEF m
    <3>6. CASE i \in J
      <4>1. Saves(i) = {} /\ i \in Answered'
        BY <1>3, <3>6 DEF SavedOnce
      <4>2. m \in Saves(i)'
        BY <1>3, <2>1, <3>2, <3>6, Zenon DEF d
      <4>3. Saves(i)' = {m}
        BY <3>5, <4>1, <4>2
      <4> QED BY <4>1, <4>2, <4>3
    <3>7. CASE i \notin J
      <4>1. \A k : k \in Saves(i)' => k \in Saves(i)
        BY <1>3, <3>2, <3>5, <3>7, Zenon
      <4>2. Saves(i)' = Saves(i)
        BY <3>4, <4>1, Zenon
      <4>3. i \in Answered' <=> i \in Answered
        BY <1>3, <3>7
      <4> QED BY <4>2, <4>3 DEF SavedOnce
    <3> QED BY <3>6, <3>7
  <2>3. ASSUME NEW i \in DOMAIN requests', i \notin DOMAIN requests
        PROVE  i \notin Answered' /\ Saves(i)' = {}
    <3> DEFINE d == requests'[i].from
    <3>1. d \in Clients
      <4>1. requests'[i] \in Requested
        <5>1. requests' \in Seq(Requested)
          BY DEF Typed
        <5> HIDE DEF Requested
        <5> QED BY <5>1, ElementOfSeq, LenProperties
      <4> QED BY <4>1 DEF Requested
    <3>2. \A k \in DOMAIN log[d] : log[d][k].text.n # i
      BY <2>3, <3>1 DEF KnownTexts
    <3>3. i \notin J /\ i \notin Answered'
      BY <1>0, <1>3, <2>3
    <3>5. \A k \in DOMAIN log'[d] : (k \in DOMAIN log[d] /\ log'[d][k] = log[d][k]) \/ log'[d][k] = e
      BY <1>3, <3>1, Zenon DEF Grown
    <3>6. e.who # "you" \/ e.torn \/ e.text.n # i
      BY <1>3, <3>3
    <3> HIDE DEF d
    <3>4. \A k \in DOMAIN log'[d] : log'[d][k].who # "you" \/ log'[d][k].torn \/ log'[d][k].text.n # i
      BY <3>2, <3>5, <3>6
    <3> USE DEF d
    <3> QED BY <3>3, <3>4, Zenon DEF Saves
  <2> QED BY <2>2, <2>3, Zenon DEF SavedOnce
<1>4. ASSUME NEW j \in DOMAIN requests, NEW torn \in BOOLEAN, OwnText(j, torn)
      PROVE  SavedOnce'
  <2> DEFINE e == [who |-> "you", text |-> Scanned(requests[j].text, Pieces), torn |-> torn]
             J == IF torn THEN {} ELSE {j}
  <2>1. requests[j].from \in Clients /\ Grown(requests[j].from, e) /\ e.text.n = j
    BY <1>4, OwnIs
  <2>2. J \subseteq DOMAIN requests /\ J \cap Answered = {} /\ Answered' = Answered \cup J
    BY <1>4 DEF OwnText
  <2>3. e.who = "you" /\ (torn => e.torn) /\ (~torn => ~e.torn)
    OBVIOUS
  <2>4. /\ \A i : i \in J => ~torn /\ i = j
        /\ \A i : i \notin J => torn \/ i # j
    OBVIOUS
  <2> HIDE DEF e, J
  <2>5. \A i : i \in J => /\ e.who = "you" /\ ~e.torn /\ e.text.n = i
                         /\ requests[i].from = requests[j].from
    BY <2>1, <2>3, <2>4
  <2>6. \A i : i \notin J => e.who # "you" \/ e.torn \/ e.text.n # i
    BY <2>1, <2>3, <2>4
  <2> QED BY <1>3, <2>1, <2>2, <2>5, <2>6, Zenon
<1>5. ASSUME NEW p \in net, NEW torn \in BOOLEAN, FriendText(p, torn)
      PROVE  SavedOnce'
  <2> DEFINE e == [who |-> "friend", text |-> p.text, torn |-> torn]
  <2>1. p.to \in Clients /\ Grown(p.to, e) /\ Answered' = Answered \cup {}
    BY <1>5, FriendsIs DEF FriendText
  <2>2. e.who # "you"
    OBVIOUS
  <2> HIDE DEF e
  <2>3. {} \subseteq DOMAIN requests /\ {} \cap Answered = {} /\ \A i : i \notin {}
    OBVIOUS
  <2> QED BY <1>3, <2>1, <2>2, <2>3, Zenon
<1> QED BY <1>2, <1>4, <1>5 DEF Kind

----------------------------------------------------------------------------
(* The choice of the route.                                                *)

(* If one of the routes is found, Route is the first of those.             *)
LEMMA RouteIs ==
  ASSUME NEW found, NEW k \in 1..Len(Routes), Routes[k] \in found, Len(Routes) \in Nat
  PROVE  /\ Route(found) \in 1..Len(Routes)
         /\ Routes[Route(found)] \in found
         /\ \A j \in 1..Len(Routes) : Routes[j] \in found => Route(found) <= j
<1> DEFINE I == {i \in 1..Len(Routes) : Routes[i] \in found}
<1>1. k \in I /\ I \in SUBSET Nat
  OBVIOUS
<1>2. PICK p \in I : \A q \in I : p <= q
  BY <1>1, LeastNatural
<1>3. Route(found) = IF I # {} THEN Min(I) ELSE 0
  BY Zenon DEF Route, SelectInSeq
<1>4. Min(I) \in I /\ \A q \in I : Min(I) <= q
  <2> HIDE DEF I
  <2> QED BY <1>2 DEF Min
<1>5. Route(found) \in I /\ \A q \in I : Route(found) <= q
  <2> HIDE DEF I
  <2> QED BY <1>1, <1>3, <1>4
<1> HIDE DEF Route
<1>6. \A i : i \in I <=> i \in 1..Len(Routes) /\ Routes[i] \in found
  OBVIOUS
<1> HIDE DEF I
<1> QED BY <1>5, <1>6

LEMMA SendIsRoute ==
  /\ Len(Routes) \in Nat
  /\ \E k \in 1..Len(Routes) : Routes[k] = "POST /send/"
<1> DEFINE T == {FileRoutes[i] : i \in 1..12} \cup {FriendRoutes[i] : i \in 1..16}
<1>1. Len(FileRoutes) = 12 /\ Len(FriendRoutes) = 16 /\ FriendRoutes[11] = "POST /send/"
  BY DEF FileRoutes, FriendRoutes
<1>2. FileRoutes \in Seq(T) /\ FriendRoutes \in Seq(T)
  <2>1. FileRoutes \in [1..12 -> T] /\ FriendRoutes \in [1..16 -> T]
    BY DEF FileRoutes, FriendRoutes
  <2> QED BY <2>1, FunctionSeq
<1> HIDE DEF T
<1>3. /\ Len(Routes) = Len(FileRoutes) + Len(FriendRoutes)
      /\ \A i \in 1..(Len(FileRoutes) + Len(FriendRoutes)) :
           Routes[i] = IF i <= Len(FileRoutes) THEN FileRoutes[i]
                       ELSE FriendRoutes[i - Len(FileRoutes)]
  BY <1>2, ConcatProperties, Zenon DEF Routes
<1> HIDE DEF Routes
<1>4. /\ 23 \in 1..(Len(FileRoutes) + Len(FriendRoutes)) /\ ~(23 <= Len(FileRoutes))
      /\ 23 - Len(FileRoutes) = 11 /\ Len(FileRoutes) + Len(FriendRoutes) = 28
  <2>1. Len(FileRoutes) = 12 /\ Len(FriendRoutes) = 16
    BY <1>1, Zenon
  <2> QED BY <2>1
<1>5. Routes[23] = FriendRoutes[11] /\ Len(Routes) = 28
  BY <1>3, <1>4, Zenon
<1>6. 23 \in 1..28 /\ 28 \in Nat
  OBVIOUS
<1> QED BY <1>1, <1>5, <1>6, Zenon

(* A request to send a text is taken for one unless its text mentions a    *)
(* route that is looked for before.                                        *)
LEMMA SendIs ==
  ASSUME NEW t
  PROVE  IsSend(t) <=> \A m \in t.mentions :
                         m \notin {Routes[k] : k \in 1..(Route({"POST /send/"}) - 1)}
<1> DEFINE P == "POST /send/"
           a == Route({P})
           b == Route({P} \cup t.mentions)
<1>1. Len(Routes) \in Nat
  BY SendIsRoute
<1>2. PICK k \in 1..Len(Routes) : Routes[k] = P
  BY SendIsRoute
<1>3. /\ a \in 1..Len(Routes) /\ Routes[a] = P
      /\ \A j \in 1..Len(Routes) : Routes[j] = P => a <= j
  <2>1. Routes[k] \in {P}
    BY <1>2
  <2>2. /\ a \in 1..Len(Routes) /\ Routes[a] \in {P}
        /\ \A j \in 1..Len(Routes) : Routes[j] \in {P} => a <= j
    BY <1>1, <2>1, RouteIs
  <2> QED BY <2>2
<1>4. /\ b \in 1..Len(Routes) /\ (Routes[b] = P \/ Routes[b] \in t.mentions)
      /\ \A j \in 1..Len(Routes) : Routes[j] = P \/ Routes[j] \in t.mentions => b <= j
  <2> DEFINE F == {P} \cup t.mentions
  <2>1. Routes[k] \in F
    BY <1>2
  <2>2. \A x : x \in F <=> x = P \/ x \in t.mentions
    OBVIOUS
  <2> HIDE DEF F
  <2>3. /\ Route(F) \in 1..Len(Routes) /\ Routes[Route(F)] \in F
        /\ \A j \in 1..Len(Routes) : Routes[j] \in F => Route(F) <= j
    BY <1>1, <2>1, RouteIs
  <2> QED BY <2>2, <2>3 DEF F
<1>5. IsSend(t) <=> Routes[b] = P
  BY Zenon DEF IsSend
<1>6. PICK N \in Nat : N = Len(Routes)
  BY <1>1
<1>7. a \in 1..N /\ b \in 1..N
  BY <1>3, <1>4, <1>6
<1> HIDE DEF a, b
<1>8. ASSUME Routes[b] = P
      PROVE  \A m \in t.mentions : m \notin {Routes[j] : j \in 1..(a - 1)}
  <2>1. ASSUME NEW j \in 1..(a - 1), Routes[j] \in t.mentions PROVE FALSE
    <3>1. j \in 1..N /\ ~(a <= j)
      BY <1>7
    <3>2. b <= j /\ a <= b
      BY <1>3, <1>4, <1>6, <1>8, <2>1, <3>1
    <3> QED BY <1>7, <3>1, <3>2
  <2> QED BY <2>1
<1>9. ASSUME \A m \in t.mentions : m \notin {Routes[j] : j \in 1..(a - 1)}
      PROVE  Routes[b] = P
  <2>1. SUFFICES ASSUME Routes[b] # P PROVE FALSE
    OBVIOUS
  <2>2. Routes[b] \in t.mentions /\ b <= a /\ b # a
    BY <1>3, <1>4, <2>1
  <2>3. b \in 1..(a - 1)
    BY <1>7, <2>2
  <2> QED BY <1>9, <2>2, <2>3
<1> QED BY <1>5, <1>8, <1>9 DEF a

LEMMA AnswerMeans ==
  ASSUME SavedOnce
  PROVE  AnswerMeansSaved
<1> DEFINE Sends(i) == \A m \in requests[i].text.mentions :
                         m \notin {Routes[k] : k \in 1..(Route({"POST /send/"}) - 1)}
<1>1. ASSUME NEW i \in DOMAIN requests
      PROVE  IF requests[i].state = "answered" /\ Sends(i)
               THEN \E e \in Saves(i) : Saves(i) = {e} ELSE Saves(i) = {}
  <2>1. Sends(i) <=> IsSend(requests[i].text)
    BY SendIs
  <2>2. i \in Answered <=> requests[i].state = "answered" /\ IsSend(requests[i].text)
    BY DEF Answered
  <2> HIDE DEF Sends
  <2> QED BY <2>1, <2>2, Zenon DEF SavedOnce
<1> QED BY <1>1, Zenon DEF AnswerMeansSaved, Saves

----------------------------------------------------------------------------
(* What the readers of messages.txt make of one more append.               *)

RowOf == [sender : {"none"} \cup Whos, text : KeptTexts]
ReadingOf == [within : BOOLEAN, sender : {"none"} \cup Whos, text : KeptTexts, rows : Seq(RowOf)]

(* What one line does to the fold.                                         *)
Reads(a, line) ==
  /\ ReadLine(a, line) \in ReadingOf
  /\ line.tag # "end" => ReadLine(a, line).rows = a.rows
  /\ a.within /\ line.tag = "message" =>
       /\ ReadLine(a, line).within /\ ReadLine(a, line).text = line.text
       /\ ReadLine(a, line).sender = a.sender
  /\ a.within /\ line.tag \notin {"message", "end"} => ReadLine(a, line) = a
  /\ ~a.within /\ line.tag \in Whos =>
       ReadLine(a, line).within /\ ReadLine(a, line).sender = line.tag
  /\ a.within /\ line.tag = "end" =>
       /\ ~ReadLine(a, line).within
       /\ ReadLine(a, line).rows = Append(a.rows, [sender |-> a.sender, text |-> a.text])

LEMMA ReadLineIs ==
  ASSUME NEW a \in ReadingOf, NEW line \in Lines
  PROVE  Reads(a, line)
<1>1. /\ a.within \in BOOLEAN /\ a.sender \in {"none"} \cup Whos
      /\ a.text \in KeptTexts /\ a.rows \in Seq(RowOf)
      /\ line.tag \in Whos \cup {"message", "stamp", "end", "part"} /\ line.text \in KeptTexts
  BY DEF ReadingOf, Lines
<1>2. CASE ~a.within /\ line.tag \in Whos
  <2>1. ReadLine(a, line) = [a EXCEPT !.within = TRUE, !.sender = line.tag, !.text = NoText]
    BY <1>2, Zenon DEF ReadLine, Whos
  <2>2. line.tag # "end" /\ line.tag # "message"
    BY <1>2 DEF Whos
  <2> QED BY <1>1, <1>2, <2>1, <2>2, NoTextTyped DEF ReadingOf, Reads
<1>3. CASE a.within /\ line.tag = "end"
  <2>1. Row(a) = [sender |-> a.sender, text |-> a.text] /\ Row(a) \in RowOf
    BY <1>1 DEF Row, RowOf
  <2>2. ReadLine(a, line) = [a EXCEPT !.within = FALSE, !.rows = Append(@, Row(a))]
    BY <1>3, Zenon DEF ReadLine
  <2>3. Append(a.rows, Row(a)) \in Seq(RowOf)
    BY <1>1, <2>1, AppendProperties
  <2> QED BY <1>1, <1>3, <2>1, <2>2, <2>3 DEF ReadingOf, Reads
<1>4. CASE a.within /\ line.tag = "message"
  <2>1. line.tag # "end"
    BY <1>4
  <2>2. ReadLine(a, line) = [a EXCEPT !.text = line.text]
    BY <1>4, <2>1, Zenon DEF ReadLine
  <2> QED BY <1>1, <1>4, <2>1, <2>2 DEF ReadingOf, Reads
<1>5. CASE /\ ~(~a.within /\ line.tag \in Whos)
           /\ ~(a.within /\ line.tag = "end") /\ ~(a.within /\ line.tag = "message")
  <2>1. ReadLine(a, line) = a
    BY <1>5, Zenon DEF ReadLine, Whos
  <2> QED BY <1>1, <1>5, <2>1 DEF Reads
<1> QED BY <1>2, <1>3, <1>4, <1>5

(* A whole append closes the entry that it opens, or the one that was      *)
(* open, and there is one row more with its text.                          *)
LEMMA EntryRead ==
  ASSUME NEW f \in Seq(Lines), NEW who \in Whos, NEW t \in KeptTexts,
         NEW a \in ReadingOf, a = FoldLeft(ReadLine, Shut, f)
  PROVE  LET b == FoldLeft(ReadLine, Shut, f \o Entry(who, t))
         IN  /\ b \in ReadingOf /\ ~b.within
             /\ b.rows = Append(a.rows, [sender |-> IF a.within THEN a.sender ELSE who, text |-> t])
<1> DEFINE e == Entry(who, t)
<1>1. /\ e \in Seq(Lines) /\ Len(e) = 4
      /\ e[1] = Line(who) /\ e[2] = [tag |-> "message", text |-> t]
      /\ e[3] = Line("stamp") /\ e[4] = Line("end")
  BY EntryTyped
<1> HIDE DEF e
<1>2. /\ e[1] \in Lines /\ e[2] \in Lines /\ e[3] \in Lines /\ e[4] \in Lines
  <2>1. \A i \in 1..4 : e[i] \in Lines
    BY <1>1, ElementOfSeq
  <2>2. 1 \in 1..4 /\ 2 \in 1..4 /\ 3 \in 1..4 /\ 4 \in 1..4
    OBVIOUS
  <2> QED BY <2>1, <2>2
<1>3. /\ e[1].tag = who /\ e[2].tag = "message" /\ e[2].text = t
      /\ e[3].tag = "stamp" /\ e[4].tag = "end"
  BY <1>1 DEF Line
<1>4. PICK h : GoesOn(a, e, h) /\ FoldLeft(ReadLine, Shut, f \o e) = h[4]
  BY <1>1, ReadingOn
<1>5. /\ h[0] = a /\ h[1] = ReadLine(a, e[1]) /\ h[2] = ReadLine(h[1], e[2])
      /\ h[3] = ReadLine(h[2], e[3]) /\ h[4] = ReadLine(h[3], e[4])
  <2>1. /\ 1 \in 1..4 /\ 2 \in 1..4 /\ 3 \in 1..4 /\ 4 \in 1..4
        /\ 1 - 1 = 0 /\ 2 - 1 = 1 /\ 3 - 1 = 2 /\ 4 - 1 = 3
    OBVIOUS
  <2>2. h[0] = a /\ \A n \in 1..4 : h[n] = ReadLine(h[n - 1], e[n])
    BY <1>1, <1>4, Zenon DEF GoesOn
  <2> QED BY <2>1, <2>2
<1>6. who \in Whos /\ who # "end" /\ who # "message" /\ "stamp" \notin {"message", "end"}
  BY DEF Whos
<1> HIDE DEF ReadingOf, Lines
<1>7. /\ h[1] \in ReadingOf /\ h[1].within /\ h[1].rows = a.rows
      /\ h[1].sender = IF a.within THEN a.sender ELSE who
  <2>1. Reads(a, e[1])
    BY <1>2, ReadLineIs
  <2>2. CASE a.within
    BY <1>3, <1>5, <1>6, <2>1, <2>2 DEF Reads
  <2>3. CASE ~a.within
    BY <1>3, <1>5, <1>6, <2>1, <2>3 DEF Reads
  <2> QED BY <2>2, <2>3
<1>8. /\ h[2] \in ReadingOf /\ h[2].within /\ h[2].rows = a.rows
      /\ h[2].sender = h[1].sender /\ h[2].text = t
  <2>1. Reads(h[1], e[2])
    BY <1>2, <1>7, ReadLineIs
  <2> QED BY <1>3, <1>5, <1>7, <2>1 DEF Reads
<1>9. h[3] = h[2]
  <2>1. Reads(h[2], e[3])
    BY <1>2, <1>8, ReadLineIs
  <2> QED BY <1>3, <1>5, <1>6, <1>8, <2>1 DEF Reads
<1>10. /\ h[4] \in ReadingOf /\ ~h[4].within
       /\ h[4].rows = Append(a.rows, [sender |-> h[1].sender, text |-> t])
  <2>1. Reads(h[3], e[4])
    BY <1>2, <1>8, <1>9, ReadLineIs
  <2> QED BY <1>3, <1>5, <1>8, <1>9, <2>1 DEF Reads
<1> QED BY <1>4, <1>7, <1>10 DEF e

(* Lines of which none ends an entry leave the rows as they are.           *)
LEMMA PartRead ==
  ASSUME NEW f \in Seq(Lines), NEW u \in Seq(Lines), \A i \in 1..Len(u) : u[i].tag # "end",
         NEW a \in ReadingOf, a = FoldLeft(ReadLine, Shut, f)
  PROVE  LET b == FoldLeft(ReadLine, Shut, f \o u)
         IN  b \in ReadingOf /\ b.rows = a.rows
<1> DEFINE M == Len(u)
<1>1. M \in Nat /\ \A i \in 1..M : u[i] \in Lines
  BY LenProperties, ElementOfSeq
<1>2. PICK h : GoesOn(a, u, h) /\ FoldLeft(ReadLine, Shut, f \o u) = h[M]
  BY ReadingOn
<1> DEFINE S == {n \in Nat : n <= M => h[n] \in ReadingOf /\ h[n].rows = a.rows}
<1>3. 0 \in S
  <2>1. h[0] = a
    BY <1>2 DEF GoesOn
  <2> QED BY <2>1
<1>4. ASSUME NEW n \in Nat, n \in S PROVE n + 1 \in S
  <2>1. ASSUME NEW m \in 1..M, m = n + 1 PROVE h[m] \in ReadingOf /\ h[m].rows = a.rows
    <3>1. m - 1 = n /\ n <= M
      BY <1>1, <2>1
    <3>2. h[n] \in ReadingOf /\ h[n].rows = a.rows
      BY <1>4, <3>1
    <3>3. h[m] = ReadLine(h[n], u[m])
      BY <1>2, <3>1 DEF GoesOn
    <3>4. u[m] \in Lines /\ u[m].tag # "end"
      BY <1>1
    <3>5. Reads(h[n], u[m])
      BY <3>2, <3>4, ReadLineIs
    <3> QED BY <3>2, <3>3, <3>4, <3>5 DEF Reads
  <2>2. n + 1 <= M => n + 1 \in 1..M
    BY <1>1
  <2> QED BY <2>1, <2>2
<1>5. M \in S
  <2> HIDE DEF S
  <2> QED BY <1>1, <1>3, <1>4, EveryNatural
<1> QED BY <1>1, <1>2, <1>5

(* The list of friends shows the text of a whole append.                   *)
LEMMA EntryPreview ==
  ASSUME NEW f \in Seq(Lines), NEW who \in Whos, NEW t \in KeptTexts
  PROVE  Preview(f \o Entry(who, t)) = t
<1> DEFINE N == Len(f)
           e == Entry(who, t)
           r == f \o e
           I == {i \in 1..Len(r) : r[i].tag = "message"}
<1>1. /\ e \in Seq(Lines) /\ Len(e) = 4
      /\ e[1] = Line(who) /\ e[2] = [tag |-> "message", text |-> t]
      /\ e[3] = Line("stamp") /\ e[4] = Line("end")
  BY EntryTyped
<1>2. N \in Nat
  BY LenProperties
<1> HIDE DEF e
<1>3. /\ r \in Seq(Lines) /\ Len(r) = N + 4
      /\ \A i \in 1..(N + 4) : r[i] = IF i <= N THEN f[i] ELSE e[i - N]
  <2>1. /\ r \in Seq(Lines) /\ Len(r) = Len(f) + Len(e)
        /\ \A i \in 1..(Len(f) + Len(e)) : r[i] = IF i <= Len(f) THEN f[i] ELSE e[i - Len(f)]
    BY <1>1, ConcatProperties
  <2> QED BY <1>1, <2>1
<1> HIDE DEF r
<1>4. PICK m \in Nat : m = N + 2
  BY <1>2
<1>5. m \in 1..(N + 4) /\ r[m] = [tag |-> "message", text |-> t] /\ m # 0
  <2>1. m \in 1..(N + 4) /\ ~(m <= N) /\ m - N = 2 /\ m # 0
    BY <1>2, <1>4
  <2>2. r[m] = e[2]
    BY <1>3, <2>1
  <2> QED BY <1>1, <2>1, <2>2
<1>6. ASSUME NEW i \in 1..(N + 4), i > m PROVE r[i].tag # "message"
  <2>1. ~(i <= N) /\ i - N \in {3, 4}
    BY <1>2, <1>4, <1>6
  <2>2. r[i] \in {Line("stamp"), Line("end")}
    BY <1>1, <1>3, <2>1
  <2> QED BY <2>2 DEF Line
<1>7. m \in I /\ I \in SUBSET (1..m)
  <2>1. m \in I
    BY <1>3, <1>5
  <2>2. ASSUME NEW i \in 1..(N + 4), r[i].tag = "message" PROVE i \in 1..m
    BY <1>2, <1>4, <1>6, <2>2
  <2> QED BY <1>3, <2>1, <2>2
<1>8. SelectLastInSeq(r, LAMBDA line : line.tag = "message") = IF I # {} THEN Max(I) ELSE 0
  BY Zenon DEF SelectLastInSeq
<1>9. Max(I) = m
  <2> HIDE DEF I
  <2> QED BY <1>7, GreatestOf
<1>10. SelectLastInSeq(r, LAMBDA line : line.tag = "message") = m
  <2> HIDE DEF I
  <2> QED BY <1>7, <1>8, <1>9, Zenon
<1>11. Preview(r) = r[m].text
  BY <1>5, <1>10, Zenon DEF Preview
<1> QED BY <1>5, <1>11 DEF r, e

----------------------------------------------------------------------------
(* The appends that the chat shows.                                        *)

(* The appends of a history that neither were torn nor follow one that was.*)
CleanOf(h) == {i \in DOMAIN h : ~h[i].torn /\ (i > 1 => ~h[i - 1].torn)}

IsShown(rows, j, e) == rows[j].text = e.text /\ rows[j].sender = e.who

(* The j-th row shows the i-th append, and the rows before it those before.*)
ShownAt(h, rows, i, j) ==
  /\ j \in DOMAIN rows /\ IsShown(rows, j, h[i])
  /\ \A k \in CleanOf(h) : k < i => \E l \in 1..(j - 1) : IsShown(rows, l, h[k])

InOrder(h, rows) == \A i \in CleanOf(h) : \E j \in 1..i : ShownAt(h, rows, i, j)

LEMMA CleanGrows ==
  ASSUME NEW h \in Seq(Appended), NEW e \in Appended
  PROVE  /\ Len(h) \in Nat /\ DOMAIN h = 1..Len(h) /\ DOMAIN Append(h, e) = 1..(Len(h) + 1)
         /\ CleanOf(h) \subseteq 1..Len(h)
         /\ CleanOf(Append(h, e)) \subseteq 1..(Len(h) + 1)
         /\ \A i \in 1..Len(h) : /\ Append(h, e)[i] = h[i]
                                 /\ i \in CleanOf(Append(h, e)) <=> i \in CleanOf(h)
         /\ Append(h, e)[Len(h) + 1] = e
         /\ Len(h) + 1 \in CleanOf(Append(h, e)) =>
              ~e.torn /\ (h # <<>> => ~Last(h).torn)
<1> DEFINE n == Len(h)
           g == Append(h, e)
<1>1. n \in Nat /\ DOMAIN h = 1..n
  BY LenProperties
<1>2. g \in Seq(Appended) /\ Len(g) = n + 1 /\ g[n + 1] = e /\ \A i \in 1..n : g[i] = h[i]
  BY AppendProperties
<1> HIDE DEF g
<1>3. DOMAIN g = 1..(n + 1)
  BY <1>2, LenProperties
<1>4. CleanOf(h) \subseteq 1..n /\ CleanOf(g) \subseteq 1..(n + 1)
  BY <1>1, <1>3 DEF CleanOf
<1>5. ASSUME NEW i \in 1..n PROVE i \in CleanOf(g) <=> i \in CleanOf(h)
  <2>1. i \in 1..(n + 1) /\ (i > 1 => i - 1 \in 1..n)
    BY <1>1
  <2>2. g[i] = h[i] /\ (i > 1 => g[i - 1] = h[i - 1])
    BY <1>2, <2>1
  <2>3. i \in CleanOf(g) <=> ~g[i].torn /\ (i > 1 => ~g[i - 1].torn)
    BY <1>3, <2>1 DEF CleanOf
  <2>4. i \in CleanOf(h) <=> ~h[i].torn /\ (i > 1 => ~h[i - 1].torn)
    BY <1>1 DEF CleanOf
  <2> HIDE DEF n
  <2> QED BY <2>2, <2>3, <2>4
<1>6. ASSUME n + 1 \in CleanOf(g) PROVE ~e.torn /\ (h # <<>> => ~Last(h).torn)
  <2>1. ~g[n + 1].torn /\ (n + 1 > 1 => ~g[n + 1 - 1].torn)
    BY <1>6 DEF CleanOf
  <2>2. ASSUME h # <<>> PROVE ~Last(h).torn
    <3>1. n # 0
      BY <2>2, EmptySeq
    <3>2. n + 1 > 1 /\ n + 1 - 1 = n /\ n \in 1..n
      BY <1>1, <3>1
    <3>3. g[n] = h[n] /\ ~g[n].torn
      BY <1>2, <2>1, <3>2
    <3> QED BY <3>3 DEF Last
  <2> QED BY <1>2, <2>1, <2>2
<1> QED BY <1>1, <1>2, <1>3, <1>4, <1>5, <1>6 DEF g

(* An append that is torn takes nothing from the rows.                     *)
LEMMA InOrderTorn ==
  ASSUME NEW h \in Seq(Appended), NEW e \in Appended, e.torn, NEW rows, InOrder(h, rows)
  PROVE  InOrder(Append(h, e), rows)
<1> DEFINE n == Len(h)
           g == Append(h, e)
<1>1. /\ n \in Nat /\ CleanOf(h) \subseteq 1..n /\ CleanOf(g) \subseteq 1..(n + 1)
      /\ \A i \in 1..n : g[i] = h[i] /\ (i \in CleanOf(g) <=> i \in CleanOf(h))
      /\ n + 1 \in CleanOf(g) => ~e.torn
  BY CleanGrows
<1> HIDE DEF g, n
<1>2. CleanOf(g) = CleanOf(h)
  <2>1. \A i \in 1..(n + 1) : i \in 1..n \/ i = n + 1
    BY <1>1
  <2> QED BY <1>1, <2>1
<1>3. ASSUME NEW i \in CleanOf(g), NEW j \in 1..i, ShownAt(h, rows, i, j)
      PROVE  ShownAt(g, rows, i, j)
  <2>1. \A k \in CleanOf(g) : g[k] = h[k]
    BY <1>1, <1>2
  <2> QED BY <1>2, <1>3, <2>1 DEF ShownAt
<1> QED BY <1>2, <1>3 DEF InOrder, g

(* One row more takes nothing from the others.                             *)
LEMMA InOrderMore ==
  ASSUME NEW h \in Seq(Appended), NEW rows \in Seq(RowOf), NEW row \in RowOf,
         InOrder(h, rows)
  PROVE  InOrder(h, Append(rows, row))
<1> DEFINE m == Len(rows)
           more == Append(rows, row)
<1>1. m \in Nat /\ DOMAIN rows = 1..m
  BY LenProperties
<1>2. more \in Seq(RowOf) /\ Len(more) = m + 1 /\ \A j \in 1..m : more[j] = rows[j]
  BY AppendProperties
<1>3. DOMAIN more = 1..(m + 1)
  BY <1>2, LenProperties
<1> HIDE DEF more, m
<1>4. ASSUME NEW i \in CleanOf(h), NEW j \in 1..i, ShownAt(h, rows, i, j)
      PROVE  ShownAt(h, more, i, j)
  <2>1. j \in 1..m /\ IsShown(rows, j, h[i])
    BY <1>1, <1>4 DEF ShownAt
  <2>2. j \in 1..(m + 1) /\ \A l \in 1..(j - 1) : l \in 1..m
    BY <1>1, <2>1
  <2>3. \A k : \A l \in 1..m : IsShown(rows, l, h[k]) => IsShown(more, l, h[k])
    BY <1>2 DEF IsShown
  <2>4. \A k \in CleanOf(h) : k < i => \E l \in 1..(j - 1) : IsShown(rows, l, h[k])
    BY <1>4 DEF ShownAt
  <2>5. \A k \in CleanOf(h) : k < i => \E l \in 1..(j - 1) : IsShown(more, l, h[k])
    BY <2>2, <2>3, <2>4
  <2>6. IsShown(more, j, h[i])
    BY <2>1, <2>3
  <2> QED BY <1>3, <2>2, <2>5, <2>6, Zenon DEF ShownAt
<1> QED BY <1>4 DEF InOrder, more

(* A whole append gets a row of its own behind the others, unless what it  *)
(* follows was torn.                                                       *)
LEMMA InOrderWhole ==
  ASSUME NEW h \in Seq(Appended), NEW e \in Appended,
         NEW rows \in Seq(RowOf), NEW row \in RowOf, Len(rows) <= Len(h),
         InOrder(h, rows),
         (h # <<>> => ~Last(h).torn) => row.text = e.text /\ row.sender = e.who
  PROVE  InOrder(Append(h, e), Append(rows, row))
<1> DEFINE n == Len(h)
           g == Append(h, e)
           m == Len(rows)
           more == Append(rows, row)
<1>1. /\ n \in Nat /\ CleanOf(h) \subseteq 1..n /\ CleanOf(g) \subseteq 1..(n + 1)
      /\ \A i \in 1..n : g[i] = h[i] /\ (i \in CleanOf(g) <=> i \in CleanOf(h))
      /\ g[n + 1] = e
      /\ n + 1 \in CleanOf(g) => row.text = e.text /\ row.sender = e.who
  BY CleanGrows
<1>2. m \in Nat /\ m <= n /\ DOMAIN rows = 1..m
  BY LenProperties
<1>3. more[m + 1] = row /\ more \in Seq(RowOf) /\ Len(more) = m + 1
      /\ \A j \in 1..m : more[j] = rows[j]
  BY AppendProperties
<1>4. DOMAIN more = 1..(m + 1)
  BY <1>3, LenProperties
<1>5. InOrder(h, more)
  BY InOrderMore
<1> HIDE DEF g, n, more, m
<1>6. ASSUME NEW i \in CleanOf(g), i \in 1..n
      PROVE  \E j \in 1..i : ShownAt(g, more, i, j)
  <2>1. i \in CleanOf(h)
    BY <1>1, <1>6
  <2>2. PICK j \in 1..i : ShownAt(h, more, i, j)
    BY <1>5, <2>1 DEF InOrder
  <2>3. ASSUME NEW k \in CleanOf(g), k < i PROVE k \in CleanOf(h) /\ g[k] = h[k]
    <3>1. k \in 1..n
      BY <1>1, <1>6, <2>3
    <3> QED BY <1>1, <3>1
  <2>4. g[i] = h[i]
    BY <1>1, <1>6
  <2>5. ShownAt(g, more, i, j)
    BY <2>2, <2>3, <2>4 DEF ShownAt
  <2> QED BY <2>5
<1>7. ASSUME n + 1 \in CleanOf(g) PROVE \E j \in 1..(n + 1) : ShownAt(g, more, n + 1, j)
  <2>1. PICK j \in 1..(n + 1) : j = m + 1
    BY <1>1, <1>2
  <2>2. j \in DOMAIN more /\ IsShown(more, j, g[n + 1])
    BY <1>1, <1>2, <1>3, <1>4, <1>7, <2>1 DEF IsShown
  <2>3. ASSUME NEW k \in CleanOf(g), k < n + 1
        PROVE  \E l \in 1..(j - 1) : IsShown(more, l, g[k])
    <3>1. k \in 1..n
      BY <1>1, <2>3
    <3>2. k \in CleanOf(h) /\ g[k] = h[k]
      BY <1>1, <3>1
    <3>3. PICK l \in 1..k : ShownAt(h, rows, k, l)
      BY <3>2 DEF InOrder
    <3>4. l \in 1..m /\ IsShown(rows, l, h[k])
      BY <1>2, <3>3 DEF ShownAt
    <3>5. l \in 1..(j - 1)
      BY <1>2, <2>1, <3>4
    <3>6. IsShown(more, l, g[k])
      BY <1>3, <3>2, <3>4 DEF IsShown
    <3> QED BY <3>5, <3>6
  <2> QED BY <2>2, <2>3 DEF ShownAt
<1>8. \A i \in 1..(n + 1) : i \in 1..n \/ i = n + 1
  BY <1>1
<1>9. \A i \in CleanOf(g) : \E j \in 1..i : ShownAt(g, more, i, j)
  BY <1>1, <1>6, <1>7, <1>8
<1> QED BY <1>9 DEF InOrder, g, more

(* What the readers have made of the file of c so far.                     *)
Reading(c) == FoldLeft(ReadLine, Shut, files[c])

(* No more rows than appends; an entry is open only behind an append that  *)
(* was torn; the appends are shown in order; and behind one that was not   *)
(* torn both readers show its text last.                                   *)
Shown(h, a, preview) ==
  /\ a \in ReadingOf
  /\ Len(a.rows) + (IF a.within THEN 1 ELSE 0) <= Len(h)
  /\ a.within => h # <<>> /\ Last(h).torn
  /\ InOrder(h, a.rows)
  /\ h # <<>> /\ ~Last(h).torn => /\ a.rows # <<>> /\ Last(a.rows).text = Last(h).text
                                  /\ preview = Last(h).text

AllShown == \A c \in Clients : Shown(log[c], Reading(c), Preview(files[c]))

LEMMA LastOfAppend ==
  ASSUME NEW S, NEW q \in Seq(S), NEW x \in S
  PROVE  Last(Append(q, x)) = x /\ Append(q, x) # <<>> /\ Len(Append(q, x)) = Len(q) + 1
         /\ Append(q, x) \in Seq(S) /\ Len(q) \in Nat
BY AppendProperties, LenProperties DEF Last

LEMMA ShownTorn ==
  ASSUME NEW h \in Seq(Appended), NEW f \in Seq(Lines), NEW who \in Whos, NEW t \in KeptTexts,
         Shown(h, FoldLeft(ReadLine, Shut, f), Preview(f)), NEW lines \in Torn(who, t)
  PROVE  Shown(Append(h, [who |-> who, text |-> t, torn |-> TRUE]),
               FoldLeft(ReadLine, Shut, f \o lines), Preview(f \o lines))
<1> DEFINE a == FoldLeft(ReadLine, Shut, f)
           b == FoldLeft(ReadLine, Shut, f \o lines)
           e == [who |-> who, text |-> t, torn |-> TRUE]
<1>1. e \in Appended /\ e.torn
  BY DEF Appended
<1>2. lines \in Seq(Lines) /\ \A i \in 1..Len(lines) : lines[i].tag # "end"
  BY TornTyped
<1>3. a \in ReadingOf /\ InOrder(h, a.rows) /\ Len(a.rows) + (IF a.within THEN 1 ELSE 0) <= Len(h)
  BY DEF Shown
<1>4. b \in ReadingOf /\ b.rows = a.rows
  BY <1>2, <1>3, PartRead
<1> HIDE DEF a, b, e
<1>5. /\ Last(Append(h, e)) = e /\ Append(h, e) # <<>>
      /\ Len(Append(h, e)) = Len(h) + 1 /\ Len(h) \in Nat
  BY <1>1, LastOfAppend
<1>6. InOrder(Append(h, e), b.rows)
  BY <1>1, <1>3, <1>4, InOrderTorn
<1>7. Len(b.rows) + (IF b.within THEN 1 ELSE 0) <= Len(Append(h, e))
  <2>1. Len(b.rows) \in Nat
    <3>1. b.rows \in Seq(RowOf)
      BY <1>4 DEF ReadingOf
    <3> QED BY <3>1, LenProperties
  <2>2. Len(b.rows) <= Len(h)
    <3>1. CASE a.within
      BY <1>3, <1>4, <1>5, <2>1, <3>1
    <3>2. CASE ~a.within
      BY <1>3, <1>4, <1>5, <2>1, <3>2
    <3> QED BY <3>1, <3>2
  <2>3. CASE b.within
    BY <1>5, <2>1, <2>2, <2>3
  <2>4. CASE ~b.within
    BY <1>5, <2>1, <2>2, <2>4
  <2> QED BY <2>3, <2>4
<1>8. Shown(Append(h, e), b, Preview(f \o lines))
  BY <1>1, <1>4, <1>5, <1>6, <1>7, Zenon DEF Shown
<1> QED BY <1>8 DEF b, e

LEMMA ShownWhole ==
  ASSUME NEW h \in Seq(Appended), NEW f \in Seq(Lines), NEW who \in Whos, NEW t \in KeptTexts,
         Shown(h, FoldLeft(ReadLine, Shut, f), Preview(f))
  PROVE  Shown(Append(h, [who |-> who, text |-> t, torn |-> FALSE]),
               FoldLeft(ReadLine, Shut, f \o Entry(who, t)), Preview(f \o Entry(who, t)))
<1> DEFINE a == FoldLeft(ReadLine, Shut, f)
           b == FoldLeft(ReadLine, Shut, f \o Entry(who, t))
           e == [who |-> who, text |-> t, torn |-> FALSE]
           row == [sender |-> IF a.within THEN a.sender ELSE who, text |-> t]
<1>1. e \in Appended /\ ~e.torn /\ e.text = t /\ e.who = who
  BY DEF Appended
<1>2. /\ a \in ReadingOf /\ InOrder(h, a.rows)
      /\ Len(a.rows) + (IF a.within THEN 1 ELSE 0) <= Len(h)
      /\ a.within => h # <<>> /\ Last(h).torn
  BY DEF Shown
<1>3. b \in ReadingOf /\ ~b.within /\ b.rows = Append(a.rows, row)
  <2> HIDE DEF ReadingOf
  <2> QED BY <1>2, EntryRead
<1>4. a.rows \in Seq(RowOf) /\ row \in RowOf
  BY <1>2 DEF ReadingOf, RowOf
<1>5. Preview(f \o Entry(who, t)) = t
  BY EntryPreview
<1>6. (h # <<>> => ~Last(h).torn) => row.text = t /\ row.sender = who
  BY <1>2
<1>9. row.text = t
  OBVIOUS
<1> HIDE DEF a, b, e, row
<1>7. /\ Last(Append(h, e)) = e /\ Append(h, e) # <<>>
      /\ Len(Append(h, e)) = Len(h) + 1 /\ Len(h) \in Nat
  BY <1>1, LastOfAppend
<1>8. /\ Last(b.rows) = row /\ b.rows # <<>>
      /\ Len(b.rows) = Len(a.rows) + 1 /\ Len(a.rows) \in Nat
  BY <1>3, <1>4, LastOfAppend
<1>10. Len(a.rows) <= Len(h)
  <2>1. CASE a.within
    BY <1>2, <1>7, <1>8, <2>1
  <2>2. CASE ~a.within
    BY <1>2, <1>7, <1>8, <2>2
  <2> QED BY <2>1, <2>2
<1>11. InOrder(Append(h, e), b.rows)
  BY <1>1, <1>2, <1>3, <1>4, <1>6, <1>10, InOrderWhole
<1>12. Len(b.rows) + (IF b.within THEN 1 ELSE 0) <= Len(Append(h, e))
  BY <1>3, <1>7, <1>8, <1>10
<1>13. Shown(Append(h, e), b, Preview(f \o Entry(who, t)))
  BY <1>1, <1>3, <1>5, <1>7, <1>8, <1>9, <1>11, <1>12, Zenon DEF Shown
<1> QED BY <1>13 DEF b, e

LEMMA ShownStep ==
  ASSUME Typed, AllShown, Kind
  PROVE  AllShown'
<1>1. CASE UNCHANGED <<files, log>>
  BY <1>1 DEF AllShown, Reading
<1>2. ASSUME NEW c \in Clients, NEW who \in Whos, NEW t \in KeptTexts, NEW torn \in BOOLEAN,
             Appending(c, who, t, torn)
      PROVE  AllShown'
  <2> DEFINE e == [who |-> who, text |-> t, torn |-> torn]
  <2>1. log \in [Clients -> Seq(Appended)] /\ files \in [Clients -> Seq(Lines)]
    BY DEF Typed
  <2>2. PICK lines \in IF torn THEN Torn(who, t) ELSE {Entry(who, t)} :
          files' = [files EXCEPT ![c] = @ \o lines]
    BY <1>2, Zenon DEF Appending
  <2>3. log' = [log EXCEPT ![c] = Append(@, e)]
    BY <1>2, Zenon DEF Appending
  <2>4. Shown(log[c], FoldLeft(ReadLine, Shut, files[c]), Preview(files[c]))
    BY Zenon DEF AllShown, Reading
  <2>5. log[c] \in Seq(Appended) /\ files[c] \in Seq(Lines)
    BY <2>1
  <2>6. Shown(Append(log[c], e), FoldLeft(ReadLine, Shut, files[c] \o lines),
              Preview(files[c] \o lines))
    <3>1. CASE torn
      <4>1. lines \in Torn(who, t) /\ torn = TRUE
        BY <2>2, <3>1
      <4> QED BY <2>4, <2>5, <4>1, ShownTorn, Zenon
    <3>2. CASE ~torn
      <4>1. lines = Entry(who, t) /\ torn = FALSE
        BY <2>2, <3>2
      <4> QED BY <2>4, <2>5, <4>1, ShownWhole, Zenon
    <3> QED BY <3>1, <3>2
  <2>7. log'[c] = Append(log[c], e) /\ files'[c] = files[c] \o lines
    BY <2>1, <2>2, <2>3
  <2>8. Shown(log'[c], FoldLeft(ReadLine, Shut, files'[c]), Preview(files'[c]))
    BY <2>6, <2>7, Zenon
  <2>9. \A d \in Clients : d # c => log'[d] = log[d] /\ files'[d] = files[d]
    BY <2>1, <2>2, <2>3
  <2>10. ASSUME NEW d \in Clients
         PROVE  Shown(log'[d], FoldLeft(ReadLine, Shut, files'[d]), Preview(files'[d]))
    <3>1. CASE d = c
      BY <2>8, <3>1, Zenon
    <3>2. CASE d # c
      <4>1. Shown(log[d], FoldLeft(ReadLine, Shut, files[d]), Preview(files[d]))
        BY Zenon DEF AllShown, Reading
      <4> QED BY <2>9, <3>2, <4>1, Zenon
    <3> QED BY <3>1, <3>2
  <2> QED BY <2>10, Zenon DEF AllShown, Reading
<1>3. ASSUME NEW j \in DOMAIN requests, NEW torn \in BOOLEAN, OwnText(j, torn)
      PROVE  AllShown'
  <2>1. requests[j].from \in Clients /\ Scanned(requests[j].text, Pieces) \in KeptTexts
    BY <1>3, OwnIs
  <2>2. Appending(requests[j].from, "you", Scanned(requests[j].text, Pieces), torn)
    BY <1>3 DEF OwnText
  <2>3. "you" \in Whos
    BY DEF Whos
  <2> QED BY <1>2, <2>1, <2>2, <2>3
<1>4. ASSUME NEW p \in net, NEW torn \in BOOLEAN, FriendText(p, torn)
      PROVE  AllShown'
  <2>1. p.to \in Clients /\ p.text \in KeptTexts
    BY <1>4, FriendsIs
  <2>2. Appending(p.to, "friend", p.text, torn) /\ "friend" \in Whos
    BY <1>4 DEF FriendText, Whos
  <2> QED BY <1>2, <2>1, <2>2
<1> QED BY <1>1, <1>3, <1>4 DEF Kind, Quiet

(* The rows of the chat are those of the entries that were closed, and     *)
(* perhaps one more for an entry that was not.                             *)
LEMMA TearCosts ==
  ASSUME Typed, AllShown
  PROVE  TearCostsOne
<1>1. ASSUME NEW c \in Clients
      PROVE  LET rows == Rows(files[c])
                 h == log[c]
             IN  /\ Len(rows) <= Len(h)
                 /\ InOrder(h, rows)
                 /\ h # <<>> /\ ~Last(h).torn => Preview(files[c]) = Last(rows).text
  <2> DEFINE a == FoldLeft(ReadLine, Shut, files[c])
             h == log[c]
  <2>1. Shown(h, a, Preview(files[c]))
    BY Zenon DEF AllShown, Reading
  <2>2. h \in Seq(Appended)
    BY DEF Typed
  <2>3. Rows(files[c]) = IF a.within THEN Append(a.rows, Row(a)) ELSE a.rows
    BY Zenon DEF Rows
  <2> HIDE DEF a, h
  <2>4. /\ a.rows \in Seq(RowOf) /\ Row(a) \in RowOf
    BY <2>1 DEF Shown, ReadingOf, RowOf, Row
  <2>5. Len(a.rows) \in Nat /\ Len(h) \in Nat
    BY <2>2, <2>4, LenProperties
  <2>6. CASE a.within
    <3>1. Len(a.rows) + 1 <= Len(h) /\ Last(h).torn /\ InOrder(h, a.rows)
      BY <2>1, <2>6 DEF Shown
    <3>2. Len(Append(a.rows, Row(a))) = Len(a.rows) + 1
      BY <2>4, AppendProperties
    <3>3. InOrder(h, Append(a.rows, Row(a)))
      BY <2>2, <2>4, <3>1, InOrderMore
    <3> QED BY <2>3, <2>6, <3>1, <3>2, <3>3 DEF h
  <2>7. CASE ~a.within
    <3>1. Len(a.rows) + 0 <= Len(h) /\ InOrder(h, a.rows)
      BY <2>1, <2>7 DEF Shown
    <3>2. h # <<>> /\ ~Last(h).torn => Preview(files[c]) = Last(a.rows).text
      BY <2>1 DEF Shown
    <3>3. Len(a.rows) <= Len(h)
      BY <2>5, <3>1
    <3> QED BY <2>3, <2>7, <3>1, <3>2, <3>3 DEF h
  <2> QED BY <2>6, <2>7
<1> QED BY <1>1, Zenon DEF TearCostsOne, InOrder, ShownAt, IsShown, CleanOf

----------------------------------------------------------------------------
(* The theorems.                                                           *)

IInv ==
  /\ Typed
  /\ KnownTexts
  /\ NetFrom
  /\ FriendKnowsNoMore
  /\ RefusedAreLong
  /\ SavedOnce
  /\ AllShown

LEMMA NothingRead ==
  FoldLeft(ReadLine, Shut, <<>>) = Shut /\ Shut \in ReadingOf
<1>1. Len(<<>>) = 0 /\ DOMAIN <<>> = 1..0 /\ Len(<<>>) \in Nat
  OBVIOUS
<1>2. PICK h : ReadingLines(<<>>, h) /\ FoldLeft(ReadLine, Shut, <<>>) = h[Len(<<>>)]
  BY <1>1, ReadingValues
<1>3. h[0] = Shut
  BY <1>2, Zenon DEF ReadingLines
<1>4. <<>> \in Seq(RowOf)
  BY EmptySeq
<1>5. Shut \in ReadingOf
  BY <1>4, NoTextTyped DEF Shut, ReadingOf
<1> QED BY <1>1, <1>2, <1>3, <1>5, Zenon

LEMMA IInvInit == Init => IInv
<1> SUFFICES ASSUME Init PROVE IInv
  OBVIOUS
<1>1. /\ requests = <<>> /\ net = {} /\ refused = {}
      /\ files = [c \in Clients |-> <<>>] /\ log = [c \in Clients |-> <<>>]
  BY DEF Init
<1>2. /\ <<>> \in Seq(Requested) /\ <<>> \in Seq(Lines) /\ <<>> \in Seq(Appended)
      /\ DOMAIN <<>> = {} /\ Len(<<>>) = 0
  BY EmptySeq
<1>3. Typed
  BY <1>1, <1>2 DEF Typed
<1>4. DOMAIN requests = {} /\ \A c \in Clients : log[c] = <<>> /\ DOMAIN log[c] = {}
  BY <1>1, <1>2
<1>5. KnownTexts /\ NetFrom /\ FriendKnowsNoMore /\ RefusedAreLong
  BY <1>1, <1>4 DEF KnownTexts, NetFrom, FriendKnowsNoMore, RefusedAreLong
<1>6. SavedOnce
  BY <1>4 DEF SavedOnce
<1>7. AllShown
  <2>1. ASSUME NEW c \in Clients PROVE Shown(log[c], Reading(c), Preview(files[c]))
    <3>1. Reading(c) = Shut /\ Reading(c) \in ReadingOf
      BY <1>1, NothingRead DEF Reading
    <3>2. Shut.within = FALSE /\ Shut.rows = <<>>
      BY DEF Shut
    <3>3. CleanOf(<<>>) = {}
      BY <1>2 DEF CleanOf
    <3>4. InOrder(<<>>, <<>>)
      BY <3>3 DEF InOrder
    <3>5. Len(<<>>) + (IF FALSE THEN 1 ELSE 0) <= Len(<<>>)
      BY <1>2
    <3> QED BY <1>4, <3>1, <3>2, <3>4, <3>5, Zenon DEF Shown
  <2> QED BY <2>1 DEF AllShown
<1> QED BY <1>3, <1>5, <1>6, <1>7 DEF IInv

LEMMA IInvNext == IInv /\ [Next]_vars => IInv'
<1> SUFFICES ASSUME IInv, [Next]_vars PROVE IInv'
  OBVIOUS
<1>1. Typed' /\ Remembered /\ Kind
  BY Steps DEF IInv
<1>2. KnownTexts'
  BY <1>1, KnownStep DEF IInv
<1>3. NetFrom'
  BY <1>1, NetFromStep DEF IInv
<1>4. FriendKnowsNoMore'
  BY <1>1, FriendKnowsStep DEF IInv
<1>5. RefusedAreLong'
  BY <1>1, RefusedStep DEF IInv
<1>6. SavedOnce'
  BY <1>1, SavedStep DEF IInv
<1>7. AllShown'
  BY <1>1, ShownStep DEF IInv
<1> QED BY <1>1, <1>2, <1>3, <1>4, <1>5, <1>6, <1>7 DEF IInv

LEMMA AlwaysIInv == Spec => []IInv
BY IInvInit, IInvNext, PTL DEF Spec

(* Every text of a history, one's own or the friend's, is the text that    *)
(* was typed, with its backslashes twice: save_message and send_text get   *)
(* what ReadBack says the scan of the request makes of it.                 *)
THEOREM KeepsAsTyped == Spec => []KeptAsTyped
<1>1. IInv => KeptAsTyped
  BY Zenon DEF IInv, KnownTexts, KeptAsTyped
<1> QED BY <1>1, AlwaysIInv, PTL

(* The program may end within any append to messages.txt, any number of    *)
(* times: make_json_messages still shows every append that was not torn    *)
(* and does not follow one that was, in order and with its own sender, and *)
(* make_json_friends agrees with it on the last text.                      *)
THEOREM TearsCostOne == Spec => []TearCostsOne
<1>1. IInv => TearCostsOne
  BY TearCosts DEF IInv
<1> QED BY <1>1, AlwaysIInv, PTL

(* What handle_receive appends is in the history of the friend who sent    *)
(* it, whole, since save_message comes before send_text.                   *)
THEOREM FriendNeverKnowsMore == Spec => []FriendKnowsNoMore
<1>1. IInv => FriendKnowsNoMore
  BY DEF IInv
<1> QED BY <1>1, AlwaysIInv, PTL

(* The limits of send_text and of handle_receive do not fit: a text of 464 *)
(* bytes or more is sent, cut or not, and always refused.                  *)
THEOREM OnlyLongRefused == Spec => []RefusedAreLong
<1>1. IInv => RefusedAreLong
  BY DEF IInv
<1> QED BY <1>1, AlwaysIInv, PTL

(* A request that was answered has its text in the history once, unless    *)
(* the text mentions a route that handle_read looks for before POST /send; *)
(* any other request does not have it there.                               *)
THEOREM AnswersMeanSaved == Spec => []AnswerMeansSaved
<1>1. IInv => AnswerMeansSaved
  BY AnswerMeans DEF IInv
<1> QED BY <1>1, AlwaysIInv, PTL
=============================================================================

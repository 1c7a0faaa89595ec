---------------------------- MODULE QueueLemmas ----------------------------
(***************************************************************************)
(* Facts about sequences, of packets and of characters: what removing one  *)
(* element, dropping a prefix or appending to the end does to the elements *)
(* and to their order, what flattening is, and the induction over naturals *)
(* by which such facts are proved.                                         *)
(***************************************************************************)
EXTENDS Naturals, Sequences, SequencesExt, SequenceTheorems,
        WellFoundedInduction, TLAPS

(* A set of naturals that is not empty has a least element.                *)
LEMMA LeastNatural ==
  ASSUME NEW S \in SUBSET Nat, S # {}
  PROVE  \E p \in S : \A q \in S : p <= q
<1> DEFINE R == OpToRel(<, Nat)
<1>1. IsWellFoundedOn(R, Nat)
  BY NatLessThanWellFounded
<1>2. \E p \in S : \A q \in S : ~(<<q, p>> \in R)
  <2> HIDE DEF R
  <2> QED BY <1>1, WFMin
<1>3. \A p, q \in Nat : ~(<<q, p>> \in R) => p <= q
  BY DEF OpToRel
<1> QED BY <1>2, <1>3

(* Induction: a set that has zero, and the next of each natural it has,    *)
(* has them all.                                                           *)
LEMMA EveryNatural ==
  ASSUME NEW S, 0 \in S, \A n \in Nat : n \in S => n + 1 \in S
  PROVE  \A n \in Nat : n \in S
<1> DEFINE T == Nat \ S
<1>1. ASSUME T # {} PROVE FALSE
  <2>1. PICK p \in T : \A q \in T : p <= q
    BY <1>1, LeastNatural
  <2>2. p \in Nat /\ p # 0 /\ p - 1 \in Nat /\ ~(p <= p - 1)
    BY <2>1
  <2>3. p - 1 \in S
    BY <2>1, <2>2
  <2>4. p - 1 + 1 = p
    BY <2>2
  <2> QED BY <2>1, <2>2, <2>3, <2>4
<1> QED BY <1>1

(* A function on 1..n is a sequence.                                       *)
LEMMA FunctionSeq ==
  ASSUME NEW S, NEW n \in Nat, NEW q \in [1..n -> S]
  PROVE  q \in Seq(S)
OBVIOUS

(* Removing the n-th element keeps the others, in order: the ones before n *)
(* stay where they are and the ones after it move up by one.               *)
LEMMA RemoveAtProperties ==
  ASSUME NEW S, NEW q \in Seq(S), NEW n \in 1..Len(q)
  PROVE  /\ RemoveAt(q, n) \in Seq(S)
         /\ Len(RemoveAt(q, n)) = Len(q) - 1
         /\ \A i \in 1..(Len(q) - 1) :
              RemoveAt(q, n)[i] = IF i < n THEN q[i] ELSE q[i + 1]
<1> DEFINE a == SubSeq(q, 1, n - 1)
           b == SubSeq(q, n + 1, Len(q))
<1>0. Len(q) \in Nat /\ \A i \in 1..Len(q) : q[i] \in S
  BY ElementOfSeq, LenProperties
<1>1. /\ a \in Seq(S)
      /\ Len(a) = n - 1
      /\ \A i \in 1..(n - 1) : a[i] = q[i]
  <2>1. 1 \in Int /\ n - 1 \in Int /\ \A i \in 1..(n - 1) : q[i] \in S
    BY <1>0
  <2>2. /\ a \in Seq(S)
        /\ Len(a) = IF 1 <= n - 1 THEN n - 1 - 1 + 1 ELSE 0
        /\ \A i \in 1..(n - 1 - 1 + 1) : a[i] = q[1 + i - 1]
    BY <2>1, SubSeqProperties
  <2> QED BY <2>2, <1>0
<1>2. /\ b \in Seq(S)
      /\ Len(b) = Len(q) - n
      /\ \A i \in 1..(Len(q) - n) : b[i] = q[n + i]
  <2>1. n + 1 \in Int /\ Len(q) \in Int /\ \A i \in (n + 1)..Len(q) : q[i] \in S
    BY <1>0
  <2>2. /\ b \in Seq(S)
        /\ Len(b) = IF n + 1 <= Len(q) THEN Len(q) - (n + 1) + 1 ELSE 0
        /\ \A i \in 1..(Len(q) - (n + 1) + 1) : b[i] = q[n + 1 + i - 1]
    BY <2>1, SubSeqProperties
  <2> QED BY <2>2, <1>0
<1>3. /\ a \o b \in Seq(S)
      /\ Len(a \o b) = Len(a) + Len(b)
      /\ \A i \in 1..(Len(a) + Len(b)) :
           (a \o b)[i] = IF i <= Len(a) THEN a[i] ELSE b[i - Len(a)]
  BY <1>1, <1>2, ConcatProperties
<1>4. RemoveAt(q, n) = a \o b
  BY DEF RemoveAt
<1> HIDE DEF a, b
<1>5. ASSUME NEW i \in 1..(Len(q) - 1)
      PROVE  (a \o b)[i] = IF i < n THEN q[i] ELSE q[i + 1]
  <2>1. CASE i < n
    <3>1. i \in 1..(Len(a) + Len(b)) /\ i <= Len(a) /\ i \in 1..(n - 1)
      BY <1>0, <1>1, <1>2, <2>1
    <3> QED BY <3>1, <1>1, <1>3, <2>1
  <2>2. CASE ~(i < n)
    <3>1. /\ i \in 1..(Len(a) + Len(b))
          /\ ~(i <= Len(a))
          /\ i - Len(a) \in 1..(Len(q) - n)
          /\ n + (i - Len(a)) = i + 1
      BY <1>0, <1>1, <1>2, <2>2
    <3>2. (a \o b)[i] = b[i - Len(a)]
      BY <3>1, <1>3
    <3>3. b[i - Len(a)] = q[n + (i - Len(a))]
      BY <3>1, <1>2
    <3> QED BY <3>1, <3>2, <3>3, <2>2
  <2> QED BY <2>1, <2>2
<1>6. Len(a \o b) = Len(q) - 1
  BY <1>0, <1>1, <1>2, <1>3
<1> QED BY <1>3, <1>4, <1>5, <1>6, Zenon

(* Where the elements of RemoveAt(q, n) were in q: the places from n on    *)
(* move up by one, so the order stays, and only the place n is left out.   *)
PlaceBefore(n, i) == IF i < n THEN i ELSE i + 1

LEMMA PlacesBefore ==
  ASSUME NEW n \in Nat, NEW N \in Nat, n \in 1..N
  PROVE  /\ \A i \in 1..N : /\ PlaceBefore(n, i) \in 1..(N + 1) \ {n}
                            /\ i < N => PlaceBefore(n, i) \in 1..N
         /\ PlaceBefore(n, N) = N + 1
         /\ \A i, j \in 1..N : i < j => PlaceBefore(n, i) < PlaceBefore(n, j)
         /\ \A i, j \in 1..N : PlaceBefore(n, i) = PlaceBefore(n, j) => i = j
         /\ \A i, j \in 1..N : \A k \in 1..N \ {n} :
              PlaceBefore(n, i) < k /\ k < PlaceBefore(n, j) =>
                \E l \in 1..N : PlaceBefore(n, l) = k /\ i < l /\ l < j
<1>1. ASSUME NEW i \in 1..N, NEW j \in 1..N, NEW k \in 1..N \ {n},
             PlaceBefore(n, i) < k, k < PlaceBefore(n, j)
      PROVE  \E l \in 1..N : PlaceBefore(n, l) = k /\ i < l /\ l < j
  <2>1. CASE k < n
    <3>1. PlaceBefore(n, k) = k /\ i < k /\ k < j
      BY <1>1, <2>1 DEF PlaceBefore
    <3> QED BY <3>1
  <2>2. CASE ~(k < n)
    <3>1. PICK l \in 1..N : l + 1 = k
      <4>1. k - 1 \in 1..N /\ k - 1 + 1 = k
        BY <2>2
      <4> QED BY <4>1
    <3>2. PlaceBefore(n, l) = k /\ i < l /\ l < j
      BY <1>1, <2>2, <3>1 DEF PlaceBefore
    <3> QED BY <3>2
  <2> QED BY <2>1, <2>2
<1>2. /\ \A i \in 1..N : /\ PlaceBefore(n, i) \in 1..(N + 1) \ {n}
                         /\ i < N => PlaceBefore(n, i) \in 1..N
      /\ PlaceBefore(n, N) = N + 1
      /\ \A i, j \in 1..N : i < j => PlaceBefore(n, i) < PlaceBefore(n, j)
      /\ \A i, j \in 1..N : PlaceBefore(n, i) = PlaceBefore(n, j) => i = j
  BY DEF PlaceBefore
<1> QED BY <1>1, <1>2

LEMMA RemovedPlaces ==
  ASSUME NEW S, NEW q \in Seq(S), NEW n \in 1..Len(q)
  PROVE  \A i \in 1..(Len(q) - 1) : RemoveAt(q, n)[i] = q[PlaceBefore(n, i)]
BY RemoveAtProperties DEF PlaceBefore

(* Dropping the first m elements moves the others up by m.                 *)
LEMMA SuffixProperties ==
  ASSUME NEW S, NEW q \in Seq(S), NEW m \in 0..Len(q)
  PROVE  /\ SubSeq(q, m + 1, Len(q)) \in Seq(S)
         /\ Len(SubSeq(q, m + 1, Len(q))) = Len(q) - m
         /\ \A i \in 1..(Len(q) - m) : SubSeq(q, m + 1, Len(q))[i] = q[m + i]
<1>1. Len(q) \in Nat /\ \A i \in 1..Len(q) : q[i] \in S
  BY ElementOfSeq, LenProperties
<1>2. m + 1 \in Int /\ Len(q) \in Int /\ \A i \in (m + 1)..Len(q) : q[i] \in S
  BY <1>1
<1>3. /\ SubSeq(q, m + 1, Len(q)) \in Seq(S)
      /\ Len(SubSeq(q, m + 1, Len(q)))
           = IF m + 1 <= Len(q) THEN Len(q) - (m + 1) + 1 ELSE 0
      /\ \A i \in 1..(Len(q) - (m + 1) + 1) :
           SubSeq(q, m + 1, Len(q))[i] = q[m + 1 + i - 1]
  BY <1>2, SubSeqProperties
<1> QED BY <1>1, <1>3

(* The greatest of the first n naturals that has n is n.                   *)
LEMMA GreatestOf ==
  ASSUME NEW n \in Nat, NEW S \in SUBSET (1..n), n \in S
  PROVE  Max(S) = n
<1>1. \A x \in S : x \in Nat /\ n >= x
  OBVIOUS
<1>2. \A x \in S : (\A y \in S : x >= y) => x = n
  BY <1>1
<1> QED BY <1>1, <1>2 DEF Max

(* A set of naturals up to N that is not empty has a greatest element, and *)
(* Max is that element.                                                    *)
LEMMA GreatestIs ==
  ASSUME NEW S \in SUBSET Nat, NEW n \in S, \A x \in S : x <= n
  PROVE  Max(S) = n
<1>1. \A x \in S : x \in Nat /\ n >= x
  OBVIOUS
<1>2. \A x \in S : (\A y \in S : x >= y) => x = n
  BY <1>1
<1> QED BY <1>1, <1>2 DEF Max

LEMMA GreatestExists ==
  ASSUME NEW S \in SUBSET Nat, S # {}, NEW N \in Nat, \A x \in S : x <= N
  PROVE  Max(S) \in S /\ \A x \in S : x <= Max(S)
<1> DEFINE D == {N - x : x \in S}
<1>1. D \in SUBSET Nat /\ D # {}
  <2>1. \A x \in S : x \in Nat /\ N - x \in Nat
    OBVIOUS
  <2>2. PICK x \in S : TRUE
    OBVIOUS
  <2>3. N - x \in D
    OBVIOUS
  <2>4. \A d \in D : d \in Nat
    BY <2>1
  <2> QED BY <2>3, <2>4
<1>2. PICK d \in D : \A e \in D : d <= e
  BY <1>1, LeastNatural
<1>3. PICK n \in S : d = N - n
  OBVIOUS
<1>4. ASSUME NEW x \in S PROVE x <= n
  <2>1. N - n <= N - x
    BY <1>2, <1>3
  <2> QED BY <2>1
<1>5. Max(S) = n
  BY <1>4, GreatestIs
<1> QED BY <1>4, <1>5

(* FlattenSeq is the last of the sequences f[i], each the one before it    *)
(* followed by the i-th of the sequences to be flattened.                  *)
Flattening(ss, n, f) ==
  \A i \in 1..n : f[i] = IF i = 1 THEN ss[i] ELSE f[i - 1] \o ss[i]

LEMMA FlattenIs ==
  ASSUME NEW T, NEW ss \in Seq(Seq(T)), Len(ss) # 0
  PROVE  \E f \in [1..Len(ss) -> Seq(T)] :
           /\ Flattening(ss, Len(ss), f)
           /\ FlattenSeq(ss) = f[Len(ss)]
<1> DEFINE N == Len(ss)
           S == {n \in Nat : n <= N =>
                   \E f \in [1..n -> Seq(T)] : Flattening(ss, n, f)}
<1>0. N \in Nat /\ \A i \in 1..N : ss[i] \in Seq(T)
  BY ElementOfSeq, LenProperties
<1>1. 0 \in S
  <2> DEFINE z == [i \in 1..0 |-> <<>>]
  <2>1. z \in [1..0 -> Seq(T)]
    OBVIOUS
  <2>2. Flattening(ss, 0, z)
    BY DEF Flattening
  <2> QED BY <2>1, <2>2
<1>2. ASSUME NEW n \in Nat, n \in S PROVE n + 1 \in S
  <2> SUFFICES ASSUME n + 1 <= N
               PROVE  \E f \in [1..(n + 1) -> Seq(T)] : Flattening(ss, n + 1, f)
    OBVIOUS
  <2>1. PICK f \in [1..n -> Seq(T)] : Flattening(ss, n, f)
    BY <1>0, <1>2
  <2> DEFINE e == IF n = 0 THEN ss[1] ELSE f[n] \o ss[n + 1]
             g == [i \in 1..(n + 1) |-> IF i = n + 1 THEN e ELSE f[i]]
  <2>2. e \in Seq(T)
    <3>1. CASE n = 0
      BY <1>0, <3>1
    <3>2. CASE n # 0
      <4>1. f[n] \in Seq(T) /\ ss[n + 1] \in Seq(T)
        BY <1>0, <2>1, <3>2
      <4> QED BY <3>2, <4>1, ConcatProperties
    <3> QED BY <3>1, <3>2
  <2>3. g \in [1..(n + 1) -> Seq(T)]
    BY <2>1, <2>2
  <2>4. ASSUME NEW i \in 1..(n + 1)
        PROVE  g[i] = IF i = 1 THEN ss[i] ELSE g[i - 1] \o ss[i]
    <3>1. CASE i = n + 1
      BY <2>1, <3>1
    <3>2. CASE i # n + 1
      <4>1. i \in 1..n /\ (i # 1 => i - 1 \in 1..n /\ i - 1 # n + 1)
        BY <3>2
      <4>2. f[i] = IF i = 1 THEN ss[i] ELSE f[i - 1] \o ss[i]
        BY <2>1, <4>1 DEF Flattening
      <4>3. g[i] = f[i] /\ (i # 1 => g[i - 1] = f[i - 1])
        BY <3>2, <4>1
      <4> QED BY <4>2, <4>3
    <3> QED BY <3>1, <3>2
  <2> HIDE DEF g
  <2> QED BY <2>3, <2>4 DEF Flattening
<1>3. N \in S
  <2> HIDE DEF S
  <2> QED BY <1>0, <1>1, <1>2, EveryNatural
<1>4. PICK f \in [1..N -> Seq(T)] : Flattening(ss, N, f)
  BY <1>0, <1>3
<1>5. \E g : /\ g = [i \in 1..N |-> IF i = 1 THEN ss[i] ELSE g[i - 1] \o ss[i]]
             /\ FlattenSeq(ss) = g[N]
  <2> DEFINE Is(f0) == f0 = [i \in 1..N |-> IF i = 1 THEN ss[i] ELSE f0[i - 1] \o ss[i]]
  <2>1. FlattenSeq(ss) = (CHOOSE f0 : Is(f0))[N]
    BY Zenon DEF FlattenSeq
  <2>2. Is(f)
    BY <1>4, Zenon DEF Flattening
  <2>3. Is(CHOOSE f0 : Is(f0))
    BY <2>2, Zenon
  <2> QED BY <2>1, <2>3, Zenon
<1>6. PICK g : /\ g = [i \in 1..N |-> IF i = 1 THEN ss[i] ELSE g[i - 1] \o ss[i]]
               /\ FlattenSeq(ss) = g[N]
  BY <1>5
<1>7. g = [i \in 1..N |-> g[i]]
  BY <1>6, Zenon
<1>8. \A i \in 1..N : g[i] = IF i = 1 THEN ss[i] ELSE g[i - 1] \o ss[i]
  BY <1>6, Zenon
<1>9. g \in [1..N -> Seq(T)]
  <2> DEFINE U == {n \in Nat : n \in 1..N => g[n] \in Seq(T)}
  <2>1. 0 \in U
    BY <1>0
  <2>2. ASSUME NEW n \in Nat, n \in U PROVE n + 1 \in U
    <3>1. ASSUME NEW m \in 1..N, m # 1, g[m - 1] \in Seq(T)
          PROVE  g[m] \in Seq(T)
      <4>1. g[m] = g[m - 1] \o ss[m] /\ ss[m] \in Seq(T)
        BY <1>0, <1>8, <3>1, Zenon
      <4> QED BY <3>1, <4>1, ConcatProperties
    <3>2. 1 \in 1..N => g[1] \in Seq(T)
      BY <1>0, <1>8
    <3>3. \A m \in 1..N : m = n + 1 => m - 1 = n /\ (m # 1 => n \in 1..N)
      OBVIOUS
    <3>4. n \in 1..N => g[n] \in Seq(T)
      BY <2>2
    <3>5. \A m \in 1..N : m = n + 1 => g[m] \in Seq(T)
      BY <3>1, <3>2, <3>3, <3>4, Zenon
    <3> QED BY <3>5
  <2>3. \A n \in Nat : n \in U
    <3> HIDE DEF U
    <3> QED BY <2>1, <2>2, EveryNatural
  <2>4. \A n \in 1..N : g[n] \in Seq(T)
    BY <1>0, <2>3
  <2> QED BY <1>7, <2>4
<1> QED BY <1>0, <1>6, <1>8, <1>9, Zenon DEF Flattening

(* Where the p-th of the flattened sequences begins.                       *)
Before(f, p) == IF p = 1 THEN 0 ELSE Len(f[p - 1])

(* Each of the flattened sequences is found whole at its place, the next   *)
(* one right after it.                                                     *)
Placed(ss, f) ==
  \A p \in 1..Len(ss) :
    /\ Before(f, p) \in Nat /\ Len(ss[p]) \in Nat
    /\ Len(f[p]) = Before(f, p) + Len(ss[p])
    /\ Len(f[p]) <= Len(f[Len(ss)])
    /\ \A k \in 1..Len(ss[p]) : f[Len(ss)][Before(f, p) + k] = ss[p][k]

LEMMA FlatteningPlaces ==
  ASSUME NEW T, NEW ss \in Seq(Seq(T)),
         NEW f \in [1..Len(ss) -> Seq(T)], Flattening(ss, Len(ss), f)
  PROVE  Placed(ss, f)
<1> DEFINE N == Len(ss)
           Within(p, m) == /\ Len(f[p]) <= Len(f[m])
                           /\ \A k \in 1..Len(f[p]) : f[m][k] = f[p][k]
           S == {m \in Nat : m \in 1..N => \A p \in 1..m : Within(p, m)}
<1>0. N \in Nat /\ \A i \in 1..N : ss[i] \in Seq(T) /\ f[i] \in Seq(T)
  BY ElementOfSeq, LenProperties
<1>1. \A i \in 1..N : Len(ss[i]) \in Nat /\ Len(f[i]) \in Nat
  BY <1>0, LenProperties
<1>2. ASSUME NEW m \in 1..N, m # 1
      PROVE  /\ m - 1 \in 1..N
             /\ Len(f[m]) = Len(f[m - 1]) + Len(ss[m])
             /\ \A k \in 1..Len(f[m]) :
                  f[m][k] = IF k <= Len(f[m - 1]) THEN f[m - 1][k]
                            ELSE ss[m][k - Len(f[m - 1])]
  <2>1. m - 1 \in 1..N
    BY <1>2
  <2>2. f[m] = f[m - 1] \o ss[m]
    BY <1>2, Zenon DEF Flattening
  <2>3. f[m - 1] \in Seq(T) /\ ss[m] \in Seq(T)
    BY <1>0, <2>1
  <2>4. /\ Len(f[m - 1] \o ss[m]) = Len(f[m - 1]) + Len(ss[m])
        /\ \A k \in 1..(Len(f[m - 1]) + Len(ss[m])) :
             (f[m - 1] \o ss[m])[k] = IF k <= Len(f[m - 1]) THEN f[m - 1][k]
                                      ELSE ss[m][k - Len(f[m - 1])]
    BY <2>3, ConcatProperties
  <2> QED BY <2>1, <2>2, <2>4
<1>3. 0 \in S
  OBVIOUS
<1>4. ASSUME NEW n \in Nat, n \in S PROVE n + 1 \in S
  <2>1. ASSUME NEW m \in 1..N, m = n + 1, NEW p \in 1..m PROVE Within(p, m)
    <3>1. CASE p = m
      BY <1>1, <3>1
    <3>2. CASE p # m
      <4>1. m # 1 /\ p \in 1..(m - 1) /\ m - 1 = n /\ n \in 1..N /\ p \in 1..N
        BY <2>1, <3>2
      <4>2. Within(p, m - 1)
        BY <1>4, <4>1
      <4>3. /\ Len(f[m]) = Len(f[m - 1]) + Len(ss[m])
            /\ \A k \in 1..Len(f[m]) : k <= Len(f[m - 1]) => f[m][k] = f[m - 1][k]
        BY <1>2, <4>1
      <4>4. Len(f[p]) \in Nat /\ Len(f[m - 1]) \in Nat /\ Len(ss[m]) \in Nat
        BY <1>1, <4>1
      <4>5. Len(f[m]) \in Nat
        BY <1>1
      <4>6. /\ Len(f[p]) <= Len(f[m])
            /\ \A k \in 1..Len(f[p]) : k \in 1..Len(f[m]) /\ k <= Len(f[m - 1])
        <5> DEFINE a == Len(f[p])
                   b == Len(f[m - 1])
                   c == Len(ss[m])
                   d == Len(f[m])
        <5>1. a \in Nat /\ b \in Nat /\ c \in Nat /\ d \in Nat /\ a <= b /\ d = b + c
          BY <4>2, <4>3, <4>4, <4>5, Zenon
        <5> HIDE DEF a, b, c, d
        <5>2. a <= d /\ \A k \in 1..a : k \in 1..d /\ k <= b
          BY <5>1
        <5> QED BY <5>2, Zenon DEF a, b, d
      <4>7. \A k \in 1..Len(f[p]) : f[m][k] = f[p][k]
        BY <4>2, <4>3, <4>6, Zenon
      <4> QED BY <4>6, <4>7, Zenon
    <3> QED BY <3>1, <3>2
  <2> HIDE DEF Within
  <2> QED BY <2>1
<1>5. \A n \in Nat : n \in S
  <2> HIDE DEF S
  <2> QED BY <1>3, <1>4, EveryNatural
<1>6. ASSUME NEW p \in 1..N
      PROVE  /\ Before(f, p) \in Nat /\ Len(ss[p]) \in Nat
             /\ Len(f[p]) = Before(f, p) + Len(ss[p])
             /\ \A k \in 1..Len(ss[p]) : f[p][Before(f, p) + k] = ss[p][k]
  <2>1. CASE p = 1
    <3>1. f[p] = ss[p]
      BY <2>1, Zenon DEF Flattening
    <3> QED BY <1>1, <2>1, <3>1 DEF Before
  <2>2. CASE p # 1
    <3>1. Before(f, p) = Len(f[p - 1]) /\ p - 1 \in 1..N
      BY <2>2 DEF Before
    <3>2. Len(f[p - 1]) \in Nat /\ Len(ss[p]) \in Nat
      BY <1>1, <3>1
    <3>3. Len(f[p]) = Len(f[p - 1]) + Len(ss[p])
      BY <1>2, <2>2
    <3>4. ASSUME NEW k \in 1..Len(ss[p])
          PROVE  f[p][Len(f[p - 1]) + k] = ss[p][k]
      <4> DEFINE j == Len(f[p - 1]) + k
      <4>1. j \in 1..Len(f[p]) /\ ~(j <= Len(f[p - 1])) /\ j - Len(f[p - 1]) = k
        <5> DEFINE a == Len(f[p - 1])
                   b == Len(ss[p])
                   c == Len(f[p])
        <5>1. a \in Nat /\ b \in Nat /\ c = a + b /\ k \in 1..b /\ j = a + k
          BY <3>2, <3>3, Zenon
        <5> HIDE DEF a, b, c, j
        <5>2. j \in 1..c /\ ~(j <= a) /\ j - a = k
          BY <5>1
        <5> QED BY <5>2, Zenon DEF a, c
      <4> HIDE DEF j
      <4>2. f[p][j] = ss[p][j - Len(f[p - 1])]
        BY <1>2, <2>2, <4>1
      <4>3. f[p][j] = ss[p][k]
        BY <4>1, <4>2
      <4> QED BY <4>3 DEF j
    <3> QED BY <3>1, <3>2, <3>3, <3>4
  <2> QED BY <2>1, <2>2
<1>7. ASSUME NEW p \in 1..N
      PROVE  /\ Len(f[p]) <= Len(f[N])
             /\ \A k \in 1..Len(ss[p]) : f[N][Before(f, p) + k] = ss[p][k]
  <2>1. Within(p, N)
    <3>1. N \in Nat /\ N \in 1..N /\ p \in 1..N
      BY <1>0
    <3> HIDE DEF Within
    <3> QED BY <1>5, <3>1
  <2>2. ASSUME NEW k \in 1..Len(ss[p])
        PROVE  f[N][Before(f, p) + k] = ss[p][k]
    <3> DEFINE j == Before(f, p) + k
    <3>1. j \in 1..Len(f[p])
      BY <1>6
    <3>2. f[p][j] = ss[p][k]
      BY <1>6
    <3> HIDE DEF j
    <3>3. f[N][j] = ss[p][k]
      BY <2>1, <3>1, <3>2
    <3> QED BY <3>3 DEF j
  <2> QED BY <2>1, <2>2
<1> QED BY <1>6, <1>7 DEF Placed
=============================================================================

--------------------------- MODULE ChatViewProofs ---------------------------
(***************************************************************************)
(* ChatView for any friends, texts, queries and bounds: everything keeps   *)
(* its type, the page shows the friend the program holds selected, no      *)
(* badge counts more texts than the history holds, and with a query the    *)
(* texts that are visible are those with a word two edits away from it.    *)
(***************************************************************************)
EXTENDS ChatView, QueueLemmas

(***************************************************************************)
(* The distance of words.  A table is filled diagonal by diagonal, so the  *)
(* induction is over the sum of row and column.                            *)
(***************************************************************************)

(* What Table puts in a cell, of the cells before it.                      *)
Cell(M, a, b, p) ==
  IF p[1] = 0 THEN p[2]
  ELSE IF p[2] = 0 THEN p[1]
  ELSE IF b[p[1]] = a[p[2]] THEN M[<<p[1] - 1, p[2] - 1>>]
  ELSE 1 + Min({M[<<p[1] - 1, p[2] - 1>>], M[<<p[1], p[2] - 1>>],
                M[<<p[1] - 1, p[2]>>]})

Cells(a, b) == (0 .. Len(b)) \X (0 .. Len(a))
Filled(M, a, b) == M = [p \in Cells(a, b) |-> Cell(M, a, b, p)]

LEMMA MinThree ==
  ASSUME NEW x \in Nat, NEW y \in Nat, NEW z \in Nat
  PROVE  /\ Min({x, y, z}) \in {x, y, z} /\ Min({x, y, z}) \in Nat
         /\ Min({x, y, z}) <= x /\ Min({x, y, z}) <= y /\ Min({x, y, z}) <= z
<1>1. \E u \in {x, y, z} : \A v \in {x, y, z} : u <= v
  OBVIOUS
<1> QED BY <1>1 DEF Min

LEMMA CellTyped ==
  ASSUME NEW a, NEW b, Len(a) \in Nat, Len(b) \in Nat, NEW p \in Cells(a, b),
         NEW M, \A q \in Cells(a, b) : q[1] + q[2] < p[1] + p[2] => M[q] \in Nat
  PROVE  Cell(M, a, b, p) \in Nat
<1> DEFINE i == p[1]
           j == p[2]
<1>1. i \in 0..Len(b) /\ j \in 0..Len(a)
  BY DEF Cells
<1>2. CASE i = 0 \/ j = 0
  BY <1>1, <1>2 DEF Cell
<1>3. CASE i # 0 /\ j # 0
  <2>1. ASSUME NEW h \in {i - 1, i}, NEW k \in {j - 1, j}, h + k < i + j
        PROVE  M[<<h, k>>] \in Nat
    <3>1. <<h, k>> \in Cells(a, b)
      BY <1>1, <1>3 DEF Cells
    <3> QED BY <2>1, <3>1
  <2>2. /\ M[<<i - 1, j - 1>>] \in Nat /\ M[<<i, j - 1>>] \in Nat
        /\ M[<<i - 1, j>>] \in Nat
    BY <1>1, <1>3, <2>1
  <2> DEFINE least == Min({M[<<i - 1, j - 1>>], M[<<i, j - 1>>], M[<<i - 1, j>>]})
  <2>3. least \in Nat
    BY <2>2, MinThree
  <2>4. Cell(M, a, b, p) \in {M[<<i - 1, j - 1>>], 1 + least}
    BY <1>3 DEF Cell
  <2> QED BY <2>2, <2>3, <2>4
<1> QED BY <1>2, <1>3

(* Filling every cell at once, over and over, settles the cells one        *)
(* diagonal after the other: there is a table.                             *)
LEMMA TableExists ==
  ASSUME NEW a, NEW b, Len(a) \in Nat, Len(b) \in Nat
  PROVE  \E M : Filled(M, a, b)
<1> DEFINE D == Cells(a, b)
           Settled(M, n) == \A p \in D : p[1] + p[2] < n => M[p] = Cell(M, a, b, p)
           S == {n \in Nat : \E M \in [D -> Nat] : Settled(M, n)}
<1>0. \A p \in D : p[1] \in Nat /\ p[2] \in Nat /\ p = <<p[1], p[2]>>
  BY DEF Cells
<1>1. 0 \in S
  <2>1. [p \in D |-> 0] \in [D -> Nat] /\ Settled([p \in D |-> 0], 0)
    BY <1>0
  <2> HIDE DEF D, Settled
  <2> QED BY <2>1
<1>2. ASSUME NEW n \in Nat, n \in S PROVE n + 1 \in S
  <2>1. PICK M \in [D -> Nat] : Settled(M, n)
    BY <1>2
  <2> DEFINE W == [p \in D |-> Cell(M, a, b, p)]
  <2>2. ASSUME NEW p \in D PROVE Cell(M, a, b, p) \in Nat
    BY CellTyped
  <2>3. W \in [D -> Nat]
    BY <2>2
  <2>4. ASSUME NEW p \in D, p[1] + p[2] < n + 1 PROVE Cell(W, a, b, p) = Cell(M, a, b, p)
    <3> DEFINE i == p[1]
               j == p[2]
    <3>1. ASSUME NEW h \in {i - 1, i}, NEW k \in {j - 1, j}, i # 0, j # 0, h + k < i + j
          PROVE  W[<<h, k>>] = M[<<h, k>>]
      <4> DEFINE q == <<h, k>>
      <4>1. q \in D /\ q[1] + q[2] < n
        BY <1>0, <2>4, <3>1 DEF Cells
      <4>2. M[q] = Cell(M, a, b, q)
        BY <2>1, <4>1
      <4> HIDE DEF q
      <4>3. W[q] = M[q]
        BY <4>1, <4>2
      <4> QED BY <4>3 DEF q
    <3> HIDE DEF W
    <3>2. i # 0 /\ j # 0 => /\ W[<<i - 1, j - 1>>] = M[<<i - 1, j - 1>>]
                            /\ W[<<i, j - 1>>] = M[<<i, j - 1>>]
                            /\ W[<<i - 1, j>>] = M[<<i - 1, j>>]
      BY <1>0, <3>1
    <3> QED BY <3>2 DEF Cell
  <2>5. Settled(W, n + 1)
    <3> SUFFICES ASSUME NEW p \in D, p[1] + p[2] < n + 1 PROVE W[p] = Cell(W, a, b, p)
      OBVIOUS
    <3> QED BY <2>4
  <2> HIDE DEF W, D, Settled
  <2> QED BY <2>3, <2>5
<1>3. Len(a) + Len(b) + 1 \in S
  <2> HIDE DEF S
  <2>1. \A n \in Nat : n \in S
    BY <1>1, <1>2, EveryNatural
  <2> QED BY <2>1
<1>4. PICK M \in [D -> Nat] : Settled(M, Len(a) + Len(b) + 1)
  BY <1>3
<1>5. ASSUME NEW p \in D PROVE M[p] = Cell(M, a, b, p)
  <2>1. p[1] + p[2] < Len(a) + Len(b) + 1
    BY DEF Cells
  <2> QED BY <1>4, <2>1
<1>6. M = [p \in D |-> Cell(M, a, b, p)]
  <2> HIDE DEF D
  <2> QED BY <1>5
<1> QED BY <1>6 DEF Filled

LEMMA TableFilled ==
  ASSUME NEW a, NEW b, Len(a) \in Nat, Len(b) \in Nat
  PROVE  Filled(Table(a, b), a, b)
<1>1. \E M : Filled(M, a, b)
  BY TableExists
<1> QED BY <1>1, Zenon DEF Filled, Table, Cell, Cells
LEMMA TableTyped ==
  ASSUME NEW a, NEW b, Len(a) \in Nat, Len(b) \in Nat, NEW M, Filled(M, a, b)
  PROVE  M \in [Cells(a, b) -> Nat]
<1> DEFINE D == Cells(a, b)
           S == {n \in Nat : \A p \in D : p[1] + p[2] < n => M[p] \in Nat}
<1>0. \A p \in D : p[1] \in Nat /\ p[2] \in Nat
  BY DEF Cells
<1>1. 0 \in S
  BY <1>0
<1>2. ASSUME NEW n \in Nat, n \in S PROVE n + 1 \in S
  <2>1. ASSUME NEW p \in D, p[1] + p[2] < n + 1 PROVE M[p] \in Nat
    <3>1. \A q \in D : q[1] + q[2] < p[1] + p[2] => M[q] \in Nat
      BY <1>0, <1>2, <2>1
    <3>2. Cell(M, a, b, p) \in Nat
      BY <3>1, CellTyped
    <3>3. M[p] = Cell(M, a, b, p)
      BY Zenon DEF Filled
    <3> QED BY <3>2, <3>3
  <2> QED BY <2>1
<1>3. \A n \in Nat : n \in S
  <2> HIDE DEF S
  <2> QED BY <1>1, <1>2, EveryNatural
<1>4. ASSUME NEW p \in D PROVE M[p] \in Nat
  <2>1. p[1] + p[2] + 1 \in S
    BY <1>0, <1>3
  <2> QED BY <1>0, <2>1
<1>5. M = [p \in D |-> M[p]]
  BY Zenon DEF Filled
<1> HIDE DEF D
<1>6. M \in [D -> Nat]
  BY <1>4, <1>5
<1> QED BY <1>6 DEF D

(* A table as a relation of neighbouring cells: at (i, j), reached from    *)
(* (h, k) diagonally, from (i, k) and from (h, j).                         *)
At(M, i, j) == M[<<i, j>>]

Rule(same, x, diagonal, left, above) ==
  IF same THEN x = diagonal
  ELSE /\ x <= 1 + diagonal /\ x <= 1 + left /\ x <= 1 + above
       /\ x = 1 + diagonal \/ x = 1 + left \/ x = 1 + above

IsGrid(M, a, b) ==
  /\ \A i \in 0..Len(b), j \in 0..Len(a) : At(M, i, j) \in Nat
  /\ \A j \in 0..Len(a) : At(M, 0, j) = j
  /\ \A i \in 0..Len(b) : At(M, i, 0) = i
  /\ \A h, i \in 0..Len(b), k, j \in 0..Len(a) :
       i = h + 1 /\ j = k + 1 =>
         Rule(b[i] = a[j], At(M, i, j), At(M, h, k), At(M, i, k), At(M, h, j))

LEMMA TableGrid ==
  ASSUME NEW a, NEW b, Len(a) \in Nat, Len(b) \in Nat
  PROVE  IsGrid(Table(a, b), a, b)
<1> DEFINE M == Table(a, b)
           D == Cells(a, b)
<1>1. Filled(M, a, b)
  BY TableFilled
<1>2. M \in [D -> Nat]
  BY <1>1, TableTyped
<1> HIDE DEF M
<1>3. \A p \in D : M[p] = Cell(M, a, b, p)
  BY <1>1, Zenon DEF Filled
<1>4. \A i \in 0..Len(b), j \in 0..Len(a) : <<i, j>> \in D
  BY DEF Cells
<1>5. \A i \in 0..Len(b), j \in 0..Len(a) : At(M, i, j) \in Nat
  BY <1>2, <1>4 DEF At
<1>6. ASSUME NEW j \in 0..Len(a) PROVE At(M, 0, j) = j
  <2>1. M[<<0, j>>] = Cell(M, a, b, <<0, j>>)
    BY <1>3, <1>4
  <2> QED BY <2>1 DEF At, Cell
<1>7. ASSUME NEW i \in 0..Len(b) PROVE At(M, i, 0) = i
  <2>1. M[<<i, 0>>] = Cell(M, a, b, <<i, 0>>)
    BY <1>3, <1>4
  <2> QED BY <2>1 DEF At, Cell
<1>8. ASSUME NEW h \in 0..Len(b), NEW i \in 0..Len(b), NEW k \in 0..Len(a),
             NEW j \in 0..Len(a), i = h + 1, j = k + 1
      PROVE  Rule(b[i] = a[j], At(M, i, j), At(M, h, k), At(M, i, k), At(M, h, j))
  <2>1. M[<<i, j>>] = Cell(M, a, b, <<i, j>>)
    BY <1>3, <1>4
  <2>2. i - 1 = h /\ j - 1 = k /\ i # 0 /\ j # 0
    BY <1>8
  <2> DEFINE d == M[<<h, k>>]
             l == M[<<i, k>>]
             u == M[<<h, j>>]
  <2>3. M[<<i, j>>] = IF b[i] = a[j] THEN d ELSE 1 + Min({d, l, u})
    BY <2>1, <2>2 DEF Cell
  <2>4. d \in Nat /\ l \in Nat /\ u \in Nat
    BY <1>5 DEF At
  <2> DEFINE least == Min({d, l, u})
  <2>5. least \in {d, l, u} /\ least \in Nat /\ least <= d /\ least <= l /\ least <= u
    BY <2>4, MinThree
  <2> HIDE DEF d, l, u, least
  <2>6. Rule(b[i] = a[j], M[<<i, j>>], d, l, u)
    BY <2>3, <2>4, <2>5 DEF Rule, least
  <2> QED BY <2>6 DEF At, d, l, u
<1>9. IsGrid(M, a, b)
  BY <1>5, <1>6, <1>7, <1>8 DEF IsGrid
<1> QED BY <1>9 DEF M

(* What a cell of a grid is.                                               *)
LEMMA GridCell ==
  ASSUME NEW a, NEW b, NEW M, IsGrid(M, a, b), Len(a) \in Nat, Len(b) \in Nat,
         NEW i \in 0..Len(b), NEW j \in 0..Len(a)
  PROVE  /\ At(M, i, j) \in Nat
         /\ i = 0 => At(M, i, j) = j
         /\ j = 0 => At(M, i, j) = i
         /\ i # 0 /\ j # 0 =>
              \E h \in 0..Len(b), k \in 0..Len(a) :
                /\ i = h + 1 /\ j = k + 1 
                /\ Rule(b[i] = a[j], At(M, i, j), At(M, h, k), At(M, i, k), At(M, h, j))
<1>1. At(M, i, j) \in Nat /\ (i = 0 => At(M, i, j) = j) /\ (j = 0 => At(M, i, j) = i)
  BY DEF IsGrid
<1>2. ASSUME i # 0, j # 0
      PROVE  \E h \in 0..Len(b), k \in 0..Len(a) :
                /\ i = h + 1 /\ j = k + 1 
                /\ Rule(b[i] = a[j], At(M, i, j), At(M, h, k), At(M, i, k), At(M, h, j))
  <2>1. PICK h \in 0..Len(b) : i = h + 1
    BY <1>2
  <2>2. PICK k \in 0..Len(a) : j = k + 1
    BY <1>2
  <2>3. Rule(b[i] = a[j], At(M, i, j), At(M, h, k), At(M, i, k), At(M, h, j))
    BY <2>1, <2>2, Zenon DEF IsGrid
  <2> QED BY <2>1, <2>2, <2>3
<1> QED BY <1>1, <1>2

(* Neighbouring cells differ by one at most.                               *)
Smooth(M, a, b) ==
  /\ \A h, i \in 0..Len(b), j \in 0..Len(a) : i = h + 1 =>
       At(M, i, j) <= 1 + At(M, h, j) /\ At(M, h, j) <= 1 + At(M, i, j)
  /\ \A i \in 0..Len(b), k, j \in 0..Len(a) : j = k + 1 =>
       At(M, i, j) <= 1 + At(M, i, k) /\ At(M, i, k) <= 1 + At(M, i, j)

LEMMA GridSmooth ==
  ASSUME NEW a, NEW b, NEW M, IsGrid(M, a, b), Len(a) \in Nat, Len(b) \in Nat
  PROVE  Smooth(M, a, b)
<1> DEFINE R == 0..Len(b)
           C == 0..Len(a)
           Down(h, i, j) == i = h + 1 =>
             At(M, i, j) <= 1 + At(M, h, j) /\ At(M, h, j) <= 1 + At(M, i, j)
           Across(i, k, j) == j = k + 1 =>
             At(M, i, j) <= 1 + At(M, i, k) /\ At(M, i, k) <= 1 + At(M, i, j)
           Even(n) == /\ \A h, i \in R, j \in C : i + j < n => Down(h, i, j)
                      /\ \A i \in R, k, j \in C : i + j < n => Across(i, k, j)
           S == {n \in Nat : Even(n)}
<1>1. 0 \in S
  OBVIOUS
<1>2. ASSUME NEW n \in Nat, n \in S PROVE n + 1 \in S
  <2>1. ASSUME NEW h \in R, NEW i \in R, NEW j \in C, i + j < n + 1, i = h + 1
        PROVE  At(M, i, j) <= 1 + At(M, h, j) /\ At(M, h, j) <= 1 + At(M, i, j)
    <3>1. CASE j = 0
      BY <2>1, <3>1, GridCell
    <3>2. CASE j # 0
      <4>1. PICK k \in C : j = k + 1
        BY <3>2
      <4>2. Rule(b[i] = a[j], At(M, i, j), At(M, h, k), At(M, i, k), At(M, h, j))
        BY <2>1, <4>1, Zenon DEF IsGrid
      <4>3. Down(h, i, k) /\ Across(h, k, j)
        <5>1. i + k < n /\ h + j < n
          BY <2>1, <4>1
        <5> QED BY <1>2, <5>1
      <4>4. /\ At(M, i, j) \in Nat /\ At(M, h, k) \in Nat /\ At(M, i, k) \in Nat
            /\ At(M, h, j) \in Nat
        BY Zenon DEF IsGrid
      <4> QED BY <2>1, <4>1, <4>2, <4>3, <4>4 DEF Rule
    <3> QED BY <3>1, <3>2
  <2>2. ASSUME NEW i \in R, NEW k \in C, NEW j \in C, i + j < n + 1, j = k + 1
        PROVE  At(M, i, j) <= 1 + At(M, i, k) /\ At(M, i, k) <= 1 + At(M, i, j)
    <3>1. CASE i = 0
      BY <2>2, <3>1, GridCell
    <3>2. CASE i # 0
      <4>1. PICK h \in R : i = h + 1
        BY <3>2
      <4>2. Rule(b[i] = a[j], At(M, i, j), At(M, h, k), At(M, i, k), At(M, h, j))
        BY <2>2, <4>1, Zenon DEF IsGrid
      <4>3. Down(h, i, k) /\ Across(h, k, j)
        <5>1. i + k < n /\ h + j < n
          BY <2>2, <4>1
        <5> QED BY <1>2, <5>1
      <4>4. /\ At(M, i, j) \in Nat /\ At(M, h, k) \in Nat /\ At(M, i, k) \in Nat
            /\ At(M, h, j) \in Nat
        BY Zenon DEF IsGrid
      <4> QED BY <2>2, <4>1, <4>2, <4>3, <4>4 DEF Rule
    <3> QED BY <3>1, <3>2
  <2> QED BY <2>1, <2>2
<1>3. \A n \in Nat : n \in S
  <2> HIDE DEF S
  <2> QED BY <1>1, <1>2, EveryNatural
<1>4. Len(a) + Len(b) + 1 \in S
  <2> HIDE DEF S
  <2> QED BY <1>3
<1>5. \A i \in R, j \in C : i + j < Len(a) + Len(b) + 1
  OBVIOUS
<1> QED BY <1>4, <1>5 DEF Smooth

(* One edit, letter by letter: v is w without its p-th letter; v is w but  *)
(* for its p-th letter.                                                    *)
Cut(w, v, p) ==
  /\ p \in 1..Len(w) /\ Len(w) = Len(v) + 1
  /\ \A i \in 1..Len(v) : i < p => v[i] = w[i]
  /\ \A h \in 1..Len(v), i \in 1..Len(w) : h >= p /\ i = h + 1 => v[h] = w[i]

Put(w, v, p) ==
  /\ p \in 1..Len(w) /\ Len(v) = Len(w)
  /\ \A i \in 1..Len(v) : i # p => v[i] = w[i]

(* Tables of one query agree as long as the words do.                      *)
LEMMA SameStart ==
  ASSUME NEW a, NEW b, NEW M, IsGrid(M, a, b), NEW c, NEW W, IsGrid(W, a, c),
         Len(a) \in Nat, Len(b) \in Nat, Len(c) \in Nat,
         NEW t \in Nat, t <= Len(b), t <= Len(c), \A i \in 1..t : b[i] = c[i]
  PROVE  \A i \in 0..t, j \in 0..Len(a) : At(W, i, j) = At(M, i, j)
<1> DEFINE Like(n) == \A i \in 0..t, j \in 0..Len(a) :
                        i + j < n => At(W, i, j) = At(M, i, j)
           S == {n \in Nat : Like(n)}
<1>1. 0 \in S
  OBVIOUS
<1>2. ASSUME NEW n \in Nat, n \in S PROVE n + 1 \in S
  <2>1. ASSUME NEW i \in 0..t, NEW j \in 0..Len(a), i + j < n + 1
        PROVE  At(W, i, j) = At(M, i, j)
    <3>0. i \in 0..Len(b) /\ i \in 0..Len(c)
      OBVIOUS
    <3>1. CASE i = 0 \/ j = 0
      BY <3>0, <3>1, GridCell
    <3>2. CASE i # 0 /\ j # 0
      <4>1. PICK h \in 0..t : i = h + 1
        BY <3>2
      <4>2. PICK k \in 0..Len(a) : j = k + 1
        BY <3>2
      <4>3. h \in 0..Len(b) /\ h \in 0..Len(c)
        OBVIOUS
      <4>4. Rule(b[i] = a[j], At(M, i, j), At(M, h, k), At(M, i, k), At(M, h, j))
        BY <3>0, <4>1, <4>2, <4>3, Zenon DEF IsGrid
      <4>5. Rule(c[i] = a[j], At(W, i, j), At(W, h, k), At(W, i, k), At(W, h, j))
        BY <3>0, <4>1, <4>2, <4>3, Zenon DEF IsGrid
      <4>6. b[i] = c[i]
        BY <3>2
      <4>7. /\ At(W, h, k) = At(M, h, k) /\ At(W, i, k) = At(M, i, k)
            /\ At(W, h, j) = At(M, h, j)
        <5>1. h + k < n /\ i + k < n /\ h + j < n
          BY <2>1, <4>1, <4>2
        <5> QED BY <1>2, <5>1
      <4>8. /\ At(M, i, j) \in Nat /\ At(M, h, k) \in Nat /\ At(M, i, k) \in Nat
            /\ At(M, h, j) \in Nat /\ At(W, i, j) \in Nat
        BY <3>0, <4>3, Zenon DEF IsGrid
      <4> QED BY <4>4, <4>5, <4>6, <4>7, <4>8 DEF Rule
    <3> QED BY <3>1, <3>2
  <2> QED BY <2>1
<1>3. \A n \in Nat : n \in S
  <2> HIDE DEF S
  <2> QED BY <1>1, <1>2, EveryNatural
<1>4. t + Len(a) + 1 \in S
  <2> HIDE DEF S
  <2> QED BY <1>3
<1>5. \A i \in 0..t, j \in 0..Len(a) : i + j < t + Len(a) + 1
  OBVIOUS
<1> QED BY <1>4, <1>5

LEMMA StillAhead ==
  ASSUME NEW x \in Nat, NEW d \in Nat, NEW y \in Nat, NEW e \in Nat,
         x = 1 + d, y <= 1 + e, e <= 1 + d
  PROVE  y <= 1 + x
OBVIOUS

(* Where both words go on alike, a table that was ahead by no more than    *)
(* one stays so: row i + up of W against row i + down of M.                *)
LEMMA SameEnd ==
  ASSUME NEW a, NEW b, NEW M, IsGrid(M, a, b), NEW c, NEW W, IsGrid(W, a, c),
         Len(a) \in Nat, Len(b) \in Nat, Len(c) \in Nat,
         NEW r \in 0..Len(b), NEW s \in 0..Len(c), Len(b) - r = Len(c) - s,
         \A j \in 0..Len(a) : At(W, s, j) <= 1 + At(M, r, j),
         \A x \in 1..Len(b), y \in 1..Len(c) : x > r /\ x - r = y - s => b[x] = c[y]
  PROVE  At(W, Len(c), Len(a)) <= 1 + At(M, Len(b), Len(a))
<1> DEFINE Ahead(n) == \A x \in 0..Len(b), y \in 0..Len(c), j \in 0..Len(a) :
                        /\ x >= r /\ x - r = y - s /\ x + j < n
                        => At(W, y, j) <= 1 + At(M, x, j)
           S == {n \in Nat : Ahead(n)}
<1>1. 0 \in S
  OBVIOUS
<1>2. ASSUME NEW n \in Nat, n \in S PROVE n + 1 \in S
  <2>1. ASSUME NEW x \in 0..Len(b), NEW y \in 0..Len(c), NEW j \in 0..Len(a),
               x >= r, x - r = y - s, x + j < n + 1
        PROVE  At(W, y, j) <= 1 + At(M, x, j)
    <3>1. CASE x = r
      <4>1. y = s
        BY <2>1, <3>1
      <4>2. At(W, s, j) <= 1 + At(M, r, j)
        OBVIOUS
      <4> QED BY <3>1, <4>1, <4>2
    <3>2. CASE x > r /\ j = 0
      <4>1. At(W, y, j) = y /\ At(M, x, j) = x
        BY <3>2, GridCell
      <4>2. At(W, s, 0) = s /\ At(M, r, 0) = r
        BY GridCell
      <4>3. s <= 1 + r
        BY <4>2
      <4> QED BY <2>1, <4>1, <4>3
    <3>3. CASE x > r /\ j # 0
      <4>1. PICK h \in 0..Len(b) : x = h + 1
        BY <3>3
      <4>2. PICK k \in 0..Len(a) : j = k + 1
        BY <3>3
      <4>3. PICK g \in 0..Len(c) : y = g + 1
        BY <2>1, <3>3
      <4>4. Rule(b[x] = a[j], At(M, x, j), At(M, h, k), At(M, x, k), At(M, h, j))
        BY <4>1, <4>2, Zenon DEF IsGrid
      <4>5. Rule(c[y] = a[j], At(W, y, j), At(W, g, k), At(W, y, k), At(W, g, j))
        BY <4>2, <4>3, Zenon DEF IsGrid
      <4>6. b[x] = c[y]
        <5>1. x \in 1..Len(b) /\ y \in 1..Len(c)
          BY <4>1, <4>3
        <5> QED BY <2>1, <3>3, <5>1
      <4>7. /\ At(W, g, k) <= 1 + At(M, h, k) /\ At(W, y, k) <= 1 + At(M, x, k)
            /\ At(W, g, j) <= 1 + At(M, h, j)
        <5>1. h + k < n /\ x + k < n /\ h + j < n
          BY <2>1, <4>1, <4>2
        <5>2. h >= r /\ h - r = g - s
          BY <2>1, <3>3, <4>1, <4>3
        <5> QED BY <1>2, <2>1, <5>1, <5>2
      <4>8. /\ At(M, x, j) \in Nat /\ At(M, h, k) \in Nat /\ At(M, x, k) \in Nat
            /\ At(M, h, j) \in Nat
            /\ At(W, y, j) \in Nat /\ At(W, g, k) \in Nat /\ At(W, y, k) \in Nat
            /\ At(W, g, j) \in Nat
        BY Zenon DEF IsGrid
      <4>9. Rule(b[x] = a[j], At(W, y, j), At(W, g, k), At(W, y, k), At(W, g, j))
        BY <4>5, <4>6, Zenon
      <4>10. CASE b[x] = a[j]
        <5>1. At(W, y, j) = At(W, g, k) /\ At(M, x, j) = At(M, h, k)
          BY <4>4, <4>9, <4>10, Zenon DEF Rule
        <5> QED BY <4>7, <5>1
      <4>11. CASE b[x] # a[j]
        <5>1. /\ \/ At(M, x, j) = 1 + At(M, h, k) \/ At(M, x, j) = 1 + At(M, x, k)
                 \/ At(M, x, j) = 1 + At(M, h, j)
              /\ At(W, y, j) <= 1 + At(W, g, k) /\ At(W, y, j) <= 1 + At(W, y, k)
              /\ At(W, y, j) <= 1 + At(W, g, j)
          BY <4>4, <4>9, <4>11, Zenon DEF Rule
        <5>2. CASE At(M, x, j) = 1 + At(M, h, k)
          BY <4>7, <4>8, <5>1, <5>2, StillAhead, Zenon
        <5>3. CASE At(M, x, j) = 1 + At(M, x, k)
          BY <4>7, <4>8, <5>1, <5>3, StillAhead, Zenon
        <5>4. CASE At(M, x, j) = 1 + At(M, h, j)
          BY <4>7, <4>8, <5>1, <5>4, StillAhead, Zenon
        <5> QED BY <5>1, <5>2, <5>3, <5>4
      <4> QED BY <4>10, <4>11
    <3> QED BY <2>1, <3>1, <3>2, <3>3
  <2> QED BY <2>1
<1>3. \A n \in Nat : n \in S
  <2> HIDE DEF S
  <2> QED BY <1>1, <1>2, EveryNatural
<1>4. Len(b) + Len(a) + 1 \in S
  <2> HIDE DEF S
  <2> QED BY <1>3
<1>5. Ahead(Len(b) + Len(a) + 1)
  BY <1>4
<1> HIDE DEF S
<1>6. Len(b) >= r /\ Len(b) + Len(a) < Len(b) + Len(a) + 1
  OBVIOUS
<1> QED BY <1>5, <1>6

One(w, v) == \E p \in Nat : Cut(w, v, p) \/ Cut(v, w, p) \/ Put(w, v, p)

(* One edit of the word brings it no further than one edit more.           *)
LEMMA OneFarther ==
  ASSUME NEW a, NEW b, NEW M, IsGrid(M, a, b), NEW c, NEW W, IsGrid(W, a, c),
         Len(a) \in Nat, Len(b) \in Nat, Len(c) \in Nat, One(b, c)
  PROVE  At(W, Len(c), Len(a)) <= 1 + At(M, Len(b), Len(a))
<1>0. Smooth(M, a, b) /\ Smooth(W, a, c)
  BY GridSmooth
<1>1. ASSUME NEW p \in Nat, Cut(b, c, p)
      PROVE  At(W, Len(c), Len(a)) <= 1 + At(M, Len(b), Len(a))
  <2>0. PICK t \in Nat : p = t + 1
    BY <1>1 DEF Cut
  <2>1. t <= Len(b) /\ t <= Len(c) /\ p \in 0..Len(b) /\ t \in 0..Len(c)
        /\ t \in 0..Len(b)
    BY <1>1, <2>0 DEF Cut
  <2>2. \A i \in 1..t : b[i] = c[i]
    BY <1>1, <2>0, <2>1 DEF Cut
  <2>3. \A i \in 0..t, j \in 0..Len(a) : At(W, i, j) = At(M, i, j)
    BY <2>1, <2>2, SameStart
  <2>4. ASSUME NEW j \in 0..Len(a) PROVE At(W, t, j) <= 1 + At(M, p, j)
    <3>1. At(W, t, j) = At(M, t, j)
      BY <2>3
    <3>2. At(M, t, j) <= 1 + At(M, p, j)
      BY <1>0, <2>0, <2>1 DEF Smooth
    <3> QED BY <3>1, <3>2
  <2>5. Len(b) - p = Len(c) - t
    BY <1>1, <2>0 DEF Cut
  <2>6. ASSUME NEW x \in 1..Len(b), NEW y \in 1..Len(c), x > p, x - p = y - t
        PROVE  b[x] = c[y]
    <3>1. y >= p /\ x = y + 1
      BY <2>0, <2>6
    <3> QED BY <1>1, <3>1 DEF Cut
  <2> QED BY <2>1, <2>4, <2>5, <2>6, SameEnd
<1>2. ASSUME NEW p \in Nat, Cut(c, b, p)
      PROVE  At(W, Len(c), Len(a)) <= 1 + At(M, Len(b), Len(a))
  <2>0. PICK t \in Nat : p = t + 1
    BY <1>2 DEF Cut
  <2>1. t <= Len(b) /\ t <= Len(c) /\ p \in 0..Len(c) /\ t \in 0..Len(b)
        /\ t \in 0..Len(c)
    BY <1>2, <2>0 DEF Cut
  <2>2. \A i \in 1..t : b[i] = c[i]
    BY <1>2, <2>0, <2>1 DEF Cut
  <2>3. \A i \in 0..t, j \in 0..Len(a) : At(W, i, j) = At(M, i, j)
    BY <2>1, <2>2, SameStart
  <2>4. ASSUME NEW j \in 0..Len(a) PROVE At(W, p, j) <= 1 + At(M, t, j)
    <3>1. At(W, t, j) = At(M, t, j)
      BY <2>3
    <3>2. At(W, p, j) <= 1 + At(W, t, j)
      BY <1>0, <2>0, <2>1 DEF Smooth
    <3> QED BY <3>1, <3>2
  <2>5. Len(b) - t = Len(c) - p
    BY <1>2, <2>0 DEF Cut
  <2>6. ASSUME NEW x \in 1..Len(b), NEW y \in 1..Len(c), x > t, x - t = y - p
        PROVE  b[x] = c[y]
    <3>1. x >= p /\ y = x + 1
      BY <2>0, <2>6
    <3> QED BY <1>2, <3>1 DEF Cut
  <2> QED BY <2>1, <2>4, <2>5, <2>6, SameEnd
<1>3. ASSUME NEW p \in Nat, Put(b, c, p)
      PROVE  At(W, Len(c), Len(a)) <= 1 + At(M, Len(b), Len(a))
  <2>0. PICK t \in Nat : p = t + 1
    BY <1>3 DEF Put
  <2>1. t <= Len(b) /\ t <= Len(c) /\ p \in 0..Len(b) /\ p \in 0..Len(c)
        /\ t \in 0..Len(b) /\ t \in 0..Len(c)
    BY <1>3, <2>0 DEF Put
  <2>2. \A i \in 1..t : b[i] = c[i]
    BY <1>3, <2>0, <2>1 DEF Put
  <2>3. \A i \in 0..t, j \in 0..Len(a) : At(W, i, j) = At(M, i, j)
    BY <2>1, <2>2, SameStart
  <2> DEFINE Good(j) == At(W, p, j) <= 1 + At(M, p, j)
             S == {j \in Nat : j \in 0..Len(a) => Good(j)}
  <2>4. 0 \in S
    <3>1. At(W, p, 0) = p /\ At(M, p, 0) = p
      BY <2>1, GridCell
    <3> QED BY <3>1
  <2>5. ASSUME NEW k \in Nat, k \in S PROVE k + 1 \in S
    <3> SUFFICES ASSUME NEW j \in 0..Len(a), j = k + 1 PROVE Good(j)
      OBVIOUS
    <3>0. k \in 0..Len(a)
      OBVIOUS
    <3>1. At(W, t, k) = At(M, t, k) /\ At(W, t, j) = At(M, t, j)
      BY <2>3, <3>0
    <3>2. Rule(b[p] = a[j], At(M, p, j), At(M, t, k), At(M, p, k), At(M, t, j))
      BY <2>0, <2>1, <3>0, Zenon DEF IsGrid
    <3>3. Rule(c[p] = a[j], At(W, p, j), At(W, t, k), At(W, p, k), At(W, t, j))
      BY <2>0, <2>1, <3>0, Zenon DEF IsGrid
    <3>4. At(W, p, k) <= 1 + At(M, p, k)
      BY <2>5, <3>0
    <3>5. At(W, p, j) <= 1 + At(W, t, j) /\ At(W, p, j) <= 1 + At(W, p, k)
      BY <1>0, <2>0, <2>1, <3>0 DEF Smooth
    <3>6. /\ At(M, p, j) \in Nat /\ At(M, t, k) \in Nat /\ At(M, p, k) \in Nat
          /\ At(M, t, j) \in Nat /\ At(W, p, j) \in Nat /\ At(W, p, k) \in Nat
      BY <2>1, <3>0, Zenon DEF IsGrid
    <3>7. CASE At(M, p, j) = 1 + At(M, p, k)
      BY <3>4, <3>5, <3>6, <3>7
    <3>8. CASE At(M, p, j) = 1 + At(M, t, j)
      BY <3>1, <3>5, <3>6, <3>8
    <3>9. CASE At(M, p, j) \in {At(M, t, k), 1 + At(M, t, k)}
      <4>1. At(W, p, j) <= 1 + At(M, t, k)
        BY <3>1, <3>3, <3>6 DEF Rule
      <4> QED BY <3>6, <3>9, <4>1
    <3> QED BY <3>2, <3>7, <3>8, <3>9 DEF Rule
  <2>6. \A j \in Nat : j \in S
    <3> HIDE DEF S
    <3> QED BY <2>4, <2>5, EveryNatural
  <2>7. \A j \in 0..Len(a) : At(W, p, j) <= 1 + At(M, p, j)
    BY <2>6
  <2>8. Len(b) - p = Len(c) - p
    BY <1>3 DEF Put
  <2>9. ASSUME NEW x \in 1..Len(b), NEW y \in 1..Len(c), x > p, x - p = y - p
        PROVE  b[x] = c[y]
    <3>1. x # p /\ x = y
      BY <2>9
    <3> QED BY <1>3, <3>1 DEF Put
  <2> QED BY <2>1, <2>7, <2>8, <2>9, SameEnd
<1> QED BY <1>1, <1>2, <1>3 DEF One

(* A word is no edit away from itself.                                     *)
LEMMA NoneAway ==
  ASSUME NEW a, NEW M, IsGrid(M, a, a), Len(a) \in Nat
  PROVE  At(M, Len(a), Len(a)) = 0
<1> DEFINE S == {n \in Nat : n <= Len(a) => At(M, n, n) = 0}
<1>1. 0 \in S
  BY GridCell
<1>2. ASSUME NEW h \in Nat, h \in S PROVE h + 1 \in S
  <2> SUFFICES ASSUME NEW i \in 0..Len(a), i = h + 1 PROVE At(M, i, i) = 0
    OBVIOUS
  <2>1. h \in 0..Len(a) /\ At(M, h, h) = 0
    BY <1>2
  <2>2. Rule(a[i] = a[i], At(M, i, i), At(M, h, h), At(M, i, h), At(M, h, i))
    BY <2>1, Zenon DEF IsGrid
  <2> QED BY <2>1, <2>2 DEF Rule
<1>3. \A n \in Nat : n \in S
  <2> HIDE DEF S
  <2> QED BY <1>1, <1>2, EveryNatural
<1> QED BY <1>3

(* v is q with c put before its n-th element.                              *)
Inserted(v, q, n, c, S) ==
  /\ v \in Seq(S)
  /\ Len(v) = Len(q) + 1
  /\ \A i \in 1..Len(q) : i < n => v[i] = q[i]
  /\ v[n] = c
  /\ \A h \in 1..Len(q), i \in 1..(Len(q) + 1) : h >= n /\ i = h + 1 => v[i] = q[h]

LEMMA InsertAtProperties ==
  ASSUME NEW S, NEW q \in Seq(S), NEW n \in 1..(Len(q) + 1), NEW c \in S
  PROVE  Inserted(InsertAt(q, n, c), q, n, c, S)
<1> DEFINE a == SubSeq(q, 1, n - 1)
           b == SubSeq(q, n, Len(q))
<1>0. Len(q) \in Nat /\ \A i \in 1..Len(q) : q[i] \in S
  BY ElementOfSeq, LenProperties
<1>1. a \in Seq(S) /\ Len(a) = n - 1 /\ \A i \in 1..(n - 1) : a[i] = q[i]
  <2>1. 1 \in Int /\ n - 1 \in Int /\ \A i \in 1..(n - 1) : q[i] \in S
    BY <1>0
  <2>2. /\ a \in Seq(S)
        /\ Len(a) = IF 1 <= n - 1 THEN n - 1 - 1 + 1 ELSE 0
        /\ \A i \in 1..(n - 1 - 1 + 1) : a[i] = q[1 + i - 1]
    BY <2>1, SubSeqProperties
  <2> QED BY <2>2, <1>0
<1>2. /\ b \in Seq(S) /\ Len(b) = Len(q) - n + 1
      /\ \A i \in 1..(Len(q) - n + 1) : b[i] = q[n + i - 1]
  <2>1. n \in Int /\ Len(q) \in Int /\ \A i \in n..Len(q) : q[i] \in S
    BY <1>0
  <2>2. /\ b \in Seq(S)
        /\ Len(b) = IF n <= Len(q) THEN Len(q) - n + 1 ELSE 0
        /\ \A i \in 1..(Len(q) - n + 1) : b[i] = q[n + i - 1]
    BY <2>1, SubSeqProperties
  <2> QED BY <2>2, <1>0
<1> HIDE DEF a, b
<1>3. <<c>> \in Seq(S) /\ Len(<<c>>) = 1 /\ <<c>>[1] = c
  OBVIOUS
<1> DEFINE d == a \o <<c>>
<1>4. /\ d \in Seq(S) /\ Len(d) = n
      /\ \A i \in 1..n : d[i] = IF i < n THEN q[i] ELSE c
  <2>1. /\ d \in Seq(S) /\ Len(d) = Len(a) + 1
        /\ \A i \in 1..(Len(a) + 1) : d[i] = IF i <= Len(a) THEN a[i] ELSE <<c>>[i - Len(a)]
    BY <1>1, <1>3, ConcatProperties
  <2> HIDE DEF d
  <2> QED BY <1>1, <1>3, <2>1
<1> HIDE DEF d
<1>5. /\ d \o b \in Seq(S) /\ Len(d \o b) = Len(d) + Len(b)
      /\ \A i \in 1..(Len(d) + Len(b)) :
            (d \o b)[i] = IF i <= Len(d) THEN d[i] ELSE b[i - Len(d)]
  BY <1>2, <1>4, ConcatProperties
<1>6. InsertAt(q, n, c) = d \o b
  BY DEF InsertAt, a, b, d
<1>7. ASSUME NEW i \in 1..Len(q), i < n PROVE (d \o b)[i] = q[i]
  BY <1>0, <1>2, <1>4, <1>5, <1>7
<1>8. (d \o b)[n] = c
  BY <1>0, <1>2, <1>4, <1>5
<1>9. ASSUME NEW h \in 1..Len(q), NEW i \in 1..(Len(q) + 1), h >= n, i = h + 1
      PROVE  (d \o b)[i] = q[h]
  <2>1. PICK k \in 1..(Len(q) - n + 1) : k = i - n
    BY <1>0, <1>9
  <2>2. (d \o b)[i] = b[k]
    BY <1>0, <1>2, <1>4, <1>5, <1>9, <2>1
  <2>3. n + k - 1 = h
    BY <1>9, <2>1
  <2> QED BY <1>2, <2>2, <2>3
<1>10. Len(d \o b) = Len(q) + 1
  BY <1>0, <1>2, <1>4, <1>5
<1>11. Inserted(d \o b, q, n, c, S)
  BY <1>5, <1>7, <1>8, <1>9, <1>10 DEF Inserted
<1> QED BY <1>6, <1>11

(* OneEdit letter by letter.                                               *)
LEMMA OneEditIs ==
  ASSUME NEW L, NEW w \in Seq(L), NEW v \in OneEdit(w, L)
  PROVE  v \in Seq(L) /\ One(w, v)
<1>0. Len(w) \in Nat /\ DOMAIN w = 1..Len(w) /\ \A i \in 1..Len(w) : w[i] \in L
  BY ElementOfSeq, LenProperties
<1>1. ASSUME NEW i \in 1..Len(w), v = RemoveAt(w, i) PROVE v \in Seq(L) /\ One(w, v)
  <2>1. /\ v \in Seq(L) /\ Len(v) = Len(w) - 1
        /\ \A k \in 1..(Len(w) - 1) : v[k] = IF k < i THEN w[k] ELSE w[k + 1]
    BY <1>1, RemoveAtProperties
  <2>2. Cut(w, v, i)
    BY <1>0, <2>1 DEF Cut
  <2> QED BY <2>1, <2>2 DEF One
<1>2. ASSUME NEW i \in 1..(Len(w) + 1), NEW c \in L, v = InsertAt(w, i, c)
      PROVE  v \in Seq(L) /\ One(w, v)
  <2>1. Inserted(v, w, i, c, L)
    BY <1>2, InsertAtProperties
  <2>2. Cut(v, w, i)
    BY <1>0, <2>1 DEF Cut, Inserted
  <2> QED BY <2>1, <2>2 DEF One, Inserted
<1>3. ASSUME NEW i \in 1..Len(w), NEW c \in L, v = ReplaceAt(w, i, c)
      PROVE  v \in Seq(L) /\ One(w, v)
  <2>1. v = [w EXCEPT ![i] = c]
    BY <1>3 DEF ReplaceAt
  <2>2. v \in Seq(L) /\ Len(v) = Len(w)
    BY <1>0, <2>1, ExceptSeq
  <2>3. \A k \in 1..Len(w) : k # i => v[k] = w[k]
    BY <1>0, <2>1
  <2>4. Put(w, v, i)
    BY <1>0, <2>2, <2>3 DEF Put
  <2> QED BY <2>2, <2>4 DEF One
<1> QED BY <1>0, <1>1, <1>2, <1>3 DEF OneEdit

LEMMA IsOneEdit ==
  ASSUME NEW L, NEW w \in Seq(L), NEW v \in Seq(L), One(w, v)
  PROVE  v \in OneEdit(w, L)
<1>0. /\ Len(w) \in Nat /\ DOMAIN w = 1..Len(w) /\ \A i \in 1..Len(w) : w[i] \in L
      /\ Len(v) \in Nat /\ DOMAIN v = 1..Len(v) /\ \A i \in 1..Len(v) : v[i] \in L
  BY ElementOfSeq, LenProperties
<1>1. ASSUME NEW p \in Nat, Cut(w, v, p) PROVE v \in OneEdit(w, L)
  <2>1. p \in 1..Len(w) /\ Len(v) = Len(w) - 1
    BY <1>0, <1>1 DEF Cut
  <2> DEFINE u == RemoveAt(w, p)
  <2>2. /\ u \in Seq(L) /\ Len(u) = Len(w) - 1
        /\ \A k \in 1..(Len(w) - 1) : u[k] = IF k < p THEN w[k] ELSE w[k + 1]
    BY <2>1, RemoveAtProperties
  <2> HIDE DEF u
  <2>3. ASSUME NEW k \in 1..Len(v) PROVE v[k] = u[k]
    <3>1. PICK i \in 1..Len(w) : i = k + 1
      BY <2>1
    <3> QED BY <1>1, <2>1, <2>2, <3>1 DEF Cut
  <2>4. v = u
    BY <2>1, <2>2, <2>3, SeqEqual
  <2> QED BY <1>0, <2>1, <2>4 DEF OneEdit, u
<1>2. ASSUME NEW p \in Nat, Cut(v, w, p) PROVE v \in OneEdit(w, L)
  <2>1. p \in 1..(Len(w) + 1) /\ Len(v) = Len(w) + 1 /\ v[p] \in L
    BY <1>0, <1>2 DEF Cut
  <2> DEFINE u == InsertAt(w, p, v[p])
  <2>2. /\ u \in Seq(L) /\ Len(u) = Len(w) + 1
        /\ \A k \in 1..Len(w) : k < p => u[k] = w[k]
        /\ u[p] = v[p]
        /\ \A h \in 1..Len(w), k \in 1..(Len(w) + 1) : h >= p /\ k = h + 1 => u[k] = w[h]
    <3>1. Inserted(u, w, p, v[p], L)
      BY <2>1, InsertAtProperties
    <3> QED BY <3>1, Zenon DEF Inserted
  <2> HIDE DEF u
  <2>3. ASSUME NEW k \in 1..Len(v) PROVE v[k] = u[k]
    <3>1. CASE k < p
      <4>1. k \in 1..Len(w)
        BY <2>1, <3>1
      <4> QED BY <1>2, <2>1, <2>2, <3>1, <4>1 DEF Cut
    <3>2. CASE k = p
      BY <2>1, <2>2, <3>2
    <3>3. CASE k > p
      <4>1. PICK h \in 1..Len(w) : k = h + 1
        BY <2>1, <3>3
      <4>2. h >= p
        BY <3>3, <4>1
      <4>3. w[h] = v[k]
        BY <1>2, <4>1, <4>2 DEF Cut
      <4>4. k \in 1..(Len(w) + 1)
        BY <2>1
      <4> QED BY <2>2, <4>1, <4>2, <4>3, <4>4
    <3> QED BY <2>1, <3>1, <3>2, <3>3
  <2>4. v = u
    BY <2>1, <2>2, <2>3, SeqEqual
  <2> QED BY <1>0, <2>1, <2>4 DEF OneEdit, u
<1>3. ASSUME NEW p \in Nat, Put(w, v, p) PROVE v \in OneEdit(w, L)
  <2>1. p \in 1..Len(w) /\ Len(v) = Len(w) /\ v[p] \in L
    BY <1>0, <1>3 DEF Put
  <2> DEFINE u == [w EXCEPT ![p] = v[p]]
  <2>2. u \in Seq(L) /\ Len(u) = Len(w)
    BY <1>0, <2>1, ExceptSeq
  <2>3. \A k \in 1..Len(v) : u[k] = v[k]
    BY <1>0, <1>3, <2>1 DEF Put
  <2> HIDE DEF u
  <2>4. v = u
    BY <2>1, <2>2, <2>3, SeqEqual
  <2>5. v = ReplaceAt(w, p, v[p])
    BY <2>4 DEF u, ReplaceAt
  <2> QED BY <1>0, <2>1, <2>5 DEF OneEdit
<1> QED BY <1>1, <1>2, <1>3 DEF One

(* Words that go on with the same letter are no more edits apart.          *)
LEMMA OneMoreLetter ==
  ASSUME NEW L, NEW u \in Seq(L), NEW v \in Seq(L), NEW c \in L, One(u, v)
  PROVE  One(Append(u, c), Append(v, c))
<1> DEFINE x == Append(u, c)
           y == Append(v, c)
<1>1. /\ Len(u) \in Nat /\ Len(x) = Len(u) + 1
      /\ \A i \in 1..Len(u) : x[i] = u[i]
      /\ x[Len(u) + 1] = c
  BY LenProperties, AppendProperties
<1>2. /\ Len(v) \in Nat /\ Len(y) = Len(v) + 1
      /\ \A i \in 1..Len(v) : y[i] = v[i]
      /\ y[Len(v) + 1] = c
  BY LenProperties, AppendProperties
<1> HIDE DEF x, y
<1>3. ASSUME NEW p \in Nat, Cut(u, v, p) PROVE Cut(x, y, p)
  <2>1. p \in 1..Len(x) /\ Len(x) = Len(y) + 1 /\ Len(u) = Len(v) + 1
    BY <1>1, <1>2, <1>3 DEF Cut
  <2>2. ASSUME NEW i \in 1..Len(y), i < p PROVE y[i] = x[i]
    <3>1. i \in 1..Len(v) /\ i \in 1..Len(u)
      BY <1>1, <1>2, <1>3, <2>1, <2>2 DEF Cut
    <3> QED BY <1>1, <1>2, <1>3, <2>2, <3>1 DEF Cut
  <2>3. ASSUME NEW h \in 1..Len(y), NEW i \in 1..Len(x), h >= p, i = h + 1
        PROVE  y[h] = x[i]
    <3>1. CASE h = Len(v) + 1
      BY <1>1, <1>2, <2>1, <2>3, <3>1
    <3>2. CASE h # Len(v) + 1
      <4>1. h \in 1..Len(v) /\ i \in 1..Len(u)
        BY <1>1, <1>2, <2>1, <2>3, <3>2
      <4> QED BY <1>1, <1>2, <1>3, <2>3, <4>1 DEF Cut
    <3> QED BY <3>1, <3>2
  <2> QED BY <2>1, <2>2, <2>3 DEF Cut
<1>4. ASSUME NEW p \in Nat, Cut(v, u, p) PROVE Cut(y, x, p)
  <2>1. p \in 1..Len(y) /\ Len(y) = Len(x) + 1 /\ Len(v) = Len(u) + 1
    BY <1>1, <1>2, <1>4 DEF Cut
  <2>2. ASSUME NEW i \in 1..Len(x), i < p PROVE x[i] = y[i]
    <3>1. i \in 1..Len(v) /\ i \in 1..Len(u)
      BY <1>1, <1>2, <1>4, <2>1, <2>2 DEF Cut
    <3> QED BY <1>1, <1>2, <1>4, <2>2, <3>1 DEF Cut
  <2>3. ASSUME NEW h \in 1..Len(x), NEW i \in 1..Len(y), h >= p, i = h + 1
        PROVE  x[h] = y[i]
    <3>1. CASE h = Len(u) + 1
      BY <1>1, <1>2, <2>1, <2>3, <3>1
    <3>2. CASE h # Len(u) + 1
      <4>1. h \in 1..Len(u) /\ i \in 1..Len(v)
        BY <1>1, <1>2, <2>1, <2>3, <3>2
      <4> QED BY <1>1, <1>2, <1>4, <2>3, <4>1 DEF Cut
    <3> QED BY <3>1, <3>2
  <2> QED BY <2>1, <2>2, <2>3 DEF Cut
<1>5. ASSUME NEW p \in Nat, Put(u, v, p) PROVE Put(x, y, p)
  <2>1. p \in 1..Len(x) /\ Len(x) = Len(y) /\ Len(u) = Len(v)
    BY <1>1, <1>2, <1>5 DEF Put
  <2>2. ASSUME NEW i \in 1..Len(y), i # p PROVE y[i] = x[i]
    <3>1. CASE i = Len(v) + 1
      BY <1>1, <1>2, <2>1, <3>1
    <3>2. CASE i # Len(v) + 1
      <4>1. i \in 1..Len(v) /\ i \in 1..Len(u)
        BY <1>1, <1>2, <2>1, <3>2
      <4> QED BY <1>1, <1>2, <1>5, <2>2, <4>1 DEF Put
    <3> QED BY <3>1, <3>2
  <2> QED BY <2>1, <2>2 DEF Put
<1>6. One(x, y)
  BY <1>3, <1>4, <1>5 DEF One
<1> QED BY <1>6 DEF x, y

(* One letter less at the end, one more, or another one, is one edit.      *)
LEMMA LastLetter ==
  ASSUME NEW L, NEW u \in Seq(L), NEW c \in L, NEW d \in L
  PROVE  /\ One(Append(u, c), u) /\ One(u, Append(u, c))
         /\ One(Append(u, c), Append(u, d))
<1> DEFINE x == Append(u, c)
           y == Append(u, d)
<1>1. /\ Len(u) \in Nat /\ Len(x) = Len(u) + 1
      /\ \A i \in 1..Len(u) : x[i] = u[i]
  BY LenProperties, AppendProperties
<1>2. /\ Len(y) = Len(u) + 1
      /\ \A i \in 1..Len(u) : y[i] = u[i]
  BY LenProperties, AppendProperties
<1> HIDE DEF x, y
<1>3. Cut(x, u, Len(u) + 1)
  BY <1>1 DEF Cut
<1>4. Put(x, y, Len(u) + 1)
  BY <1>1, <1>2 DEF Put
<1>5. Len(u) + 1 \in Nat
  BY <1>1
<1>6. One(x, u) /\ One(u, x) /\ One(x, y)
  BY <1>3, <1>4, <1>5 DEF One
<1> QED BY <1>6 DEF x, y

Start(w, i) == SubSeq(w, 1, i)

LEMMA StartIs ==
  ASSUME NEW L, NEW w \in Seq(L)
  PROVE  /\ Start(w, 0) = <<>> /\ Start(w, Len(w)) = w
         /\ \A i \in 0..Len(w) : Start(w, i) \in Seq(L)
         /\ \A h, i \in 0..Len(w) : i = h + 1 =>
              w[i] \in L /\ Start(w, i) = Append(Start(w, h), w[i])
<1>0. Len(w) \in Nat /\ \A i \in 1..Len(w) : w[i] \in L
  BY ElementOfSeq, LenProperties
<1>1. ASSUME NEW i \in 0..Len(w)
      PROVE  /\ Start(w, i) \in Seq(L) /\ Len(Start(w, i)) = i
             /\ \A k \in 1..i : Start(w, i)[k] = w[k]
  <2>1. 1 \in Int /\ i \in Int /\ \A k \in 1..i : w[k] \in L
    BY <1>0
  <2>2. /\ SubSeq(w, 1, i) \in Seq(L)
        /\ Len(SubSeq(w, 1, i)) = IF 1 <= i THEN i - 1 + 1 ELSE 0
        /\ \A k \in 1..(i - 1 + 1) : SubSeq(w, 1, i)[k] = w[1 + k - 1]
    BY <2>1, SubSeqProperties
  <2> DEFINE v == SubSeq(w, 1, i)
  <2>3. v \in Seq(L) /\ Len(v) = i /\ \A k \in 1..i : v[k] = w[1 + k - 1]
    BY <1>0, <2>2
  <2> HIDE DEF v
  <2>4. ASSUME NEW k \in 1..i PROVE v[k] = w[k]
    <3>1. 1 + k - 1 = k
      OBVIOUS
    <3> QED BY <2>3, <3>1
  <2> QED BY <2>3, <2>4 DEF v, Start
<1>2. Start(w, 0) = <<>>
  BY <1>0, <1>1, EmptySeq
<1>3. Start(w, Len(w)) = w
  <2> DEFINE v == Start(w, Len(w))
  <2>1. v \in Seq(L) /\ Len(v) = Len(w) /\ \A k \in 1..Len(v) : v[k] = w[k]
    BY <1>0, <1>1
  <2> HIDE DEF v
  <2>2. v = w
    BY <2>1, SeqEqual
  <2> QED BY <2>2 DEF v
<1>4. ASSUME NEW h \in 0..Len(w), NEW i \in 0..Len(w), i = h + 1
      PROVE  w[i] \in L /\ Start(w, i) = Append(Start(w, h), w[i])
  <2> DEFINE u == Start(w, h)
             v == Start(w, i)
             x == Append(u, w[i])
  <2>0. w[i] \in L
    BY <1>0, <1>4
  <2>1. /\ u \in Seq(L) /\ Len(u) = h /\ \A k \in 1..h : u[k] = w[k]
        /\ v \in Seq(L) /\ Len(v) = i /\ \A k \in 1..i : v[k] = w[k]
    BY <1>1
  <2> HIDE DEF u, v
  <2>2. /\ x \in Seq(L) /\ Len(x) = Len(u) + 1
        /\ \A k \in 1..Len(u) : x[k] = u[k]
        /\ x[Len(u) + 1] = w[i]
    BY <2>0, <2>1, AppendProperties
  <2> HIDE DEF x
  <2>3. Len(x) = i
    BY <1>4, <2>1, <2>2
  <2>4. ASSUME NEW k \in 1..i PROVE v[k] = x[k]
    <3>1. CASE k = i
      BY <1>4, <2>1, <2>2, <3>1
    <3>2. CASE k # i
      <4>1. k \in 1..h
        BY <1>4, <3>2
      <4> QED BY <2>1, <2>2, <4>1
    <3> QED BY <3>1, <3>2
  <2>5. v = x
    BY <2>1, <2>2, <2>3, <2>4, SeqEqual
  <2> QED BY <2>0, <2>5 DEF u, v, x
<1> QED BY <1>1, <1>2, <1>3, <1>4

(* v is at most k edits away from u, for no more than two.                 *)
Once(u, v) == u = v \/ One(u, v)
Within(k, u, v, L) ==
  IF k = 0 THEN u = v
  ELSE IF k = 1 THEN Once(u, v)
  ELSE \E t \in Seq(L) : Once(u, t) /\ Once(t, v)

LEMMA WithinItself ==
  ASSUME NEW L, NEW u \in Seq(L), NEW k \in 0..2
  PROVE  Within(k, u, u, L)
BY DEF Within, Once

LEMMA WithinOneMore ==
  ASSUME NEW L, NEW u \in Seq(L), NEW v \in Seq(L), NEW t \in Seq(L), NEW k \in 0..1,
         Once(u, t), Within(k, t, v, L)
  PROVE  Within(k + 1, u, v, L)
<1>1. CASE k = 0
  <2>1. k + 1 = 1 /\ t = v
    BY <1>1 DEF Within
  <2> QED BY <2>1 DEF Within
<1>2. CASE k = 1
  <2>1. k + 1 = 2 /\ Once(t, v)
    BY <1>2 DEF Within
  <2> QED BY <2>1 DEF Within
<1> QED BY <1>1, <1>2

LEMMA WithinOnward ==
  ASSUME NEW L, NEW u \in Seq(L), NEW v \in Seq(L), NEW c \in L, NEW k \in 0..2,
         Within(k, u, v, L)
  PROVE  Within(k, Append(u, c), Append(v, c), L)
<1>1. ASSUME NEW x \in Seq(L), NEW y \in Seq(L), Once(x, y)
      PROVE  Once(Append(x, c), Append(y, c))
  BY <1>1, OneMoreLetter DEF Once
<1>2. CASE k = 0
  BY <1>2 DEF Within
<1>3. CASE k = 1
  BY <1>1, <1>3 DEF Within
<1>4. CASE k = 2
  <2>1. PICK t \in Seq(L) : Once(u, t) /\ Once(t, v)
    BY <1>4 DEF Within
  <2>2. Append(t, c) \in Seq(L)
    BY AppendProperties
  <2>3. Once(Append(u, c), Append(t, c)) /\ Once(Append(t, c), Append(v, c))
    BY <1>1, <2>1
  <2>4. \E z \in Seq(L) : Once(Append(u, c), z) /\ Once(z, Append(v, c))
    BY <2>2, <2>3
  <2> QED BY <1>4, <2>4 DEF Within
<1> QED BY <1>2, <1>3, <1>4

(* No cell promises less than it takes: what it counts is enough to make   *)
(* the one start of a word of the other.                                   *)
LEMMA CellsReach ==
  ASSUME NEW L, NEW a \in Seq(L), NEW b \in Seq(L), NEW M, IsGrid(M, a, b)
  PROVE  \A k \in 0..2 :
           At(M, Len(b), Len(a)) <= k => Within(k, a, b, L)
<1> DEFINE R == 0..Len(b)
           C == 0..Len(a)
           Kept(i, j) == \A k \in 0..2 :
             At(M, i, j) <= k => Within(k, Start(a, j), Start(b, i), L)
           S == {n \in Nat : \A i \in R, j \in C : i + j < n => Kept(i, j)}
<1>0. Len(a) \in Nat /\ Len(b) \in Nat
  BY LenProperties
<1>1. 0 \in S
  BY <1>0
<1>2. ASSUME NEW n \in Nat, n \in S PROVE n + 1 \in S
  <2>1. ASSUME NEW i \in R, NEW j \in C, i + j < n + 1, NEW k \in 0..2,
               At(M, i, j) <= k
        PROVE  Within(k, Start(a, j), Start(b, i), L)
    <3>0. Start(a, j) \in Seq(L) /\ Start(b, i) \in Seq(L)
      BY StartIs
    <3>1. CASE i = 0 /\ j = 0
      <4>1. Start(a, j) = Start(b, i)
        BY <3>1, StartIs
      <4> QED BY <3>0, <4>1, WithinItself
    <3>2. ASSUME NEW g \in C, j = g + 1, k # 0, At(M, i, g) <= k - 1
          PROVE  Within(k, Start(a, j), Start(b, i), L)
      <4>1. PICK m \in 0..1 : k = m + 1
        BY <3>2
      <4>2. i + g < n /\ At(M, i, g) <= m /\ m \in 0..2
        BY <1>0, <2>1, <3>2, <4>1
      <4>3. Within(m, Start(a, g), Start(b, i), L)
        BY <1>2, <4>2
      <4>4. /\ Start(a, g) \in Seq(L) /\ a[j] \in L
            /\ Start(a, j) = Append(Start(a, g), a[j])
        BY <3>2, StartIs
      <4>5. Once(Start(a, j), Start(a, g))
        BY <4>4, LastLetter DEF Once
      <4> QED BY <3>0, <4>1, <4>3, <4>4, <4>5, WithinOneMore
    <3>3. ASSUME NEW h \in R, i = h + 1, k # 0, At(M, h, j) <= k - 1
          PROVE  Within(k, Start(a, j), Start(b, i), L)
      <4>1. PICK m \in 0..1 : k = m + 1
        BY <3>3
      <4>2. h + j < n /\ At(M, h, j) <= m /\ m \in 0..2
        BY <1>0, <2>1, <3>3, <4>1
      <4>3. Within(m, Start(a, j), Start(b, h), L)
        BY <1>2, <4>2
      <4>4. /\ Start(b, h) \in Seq(L) /\ b[i] \in L
            /\ Start(b, i) = Append(Start(b, h), b[i])
        BY <3>3, StartIs
      <4> DEFINE t == Append(Start(a, j), b[i])
      <4>5. t \in Seq(L)
        BY <3>0, <4>4, AppendProperties
      <4>6. Within(m, t, Start(b, i), L)
        BY <3>0, <4>2, <4>3, <4>4, WithinOnward
      <4>7. Once(Start(a, j), t)
        BY <3>0, <4>4, LastLetter DEF Once
      <4> HIDE DEF t
      <4> QED BY <3>0, <4>1, <4>5, <4>6, <4>7, WithinOneMore
    <3>4. ASSUME NEW h \in R, NEW g \in C, i = h + 1, j = g + 1,
                 b[i] = a[j], At(M, h, g) <= k
          PROVE  Within(k, Start(a, j), Start(b, i), L)
      <4>1. h + g < n
        BY <1>0, <2>1, <3>4
      <4>2. Within(k, Start(a, g), Start(b, h), L)
        BY <1>2, <3>4, <4>1
      <4>3. /\ Start(b, h) \in Seq(L) /\ b[i] \in L
            /\ Start(b, i) = Append(Start(b, h), b[i])
            /\ Start(a, g) \in Seq(L) /\ a[j] \in L
            /\ Start(a, j) = Append(Start(a, g), a[j])
        BY <3>4, StartIs
      <4> QED BY <3>4, <4>2, <4>3, WithinOnward
    <3>5. ASSUME NEW h \in R, NEW g \in C, i = h + 1, j = g + 1,
                 k # 0, At(M, h, g) <= k - 1
          PROVE  Within(k, Start(a, j), Start(b, i), L)
      <4>1. PICK m \in 0..1 : k = m + 1
        BY <3>5
      <4>2. h + g < n /\ At(M, h, g) <= m /\ m \in 0..2
        BY <1>0, <2>1, <3>5, <4>1
      <4>3. Within(m, Start(a, g), Start(b, h), L)
        BY <1>2, <4>2
      <4>4. /\ Start(b, h) \in Seq(L) /\ b[i] \in L
            /\ Start(b, i) = Append(Start(b, h), b[i])
            /\ Start(a, g) \in Seq(L) /\ a[j] \in L
            /\ Start(a, j) = Append(Start(a, g), a[j])
        BY <3>5, StartIs
      <4> DEFINE t == Append(Start(a, g), b[i])
      <4>5. t \in Seq(L)
        BY <4>4, AppendProperties
      <4>6. Within(m, t, Start(b, i), L)
        BY <4>2, <4>3, <4>4, WithinOnward
      <4>7. Once(Start(a, j), t)
        BY <4>4, LastLetter DEF Once
      <4> HIDE DEF t
      <4> QED BY <3>0, <4>1, <4>5, <4>6, <4>7, WithinOneMore
    <3>6. CASE i = 0 /\ j # 0
      <4>1. PICK g \in C : j = g + 1
        BY <1>0, <3>6
      <4>2. At(M, i, j) = j /\ At(M, i, g) = g
        BY <1>0, <3>6, GridCell
      <4> QED BY <2>1, <3>2, <4>1, <4>2
    <3>7. CASE i # 0 /\ j = 0
      <4>1. PICK h \in R : i = h + 1
        BY <1>0, <3>7
      <4>2. At(M, i, j) = i /\ At(M, h, j) = h
        BY <1>0, <3>7, GridCell
      <4> QED BY <2>1, <3>3, <4>1, <4>2
    <3>8. CASE i # 0 /\ j # 0
      <4>1. PICK h \in R, g \in C :
              /\ i = h + 1 /\ j = g + 1
              /\ Rule(b[i] = a[j], At(M, i, j), At(M, h, g), At(M, i, g), At(M, h, j))
        BY <1>0, <3>8, GridCell
      <4>2. /\ At(M, i, j) \in Nat /\ At(M, h, g) \in Nat /\ At(M, i, g) \in Nat
            /\ At(M, h, j) \in Nat
        BY <1>0, GridCell
      <4>3. CASE b[i] = a[j]
        <5>1. At(M, i, j) = At(M, h, g)
          BY <4>1, <4>3, Zenon DEF Rule
        <5> QED BY <2>1, <3>4, <4>1, <4>3, <5>1
      <4>4. CASE b[i] # a[j]
        <5>1. \/ At(M, i, j) = 1 + At(M, h, g) \/ At(M, i, j) = 1 + At(M, i, g)
              \/ At(M, i, j) = 1 + At(M, h, j)
          BY <4>1, <4>4, Zenon DEF Rule
        <5>2. CASE At(M, i, j) = 1 + At(M, h, g)
          <6>1. k # 0 /\ At(M, h, g) <= k - 1
            BY <2>1, <4>2, <5>2
          <6> QED BY <3>5, <4>1, <6>1
        <5>3. CASE At(M, i, j) = 1 + At(M, i, g)
          <6>1. k # 0 /\ At(M, i, g) <= k - 1
            BY <2>1, <4>2, <5>3
          <6> QED BY <3>2, <4>1, <6>1
        <5>4. CASE At(M, i, j) = 1 + At(M, h, j)
          <6>1. k # 0 /\ At(M, h, j) <= k - 1
            BY <2>1, <4>2, <5>4
          <6> QED BY <3>3, <4>1, <6>1
        <5> QED BY <5>1, <5>2, <5>3, <5>4
      <4> QED BY <4>3, <4>4
    <3> QED BY <3>1, <3>6, <3>7, <3>8
  <2> QED BY <2>1
<1>3. \A n \in Nat : n \in S
  <2> HIDE DEF S
  <2> QED BY <1>1, <1>2, EveryNatural
<1>4. Len(b) + Len(a) + 1 \in S
  <2> HIDE DEF S
  <2> QED BY <1>0, <1>3
<1>5. Kept(Len(b), Len(a))
  <2>1. Len(b) \in R /\ Len(a) \in C /\ Len(b) + Len(a) < Len(b) + Len(a) + 1
    BY <1>0
  <2> HIDE DEF Kept
  <2> QED BY <1>4, <2>1
<1>6. Start(a, Len(a)) = a /\ Start(b, Len(b)) = b
  BY StartIs
<1> QED BY <1>5, <1>6

(* The words that Near makes are those two edits away.                     *)
LEMMA NearIsWithin ==
  ASSUME NEW L, NEW u \in Seq(L), NEW v \in Seq(L)
  PROVE  v \in Near(u, L) <=> Within(2, u, v, L)
<1> DEFINE once == {u} \cup OneEdit(u, L)
<1>1. \A t \in once : t \in Seq(L) /\ Once(u, t)
  BY OneEditIs DEF Once
<1>2. \A t \in Seq(L) : Once(u, t) => t \in once
  BY IsOneEdit DEF Once
<1>3. ASSUME NEW t \in Seq(L) PROVE Once(t, v) <=> v = t \/ v \in OneEdit(t, L)
  BY OneEditIs, IsOneEdit DEF Once
<1>4. v \in Near(u, L) <=> \E t \in once : v = t \/ v \in OneEdit(t, L)
  BY Zenon DEF Near
<1> HIDE DEF once
<1>5. v \in Near(u, L) <=> \E t \in Seq(L) : Once(u, t) /\ Once(t, v)
  BY <1>1, <1>2, <1>3, <1>4
<1> QED BY <1>5 DEF Within

(* liczLevenshteina counts edits: for all words over the letters, what it  *)
(* finds no farther than MaxEdits from the query is what that many letters *)
(* removed, put in or replaced make of the query.                          *)
THEOREM DistanceCountsEdits ==
  ASSUME NEW L, NEW q \in Seq(L), NEW w \in Seq(L)
  PROVE  liczLevenshteina(q, w) <= MaxEdits <=> w \in Near(q, L)
<1>0. Len(q) \in Nat /\ Len(w) \in Nat
  BY LenProperties
<1> DEFINE D(v) == At(Table(q, v), Len(v), Len(q))
<1>1. ASSUME NEW v \in Seq(L) PROVE IsGrid(Table(q, v), q, v) /\ D(v) \in Nat
  <2>1. Len(v) \in Nat /\ Len(v) \in 0..Len(v) /\ Len(q) \in 0..Len(q)
    BY <1>0, LenProperties
  <2>2. IsGrid(Table(q, v), q, v)
    BY <1>0, <2>1, TableGrid
  <2> QED BY <1>0, <2>1, <2>2, GridCell
<1>2. ASSUME NEW u \in Seq(L), NEW v \in Seq(L), Once(u, v)
      PROVE  D(v) <= 1 + D(u)
  <2>1. Len(u) \in Nat /\ Len(v) \in Nat
    BY LenProperties
  <2>2. CASE u = v
    BY <1>1, <2>2
  <2>3. CASE One(u, v)
    BY <1>0, <1>1, <2>1, <2>3, OneFarther
  <2> QED BY <1>2, <2>2, <2>3 DEF Once
<1>3. D(q) = 0
  BY <1>0, <1>1, NoneAway
<1>4. ASSUME Within(2, q, w, L) PROVE D(w) <= 2
  <2>1. PICK t \in Seq(L) : Once(q, t) /\ Once(t, w)
    BY <1>4 DEF Within
  <2>2. D(t) <= 1 + D(q) /\ D(w) <= 1 + D(t)
    BY <1>2, <2>1
  <2>3. D(t) \in Nat /\ D(w) \in Nat
    BY <1>1
  <2> HIDE DEF D
  <2> QED BY <1>3, <2>2, <2>3
<1>5. ASSUME D(w) <= 2 PROVE Within(2, q, w, L)
  BY <1>1, <1>5, CellsReach
<1>6. D(w) = liczLevenshteina(q, w)
  BY DEF liczLevenshteina, At
<1> HIDE DEF D
<1> QED BY <1>4, <1>5, <1>6, NearIsWithin DEF MaxEdits
-----------------------------------------------------------------------------
(***************************************************************************)
(* The invariants of the page.                                             *)
(***************************************************************************)

(* A read carries no more rows than texts were said.                       *)
ReadsFit ==
  \A r \in reads : /\ r.of = None => r.rows = 0
                   /\ r.of # None => r.rows <= Len(Texts[r.of])

(* While no two selecting calls have overlapped: the one under way, and    *)
(* what it has made of selected_user so far.                               *)
OneCall == \A a, b \in selects : a = b /\ removal = Idle

ServedIsSelected ==
  \A a \in selects :
    a.stage = "served" => a.of = selected /\ (a.of # None => unread[a.of] = 0)

AtRest ==
  ~Selecting => /\ shown \in {None, selected}
                /\ shown # None => unread[shown] = 0

RemovalOfSelected ==
  removal.stage = "asked" =>
    removal.of \in Friends /\ removal.of = selected /\ unread[removal.of] = 0

BadgesFit == \A f \in Friends : unread[f] <= hist[f]

Uncrossed ==
  ~crossed => OneCall /\ ServedIsSelected /\ AtRest /\ RemovalOfSelected /\ BadgesFit

TypeInv == TypeOK /\ ReadsFit
Inv == TypeInv /\ Uncrossed
-----------------------------------------------------------------------------
(* A rendering hides rows it has.                                          *)
LEMMA FilteredRows ==
  ASSUME NEW of, NEW rows \in Nat, NEW q
  PROVE  Filtered(of, rows, q) \subseteq 1 .. rows
BY DEF Filtered

LEMMA SeqLength ==
  ASSUME NEW S, NEW s \in Seq(S)
  PROVE  Len(s) \in Nat
OBVIOUS

LEMMA ChatLength ==
  ASSUME NEW f \in Friends
  PROVE  Len(Texts[f]) \in Nat
<1> DEFINE Said == Seq(Seq(Letters))
<1>1. Texts[f] \in Seq(Said)
  BY TextsAssumption, Zenon
<1> HIDE DEF Said
<1> QED BY <1>1, SeqLength, Zenon

LEMMA TextLengths ==
  ASSUME NEW f \in Friends, TypeOK
  PROVE  hist[f] \in Nat /\ hist[f] <= Len(Texts[f])
BY DEF TypeOK

(* Every step keeps the types: what a read carries is the length a history *)
(* had, so what is rendered was said.                                      *)
LEMMA TypeStep == TypeInv /\ [Next]_vars => TypeInv'
<1> SUFFICES ASSUME TypeInv, [Next]_vars PROVE TypeInv'
  OBVIOUS
<1> USE DEF TypeInv, TypeOK, ReadsFit, Somebody, program, page, calls, vars, Event
<1>1. CASE Poll \/ ServeRead
  <2>1. CASE Poll
    BY <2>1 DEF Poll, Asked
  <2>2. CASE ServeRead
    <3>1. PICK r \in reads : reads' = (reads \ {r})
             \cup {[of |-> r.of, stage |-> "served", rows |-> RowsOf(r.of)]}
      BY <2>2 DEF ServeRead
    <3>2. r.of \in Somebody /\ RowsOf(r.of) \in Nat
      BY TextLengths DEF RowsOf
    <3> QED BY <2>2, <3>1, <3>2 DEF ServeRead, RowsOf
  <2> QED BY <1>1, <2>1, <2>2
<1>2. CASE FinishRead
  <2>1. PICK r \in reads : reads' = reads \ {r} /\ area' = Rendered(r)
    BY <1>2 DEF FinishRead
  <2>2. Filtered(r.of, r.rows, query) \subseteq 1 .. r.rows
    BY FilteredRows
  <2>3. /\ area' \in [of : Somebody, rows : Nat, hidden : SUBSET Nat]
        /\ area'.hidden \subseteq 1 .. area'.rows
        /\ area'.of = None => area'.rows = 0
        /\ area'.of # None => area'.rows <= Len(Texts[area'.of])
    <3>1. CASE area.rows = r.rows
      BY <2>1, <3>1 DEF Rendered
    <3>2. CASE area.rows # r.rows
      BY <2>1, <2>2, <3>2 DEF Rendered
    <3> QED BY <3>1, <3>2
  <2> QED BY <1>2, <2>1, <2>3 DEF FinishRead
<1>3. CASE RefreshList
  BY <1>3 DEF RefreshList
<1>4. ASSUME NEW f \in Friends, Click(f) \/ AddFriend(f) PROVE TypeInv'
  <2>1. CASE Click(f)
    BY <2>1, BoundsAssumption DEF Click, SelectAsked, Selecting
  <2>2. CASE AddFriend(f)
    BY <2>2, BoundsAssumption DEF AddFriend
  <2> QED BY <1>4, <2>1, <2>2
<1>5. ASSUME NEW f \in Friends, Arrive(f) PROVE TypeInv'
  BY <1>5, BoundsAssumption, ChatLength DEF Arrive
<1>6. ASSUME NEW f \in Somebody, ServeSelect(f) \/ FinishSelect(f) PROVE TypeInv'
  <2>1. CASE ServeSelect(f)
    <3>1. selects' \subseteq [of : Somebody, stage : {"asked", "served"}]
      BY <2>1 DEF ServeSelect
    <3>2. selected' = f /\ unread' \in [Friends -> Nat]
      BY <2>1 DEF ServeSelect
    <3> QED BY <2>1, <3>1, <3>2 DEF ServeSelect
  <2>2. CASE FinishSelect(f)
    <3>1. shown' = f /\ selects' \subseteq selects /\ reads' = reads \cup {Asked(f)}
      BY <2>2 DEF FinishSelect
    <3>2. reads' \subseteq [of : Somebody, stage : {"asked", "served"}, rows : Nat]
      BY <3>1 DEF Asked
    <3>3. ReadsFit'
      BY <2>2, <3>1 DEF FinishSelect, Asked
    <3> QED BY <2>2, <3>1, <3>2, <3>3 DEF FinishSelect
  <2> QED BY <1>6, <2>1, <2>2
<1>7. ASSUME NEW f \in Somebody, ServeSend(f) PROVE TypeInv'
  <2>1. CASE f \in dirs /\ hist[f] < Len(Texts[f])
    <3>1. hist' = [hist EXCEPT ![f] = @ + 1] /\ f \in Friends
      BY <1>7, <2>1 DEF ServeSend
    <3>2. /\ hist' \in [Friends -> Nat]
          /\ \A g \in Friends : hist'[g] <= Len(Texts[g])
      BY <3>1, <2>1, ChatLength
    <3> QED BY <1>7, <3>2 DEF ServeSend
  <2>2. CASE ~(f \in dirs /\ hist[f] < Len(Texts[f]))
    BY <1>7, <2>2 DEF ServeSend
  <2> QED BY <2>1, <2>2
<1>8. CASE ExchangeKeys
  BY <1>8, BoundsAssumption DEF ExchangeKeys
<1>9. CASE TimerFires
  BY <1>9 DEF TimerFires, SelectAsked, Selecting
<1>10. CASE RemoveClicked
  BY <1>10, BoundsAssumption DEF RemoveClicked, Selecting
<1>11. CASE ServeRemoval
  <2>1. selected' \in Somebody
    BY <1>11 DEF ServeRemoval
  <2>2. /\ hist' \in [Friends -> Nat]
        /\ \A g \in Friends : hist'[g] <= Len(Texts[g])
    <3>1. hist' = [hist EXCEPT ![removal.of] = 0]
      BY <1>11 DEF ServeRemoval
    <3>2. \A g \in Friends : Len(Texts[g]) \in Nat
      BY ChatLength
    <3>3. \A g \in Friends : hist'[g] = IF g = removal.of THEN 0 ELSE hist[g]
      BY <3>1
    <3>4. hist' \in [Friends -> Nat]
      BY <3>1
    <3>5. ASSUME NEW g \in Friends PROVE hist'[g] <= Len(Texts[g])
      <4>1. hist'[g] \in {0, hist[g]} /\ Len(Texts[g]) \in Nat
        BY <3>2, <3>3
      <4>2. hist[g] <= Len(Texts[g])
        OBVIOUS
      <4> QED BY <4>1, <4>2
    <3> QED BY <3>4, <3>5
  <2>3. removal' \in [of : Somebody, stage : {"idle", "asked", "served"}]
    BY <1>11 DEF ServeRemoval
  <2> QED BY <1>11, <2>1, <2>2, <2>3 DEF ServeRemoval
<1>12. CASE FinishRemoval
  BY <1>12 DEF FinishRemoval, Cleared, Idle
<1>13. CASE Send
  <2>1. sends' \subseteq Somebody
    BY <1>13 DEF Send
  <2>2. reads' = reads \cup {Asked(shown)} /\ Asked(shown).rows = 0
    BY <1>13 DEF Send, Asked
  <2> QED BY <1>13, <2>1, <2>2, BoundsAssumption DEF Send, Asked
<1>14. ASSUME NEW q \in Queries, Enter(q) PROVE TypeInv'
  BY <1>14, BoundsAssumption, FilteredRows DEF Enter
<1>15. CASE ClearQuery
  BY <1>15 DEF ClearQuery
<1>16. CASE UNCHANGED vars
  BY <1>16
<1> QED
  BY <1>1, <1>2, <1>3, <1>4, <1>5, <1>6, <1>7, <1>8, <1>9, <1>10, <1>11, <1>12,
     <1>13, <1>14, <1>15, <1>16 DEF Next

LEMMA TypeInit == Init => TypeInv
<1> SUFFICES ASSUME Init PROVE TypeInv
  OBVIOUS
<1>1. TypeOK
  <2>1. /\ hist \in [Friends -> Nat] /\ \A f \in Friends : hist[f] <= Len(Texts[f])
        /\ unread \in [Friends -> Nat] /\ selected \in Somebody /\ shown \in Somebody
    BY TextsAssumption DEF Init, Somebody
  <2>2. /\ area \in [of : Somebody, rows : Nat, hidden : SUBSET Nat]
        /\ area.hidden \subseteq 1 .. area.rows
        /\ area.of = None /\ area.rows = 0
    <3>1. area = [of |-> None, rows |-> 0, hidden |-> {}]
      BY DEF Init, Cleared
    <3> QED BY <3>1 DEF Somebody
  <2>3. /\ reads \subseteq [of : Somebody, stage : {"asked", "served"}, rows : Nat]
        /\ selects \subseteq [of : Somebody, stage : {"asked", "served"}]
        /\ removal \in [of : Somebody, stage : {"idle", "asked", "served"}]
    BY <2>1 DEF Init, Asked, Idle, Somebody
  <2>4. /\ query \in Queries \cup {NoQuery} /\ sends \subseteq Somebody
        /\ dirs \subseteq Friends /\ crossed \in BOOLEAN
    BY Zenon DEF Init
  <2>5. timers \in 0 .. 2 /\ events \in 0 .. MaxEvents
    BY BoundsAssumption DEF Init
  <2> QED BY <2>1, <2>2, <2>3, <2>4, <2>5 DEF TypeOK
<1>2. ReadsFit
  BY TextsAssumption DEF Init, ReadsFit, Asked
<1> QED BY <1>1, <1>2 DEF TypeInv

(* ChatView keeps its types: no row of the page stands for a text that was *)
(* not said, and no row is hidden that is not there.                       *)
THEOREM Typed == Spec => []TypeOK
<1>1. TypeInv => TypeOK
  BY DEF TypeInv
<1> QED
  BY TypeInit, TypeStep, <1>1, PTL DEF Spec
-----------------------------------------------------------------------------
(* What Uncrossed needs of the types.                                      *)
LEMMA Types ==
  ASSUME TypeInv
  PROVE  /\ hist \in [Friends -> Nat] /\ unread \in [Friends -> Nat]
         /\ selected \in Somebody /\ shown \in Somebody
         /\ selects \subseteq [of : Somebody, stage : {"asked", "served"}]
         /\ removal \in [of : Somebody, stage : {"idle", "asked", "served"}]
         /\ crossed \in BOOLEAN
BY DEF TypeInv, TypeOK

(* A selecting call that starts while none is under way is the only one;   *)
(* one that starts later is noted.                                         *)
LEMMA AskedUncrossed ==
  ASSUME Inv, NEW f \in Somebody, SelectAsked(f),
         UNCHANGED <<program, shown, removal>>
  PROVE  Uncrossed'
<1> SUFFICES ASSUME ~crossed'
             PROVE  (OneCall /\ ServedIsSelected /\ AtRest /\ RemovalOfSelected
                       /\ BadgesFit)'
  BY DEF Uncrossed
<1>1. ~crossed /\ ~Selecting
  BY DEF SelectAsked
<1>2. selects = {} /\ removal = Idle
  BY <1>1 DEF Selecting
<1>3. selects' = {[of |-> f, stage |-> "asked"]} /\ removal' = Idle
  BY <1>2 DEF SelectAsked
<1>4. OneCall'
  BY <1>3 DEF OneCall
<1>5. ServedIsSelected'
  BY <1>3 DEF ServedIsSelected
<1>6. AtRest'
  BY <1>3 DEF AtRest, Selecting
<1>7. RemovalOfSelected'
  BY <1>3 DEF RemovalOfSelected, Idle
<1>8. BadgesFit'
  BY <1>1 DEF Inv, Uncrossed, BadgesFit, program
<1> QED BY <1>4, <1>5, <1>6, <1>7, <1>8

LEMMA UncrossedStep == Inv /\ TypeInv' /\ [Next]_vars => Uncrossed'
<1> SUFFICES ASSUME Inv, TypeInv', [Next]_vars PROVE Uncrossed'
  OBVIOUS
<1> DEFINE Five == OneCall /\ ServedIsSelected /\ AtRest /\ RemovalOfSelected
                     /\ BadgesFit
<1>0. /\ ~crossed => Five
      /\ hist \in [Friends -> Nat] /\ unread \in [Friends -> Nat]
      /\ selected \in Somebody /\ shown \in Somebody
      /\ selects \subseteq [of : Somebody, stage : {"asked", "served"}]
      /\ removal \in [of : Somebody, stage : {"idle", "asked", "served"}]
      /\ crossed \in BOOLEAN
  BY Types DEF Inv, Uncrossed
<1>1. ASSUME UNCHANGED <<hist, unread, selected, shown, selects, removal, crossed>>
      PROVE  Uncrossed'
  BY <1>0, <1>1 DEF Uncrossed, OneCall, ServedIsSelected, AtRest,
     RemovalOfSelected, BadgesFit, Selecting
<1>2. CASE Poll \/ ServeRead \/ FinishRead \/ RefreshList
  <2>1. UNCHANGED <<hist, unread, selected, shown, selects, removal, crossed>>
    BY <1>2 DEF Poll, ServeRead, FinishRead, RefreshList, page, program, calls
  <2> QED BY <1>1, <2>1
<1>3. ASSUME NEW f \in Friends, Click(f) PROVE Uncrossed'
  BY <1>3, AskedUncrossed DEF Click, page, Somebody, Inv
<1>4. ASSUME NEW f \in Friends, AddFriend(f) PROVE Uncrossed'
  BY <1>1, <1>4 DEF AddFriend, page, calls
<1>5. ASSUME NEW f \in Friends, Arrive(f) PROVE Uncrossed'
  <2> SUFFICES ASSUME ~crossed PROVE Five'
    BY <1>5 DEF Arrive, Uncrossed
  <2>1. /\ hist' = [hist EXCEPT ![f] = @ + 1]
        /\ unread' = IF f = selected THEN unread ELSE [unread EXCEPT ![f] = @ + 1]
        /\ UNCHANGED <<selected, shown, selects, removal>>
    BY <1>5 DEF Arrive, page, calls
  <2>2. BadgesFit'
    BY <1>0, <2>1 DEF BadgesFit
  <2>3. unread'[selected] = unread[selected]
    BY <1>0, <2>1
  <2>4. OneCall'
    BY <1>0, <2>1 DEF OneCall
  <2>5. ServedIsSelected'
    BY <1>0, <2>1, <2>3 DEF ServedIsSelected
  <2>6. AtRest'
    BY <1>0, <2>1, <2>3 DEF AtRest, Selecting
  <2>7. RemovalOfSelected'
    BY <1>0, <2>1, <2>3 DEF RemovalOfSelected
  <2> QED BY <2>2, <2>4, <2>5, <2>6, <2>7
<1>6. ASSUME NEW f \in Somebody, ServeSelect(f) PROVE Uncrossed'
  <2> SUFFICES ASSUME ~crossed PROVE Five'
    BY <1>6 DEF ServeSelect, Uncrossed
  <2> DEFINE asked == [of |-> f, stage |-> "asked"]
             served == [of |-> f, stage |-> "served"]
  <2>1. /\ asked \in selects /\ selects' = (selects \ {asked}) \cup {served}
        /\ selected' = f
        /\ unread' = [g \in Friends |-> IF g = f THEN 0 ELSE unread[g]]
        /\ UNCHANGED <<hist, shown, removal>>
    BY <1>6 DEF ServeSelect, page
  <2>2. selects' = {served} /\ removal' = Idle
    BY <1>0, <2>1 DEF OneCall
  <2>3. OneCall'
    BY <2>2 DEF OneCall
  <2>4. ServedIsSelected'
    BY <2>1, <2>2 DEF ServedIsSelected, Somebody
  <2>5. AtRest'
    BY <2>2 DEF AtRest, Selecting
  <2>6. RemovalOfSelected'
    BY <2>2 DEF RemovalOfSelected, Idle
  <2>7. BadgesFit'
    BY <1>0, <2>1 DEF BadgesFit
  <2> QED BY <2>3, <2>4, <2>5, <2>6, <2>7
<1>7. ASSUME NEW f \in Somebody, FinishSelect(f) PROVE Uncrossed'
  <2> SUFFICES ASSUME ~crossed PROVE Five'
    BY <1>7 DEF FinishSelect, Uncrossed
  <2> DEFINE served == [of |-> f, stage |-> "served"]
  <2>1. /\ served \in selects /\ selects' = selects \ {served} /\ shown' = f
        /\ UNCHANGED <<hist, unread, selected, removal>>
    BY <1>7 DEF FinishSelect, program
  <2>2. selects' = {} /\ removal' = Idle
    BY <1>0, <2>1 DEF OneCall
  <2>3. f = selected /\ (f # None => unread[f] = 0)
    BY <1>0, <2>1 DEF ServedIsSelected
  <2>4. OneCall' /\ ServedIsSelected' /\ RemovalOfSelected'
    BY <2>2 DEF OneCall, ServedIsSelected, RemovalOfSelected, Idle
  <2>5. AtRest'
    BY <2>1, <2>3 DEF AtRest
  <2>6. BadgesFit'
    BY <1>0, <2>1 DEF BadgesFit
  <2> QED BY <2>4, <2>5, <2>6
<1>8. ASSUME NEW f \in Somebody, ServeSend(f) PROVE Uncrossed'
  <2> SUFFICES ASSUME ~crossed PROVE Five'
    BY <1>8 DEF ServeSend, Uncrossed
  <2>1. UNCHANGED <<unread, selected, shown, selects, removal>>
    BY <1>8 DEF ServeSend, page
  <2>2. \A g \in Friends : hist'[g] \in Nat /\ hist'[g] >= hist[g]
    BY <1>0, <1>8 DEF ServeSend
  <2>3. BadgesFit'
    BY <1>0, <2>1, <2>2 DEF BadgesFit
  <2> QED BY <1>0, <2>1, <2>3 DEF OneCall, ServedIsSelected, AtRest,
          RemovalOfSelected, Selecting
<1>9. CASE ExchangeKeys
  BY <1>1, <1>9 DEF ExchangeKeys, page, program
<1>10. CASE TimerFires
  BY <1>0, <1>10, AskedUncrossed DEF TimerFires, page, Inv
<1>11. CASE RemoveClicked
  <2> SUFFICES ASSUME ~crossed' PROVE Five'
    BY DEF Uncrossed
  <2>1. ~crossed /\ ~Selecting /\ shown # None
    BY <1>11 DEF RemoveClicked
  <2>2. /\ removal' = [of |-> shown, stage |-> "asked"] /\ selects' = {}
        /\ UNCHANGED <<hist, unread, selected, shown>>
    BY <1>11, <2>1 DEF RemoveClicked, Selecting, program, page
  <2>3. shown = selected /\ unread[shown] = 0 /\ shown \in Friends
    BY <1>0, <2>1 DEF AtRest, Somebody
  <2>4. OneCall' /\ ServedIsSelected'
    BY <2>2 DEF OneCall, ServedIsSelected
  <2>5. AtRest'
    BY <2>2 DEF AtRest, Selecting, Idle
  <2>6. RemovalOfSelected' /\ BadgesFit'
    BY <1>0, <2>1, <2>2, <2>3 DEF RemovalOfSelected, BadgesFit
  <2> QED BY <2>4, <2>5, <2>6
<1>12. CASE ServeRemoval
  <2> SUFFICES ASSUME ~crossed PROVE Five'
    BY <1>12 DEF ServeRemoval, Uncrossed
  <2>1. /\ removal.stage = "asked" /\ removal' = [removal EXCEPT !.stage = "served"]
        /\ hist' = [hist EXCEPT ![removal.of] = 0]
        /\ UNCHANGED <<unread, shown, selects>>
    BY <1>12 DEF ServeRemoval, page
  <2>2. removal.of \in Friends /\ unread[removal.of] = 0
    BY <1>0, <2>1 DEF RemovalOfSelected
  <2>3. removal # Idle /\ removal' # Idle /\ removal'.stage = "served"
    BY <1>0, <2>1 DEF Idle
  <2>4. selects' = {}
    BY <1>0, <2>1, <2>3 DEF OneCall
  <2>5. OneCall' /\ ServedIsSelected' /\ AtRest' /\ RemovalOfSelected'
    BY <2>3, <2>4 DEF OneCall, ServedIsSelected, AtRest, Selecting, RemovalOfSelected
  <2>6. BadgesFit'
    BY <1>0, <2>1, <2>2 DEF BadgesFit
  <2> QED BY <2>5, <2>6
<1>13. CASE FinishRemoval
  <2> SUFFICES ASSUME ~crossed PROVE Five'
    BY <1>13 DEF FinishRemoval, Uncrossed
  <2>1. /\ removal.stage = "served" /\ removal' = Idle /\ shown' = None
        /\ UNCHANGED <<hist, unread, selected, selects>>
    BY <1>13 DEF FinishRemoval, program
  <2>2. removal # Idle
    BY <2>1 DEF Idle
  <2>3. selects' = {}
    BY <1>0, <2>1, <2>2 DEF OneCall
  <2>4. OneCall' /\ ServedIsSelected' /\ RemovalOfSelected'
    BY <2>1, <2>3 DEF OneCall, ServedIsSelected, RemovalOfSelected, Idle
  <2>5. AtRest' /\ BadgesFit'
    BY <1>0, <2>1 DEF AtRest, BadgesFit
  <2> QED BY <2>4, <2>5
<1>14. CASE Send
  BY <1>1, <1>14 DEF Send, page, program
<1>15. ASSUME NEW q \in Queries, Enter(q) PROVE Uncrossed'
  BY <1>1, <1>15 DEF Enter, calls, program
<1>16. CASE ClearQuery
  BY <1>1, <1>16 DEF ClearQuery, calls, program
<1>17. CASE UNCHANGED vars
  BY <1>1, <1>17 DEF vars, program, page, calls
<1> QED
  BY <1>2, <1>3, <1>4, <1>5, <1>6, <1>7, <1>8, <1>9, <1>10, <1>11, <1>12, <1>13,
     <1>14, <1>15, <1>16, <1>17 DEF Next

LEMMA InvInit == Init => Inv
<1> SUFFICES ASSUME Init PROVE Inv
  OBVIOUS
<1>1. /\ selects = {[of |-> shown, stage |-> "asked"]} /\ removal = Idle
      /\ unread = [f \in Friends |-> 0] /\ hist \in [Friends -> Nat]
  BY TextsAssumption DEF Init
<1>2. OneCall /\ ServedIsSelected /\ AtRest
  BY <1>1 DEF OneCall, ServedIsSelected, AtRest, Selecting
<1>3. RemovalOfSelected /\ BadgesFit
  BY <1>1 DEF RemovalOfSelected, BadgesFit, Idle
<1> QED BY <1>2, <1>3, TypeInit DEF Inv, Uncrossed

LEMMA Invariance == Spec => []Inv
<1>1. Inv /\ [Next]_vars => Inv'
  BY TypeStep, UncrossedStep DEF Inv
<1> QED
  BY InvInit, <1>1, PTL DEF Spec

(* The page and the program agree on the friend they show: with nothing    *)
(* selecting under way, and no two such calls ever at once, the page shows *)
(* selected_user or, after a removal, nobody.                              *)
THEOREM ShownIsSelected == Spec => []SelectedIsShown
<1>1. Inv => SelectedIsShown
  BY DEF Inv, Uncrossed, AtRest, SelectedIsShown
<1> QED
  BY Invariance, <1>1, PTL

(* No badge counts texts that are not in the history, though the count     *)
(* outlives the directory it belongs to.                                   *)
THEOREM BadgesHaveTexts == Spec => []BadgeHasTexts
<1>1. Inv => BadgeHasTexts
  BY DEF Inv, Uncrossed, BadgesFit, BadgeHasTexts
<1> QED
  BY Invariance, <1>1, PTL
-----------------------------------------------------------------------------
(* Whatever is rendered, removed or added, the rows that are hidden are    *)
(* those zastosujFiltr hides for the query.                                *)
HiddenByQuery == query # NoQuery => area.hidden = Filtered(area.of, area.rows, query)

LEMMA HiddenStep == TypeInv /\ HiddenByQuery /\ [Next]_vars => HiddenByQuery'
<1> SUFFICES ASSUME TypeInv, HiddenByQuery, [Next]_vars, query' # NoQuery
             PROVE  area'.hidden = Filtered(area'.of, area'.rows, query')
  BY DEF HiddenByQuery
<1>0. area \in [of : Somebody, rows : Nat, hidden : SUBSET Nat]
  BY DEF TypeInv, TypeOK
<1>1. ASSUME UNCHANGED <<area, query>> PROVE area'.hidden = Filtered(area'.of, area'.rows, query')
  BY <1>1 DEF HiddenByQuery
<1>2. CASE FinishRead
  <2>1. PICK r \in reads : area' = Rendered(r)
    BY <1>2 DEF FinishRead
  <2>2. query' = query
    BY <1>2 DEF FinishRead
  <2>3. CASE area.rows = r.rows
    BY <1>1, <2>1, <2>2, <2>3 DEF Rendered
  <2>4. CASE area.rows # r.rows
    <3>1. area' = [of |-> r.of, rows |-> r.rows, hidden |-> Filtered(r.of, r.rows, query)]
      BY <2>1, <2>4 DEF Rendered
    <3> QED BY <2>2, <3>1
  <2> QED BY <2>3, <2>4
<1>3. CASE FinishRemoval
  <2>1. area' = [of |-> None, rows |-> 0, hidden |-> {}]
    BY <1>3 DEF FinishRemoval, Cleared
  <2>2. Filtered(None, 0, query') = {}
    BY DEF Filtered
  <2> QED BY <2>1, <2>2
<1>4. ASSUME NEW q \in Queries, Enter(q)
      PROVE  area'.hidden = Filtered(area'.of, area'.rows, query')
  <2>1. query' = q /\ area' = [area EXCEPT !.hidden = Filtered(area.of, area.rows, q)]
    BY <1>4 DEF Enter
  <2>2. /\ area'.hidden = Filtered(area.of, area.rows, q)
        /\ area'.of = area.of /\ area'.rows = area.rows
    BY <1>0, <2>1
  <2> QED BY <2>1, <2>2
<1>5. CASE ClearQuery
  BY <1>5 DEF ClearQuery
<1>6. CASE Poll \/ ServeRead \/ RefreshList \/ ExchangeKeys \/ TimerFires
  BY <1>1, <1>6 DEF Poll, ServeRead, RefreshList, ExchangeKeys, TimerFires, page
<1>7. CASE RemoveClicked \/ ServeRemoval \/ Send
  BY <1>1, <1>7 DEF RemoveClicked, ServeRemoval, Send, page
<1>8. ASSUME NEW f \in Friends, Click(f) \/ AddFriend(f) \/ Arrive(f)
      PROVE  area'.hidden = Filtered(area'.of, area'.rows, query')
  BY <1>1, <1>8 DEF Click, AddFriend, Arrive, page
<1>9. ASSUME NEW f \in Somebody, ServeSelect(f) \/ FinishSelect(f) \/ ServeSend(f)
      PROVE  area'.hidden = Filtered(area'.of, area'.rows, query')
  BY <1>1, <1>9 DEF ServeSelect, FinishSelect, ServeSend, page
<1>10. CASE UNCHANGED vars
  BY <1>1, <1>10 DEF vars, page
<1> QED
  BY <1>2, <1>3, <1>4, <1>5, <1>6, <1>7, <1>8, <1>9, <1>10 DEF Next

(* The words of the rows are words over the letters.                       *)
LEMMA RowWords ==
  ASSUME TypeInv, NEW i \in 1..area.rows
  PROVE  Texts[area.of][i] \in Seq(Seq(Letters))
<1> DEFINE Said == Seq(Seq(Letters))
           f == area.of
<1>0. area.rows \in Nat /\ f \in Friends \cup {None}
  BY DEF TypeInv, TypeOK, Somebody
<1>1. f \in Friends /\ area.rows <= Len(Texts[f])
  BY <1>0 DEF TypeInv, TypeOK
<1>2. Texts[f] \in Seq(Said)
  BY <1>1, TextsAssumption, Zenon
<1>3. i \in 1..Len(Texts[f])
  BY <1>0, <1>1, ChatLength
<1> HIDE DEF Said, f
<1>4. Texts[f][i] \in Said
  BY <1>2, <1>3, ElementOfSeq
<1> QED BY <1>4 DEF Said, f

LEMMA HiddenIsFar ==
  ASSUME TypeInv, HiddenByQuery
  PROVE  VisibleIsNear
<1> SUFFICES ASSUME query # NoQuery, NEW i \in 1..area.rows
             PROVE  i \in area.hidden <=>
                      \A j \in DOMAIN Texts[area.of][i] :
                        Texts[area.of][i][j] \notin Near(query, Letters)
  BY DEF VisibleIsNear
<1> DEFINE text == Texts[area.of][i]
<1>1. i \in area.hidden <=> ~Matches(query, text)
  BY DEF HiddenByQuery, Filtered
<1>2. query \in Seq(Letters)
  BY QueriesAssumption DEF TypeInv, TypeOK
<1>3. text \in Seq(Seq(Letters))
  BY RowWords
<1> HIDE DEF text
<1>4. \A j \in DOMAIN text : text[j] \in Seq(Letters)
  <2> DEFINE Word == Seq(Letters)
  <2>1. text \in Seq(Word)
    BY <1>3
  <2> HIDE DEF Word
  <2>2. DOMAIN text = 1..Len(text)
    BY <2>1, LenProperties
  <2>3. \A j \in DOMAIN text : text[j] \in Word
    BY <2>1, <2>2, ElementOfSeq
  <2> QED BY <2>3 DEF Word
<1>5. ASSUME NEW j \in DOMAIN text
      PROVE  liczLevenshteina(query, text[j]) <= MaxEdits <=> text[j] \in Near(query, Letters)
  BY <1>2, <1>4, DistanceCountsEdits
<1>6. Matches(query, text) <=> \E j \in DOMAIN text : text[j] \in Near(query, Letters)
  BY <1>5, Zenon DEF Matches
<1> QED BY <1>1, <1>6 DEF text

(* With a query the rows that are visible are those with a word that       *)
(* MaxEdits edits make of it, however they were rendered since.            *)
THEOREM VisibleRows == Spec => []VisibleIsNear
<1>1. Init => HiddenByQuery
  BY DEF Init, HiddenByQuery
<1>2. TypeInv /\ HiddenByQuery => VisibleIsNear
  BY HiddenIsFar
<1> QED
  BY TypeInit, TypeStep, HiddenStep, <1>1, <1>2, PTL DEF Spec
=============================================================================

-------------------------- MODULE RendezvousProofs --------------------------
(***************************************************************************)
(* Theorems of Rendezvous, for any clients, friendships and ports, which   *)
(* TimedRendezvous inherits.                                               *)
(***************************************************************************)
EXTENDS TimedRendezvous, QueueLemmas, FiniteSetTheorems, TLAPS

LEMMA LowestIsMember ==
  ASSUME NEW S \in SUBSET Nat
  PROVE  Lowest(S) \in S \cup {NoPort}
<1>1. CASE S = {}
  BY <1>1 DEF Lowest
<1>2. CASE S # {}
  <2>1. \E p \in S : \A q \in S : p <= q
    BY <1>2, LeastNatural
  <2> QED BY <1>2, <2>1 DEF Lowest
<1> QED BY <1>1, <1>2

(* The server gives the two ends the same two ports crosswise, from        *)
(* whichever end it looks: provided it looks at the same two lists.        *)
THEOREM PortsCross ==
  ASSUME NEW c \in Clients, NEW d \in Clients, c # d, NEW U, NEW V
  PROVE  /\ Assigned(c, d, U, V).iport = Assigned(d, c, V, U).oport
         /\ Assigned(c, d, U, V).oport = Assigned(d, c, V, U).iport
<1>1. First(U, V) = First(V, U) /\ Second(U, V) = Second(V, U)
  <2>1. Free(U, V) = Free(V, U)
    BY DEF Free
  <2> QED BY <2>1 DEF First, Second
<1>2. Rank[c] \in Nat /\ Rank[d] \in Nat /\ Rank[c] # Rank[d]
  BY RankAssumption
<1>3. CASE Rank[c] < Rank[d]
  BY <1>1, <1>2, <1>3 DEF Assigned
<1>4. CASE Rank[d] < Rank[c]
  BY <1>1, <1>2, <1>4 DEF Assigned
<1> QED BY <1>2, <1>3, <1>4

(* A port that is handed out is free on both sides.                        *)
LEMMA AssignedIsFree ==
  ASSUME NEW c, NEW d, NEW U, NEW V
  PROVE  /\ Assigned(c, d, U, V).iport \in Free(U, V) \cup {NoPort}
         /\ Assigned(c, d, U, V).oport \in Free(U, V) \cup {NoPort}
<1>1. Free(U, V) \in SUBSET Nat
  BY PortsAssumption DEF Free
<1>2. First(U, V) \in Free(U, V) \cup {NoPort}
  BY <1>1, LowestIsMember DEF First
<1>3. Second(U, V) \in Free(U, V) \cup {NoPort}
  <2> DEFINE S == Free(U, V) \ {First(U, V)}
  <2>1. S \in SUBSET Nat
    BY <1>1
  <2>2. Lowest(S) \in S \cup {NoPort}
    BY <2>1, LowestIsMember
  <2> QED BY <2>2 DEF Second
<1> QED BY <1>2, <1>3 DEF Assigned

(* While a question is on its way, the ports it lists are still the ones   *)
(* in use, so the answer spares them: AnswerPortsFree from the moment the  *)
(* client asks.                                                            *)
PortsInv ==
  /\ conn = [c \in Clients |-> conn[c]]
  /\ tcp = [c \in Clients |-> tcp[c]]
  /\ \A c \in Clients : tcp[c].kind = "request" =>
       Listening(conn[c]) \subseteq tcp[c].busy
  /\ AnswerPortsFree

LEMMA PortsInit == Init => PortsInv
BY DEF Init, PortsInv, Idle, AnswerPortsFree

(* A client whose connections are gone uses no port.                       *)
LEMMA NoRowListens ==
  ASSUME NEW c \in Clients
  PROVE  Listening(NoRow(c)) = {}
BY DEF Listening, NoRow

(* What one client does leaves the connections and questions of the others *)
(* alone.                                                                  *)
LEMMA PortsOneClient ==
  ASSUME PortsInv, NEW c \in Clients, NEW newConn, NEW newTcp,
         conn' = [conn EXCEPT ![c] = newConn],
         tcp' = [tcp EXCEPT ![c] = newTcp],
         newTcp.kind = "request" => Listening(newConn) \subseteq newTcp.busy,
         newTcp.kind = "answer" =>
           \A d \in DOMAIN newTcp.found :
             newTcp.found[d].iport \notin Listening(newConn) \ {NoPort}
  PROVE  PortsInv'
<1>1. conn'[c] = newConn /\ tcp'[c] = newTcp
  BY DEF PortsInv
<1>2. \A d \in Clients \ {c} : conn'[d] = conn[d] /\ tcp'[d] = tcp[d]
  BY DEF PortsInv
<1>3. conn' = [d \in Clients |-> conn'[d]] /\ tcp' = [d \in Clients |-> tcp'[d]]
  BY DEF PortsInv
<1>4. ASSUME NEW d \in Clients, tcp'[d].kind = "request"
      PROVE  Listening(conn'[d]) \subseteq tcp'[d].busy
  BY <1>1, <1>2, <1>4 DEF PortsInv
<1>5. AnswerPortsFree'
  <2> SUFFICES ASSUME NEW d \in Clients, tcp'[d].kind = "answer",
                      NEW e \in DOMAIN tcp'[d].found
               PROVE  tcp'[d].found[e].iport \notin Listening(conn'[d]) \ {NoPort}
    BY DEF AnswerPortsFree, Listening
  <2>1. CASE d = c
    BY <1>1, <2>1
  <2>2. CASE d # c
    BY <1>2, <2>2 DEF PortsInv, AnswerPortsFree
  <2> QED BY <2>1, <2>2
<1> QED BY <1>3, <1>4, <1>5 DEF PortsInv, Listening

LEMMA PortsUnchanged ==
  ASSUME PortsInv, UNCHANGED <<conn, tcp>>
  PROVE  PortsInv'
BY DEF PortsInv, AnswerPortsFree, Listening

LEMMA PortsCheckIn ==
  ASSUME PortsInv, NEW c \in Clients, CheckIn(c)
  PROVE  PortsInv'
<1> DEFINE new == [kind |-> "request", busy |-> Listening(conn[c]), targets |-> Wanted(c)]
<1>1. conn' = [conn EXCEPT ![c] = conn[c]] /\ tcp' = [tcp EXCEPT ![c] = new]
  BY DEF CheckIn, PortsInv
<1>2. new.kind = "request" /\ new.busy = Listening(conn[c])
  OBVIOUS
<1> HIDE DEF new
<1> QED BY <1>1, <1>2, PortsOneClient

LEMMA PortsServe ==
  ASSUME PortsInv, NEW c \in Clients, Serve(c)
  PROVE  PortsInv'
<1> DEFINE found == [d \in Matches(c, tcp[c].targets) |->
                       Assigned(c, d, tcp[c].busy, session[d].busy)]
           new == [kind |-> "answer", found |-> found]
<1>1. conn' = [conn EXCEPT ![c] = conn[c]] /\ tcp' = [tcp EXCEPT ![c] = new]
  BY DEF Serve, PortsInv
<1>2. \A d \in DOMAIN found : found[d].iport \notin Listening(conn[c]) \ {NoPort}
  <2> SUFFICES ASSUME NEW d \in DOMAIN found
               PROVE  found[d].iport \notin Listening(conn[c]) \ {NoPort}
    OBVIOUS
  <2>1. found[d].iport \in Free(tcp[c].busy, session[d].busy) \cup {NoPort}
    BY AssignedIsFree
  <2>2. Listening(conn[c]) \subseteq tcp[c].busy
    BY DEF PortsInv, Serve
  <2> HIDE DEF found
  <2> QED BY <2>1, <2>2 DEF Free
<1>3. new.kind = "answer" /\ new.found = found
  OBVIOUS
<1> HIDE DEF new, found
<1> QED BY <1>1, <1>2, <1>3, PortsOneClient

LEMMA PortsApplyOrStart ==
  ASSUME PortsInv, NEW c \in Clients, Apply(c) \/ Start(c)
  PROVE  PortsInv'
<1>1. \E row : conn' = [conn EXCEPT ![c] = row] /\ tcp' = [tcp EXCEPT ![c] = Idle]
  <2>1. CASE Apply(c)
    BY <2>1, Zenon DEF Apply
  <2>2. CASE Start(c)
    BY <2>2, Zenon DEF Start
  <2> QED BY <2>1, <2>2
<1>2. Idle.kind = "idle"
  BY DEF Idle
<1> QED BY <1>1, <1>2, PortsOneClient

LEMMA PortsStop ==
  ASSUME PortsInv, NEW c \in Clients, Stop(c)
  PROVE  PortsInv'
<1>1. conn' = [conn EXCEPT ![c] = NoRow(c)] /\ tcp' = [tcp EXCEPT ![c] = tcp[c]]
  BY DEF Stop, PortsInv
<1> QED BY <1>1, NoRowListens, PortsOneClient

(* No answer of the server tells a client to listen on a port it uses      *)
(* already, for any clients, ports, timing, losses and restarts.           *)
THEOREM AnswersSparePorts == Spec => []AnswerPortsFree
<1>1. Init => PortsInv
  BY PortsInit
<1>2. PortsInv /\ [Next]_vars => PortsInv'
  <2> SUFFICES ASSUME PortsInv, [Next]_vars PROVE PortsInv'
    OBVIOUS
  <2>1. ASSUME NEW c \in Clients, CheckIn(c) PROVE PortsInv'
    BY <2>1, PortsCheckIn
  <2>2. ASSUME NEW c \in Clients, Serve(c) PROVE PortsInv'
    BY <2>2, PortsServe
  <2>3. ASSUME NEW c \in Clients, Apply(c) \/ Start(c) PROVE PortsInv'
    BY <2>3, PortsApplyOrStart
  <2>4. ASSUME NEW c \in Clients, Stop(c) PROVE PortsInv'
    BY <2>4, PortsStop
  <2>5. ASSUME NEW c \in Clients, Expire(c) PROVE PortsInv'
    BY <2>5, PortsUnchanged DEF Expire
  <2>6. ASSUME NEW c \in Clients, NEW d \in Befriends[c], Hear(c, d) \/ FallSilent(c, d)
        PROVE  PortsInv'
    BY <2>6, PortsUnchanged DEF Hear, FallSilent
  <2>7. CASE UNCHANGED vars
    BY <2>7, PortsUnchanged DEF vars
  <2> QED BY <2>1, <2>2, <2>3, <2>4, <2>5, <2>6, <2>7 DEF Next
<1>3. PortsInv => AnswerPortsFree
  BY DEF PortsInv
<1> QED BY <1>1, <1>2, <1>3, PTL DEF Spec

----------------------------------------------------------------------------
(* Entries opened one after another.                                       *)

(* The fold of AllOpened exists: it is built for the first entries and     *)
(* extended by one entry at a time.                                        *)
OpeningStep(a, ports, q, g, s) ==
  IF s = {} THEN a ELSE Opened(g[s \ {Max(s)}], q[Max(s)], ports[q[Max(s)]])

IsOpening(a, ports, q, N, g) ==
  g = [s \in SUBSET (1..N) |-> OpeningStep(a, ports, q, g, s)]

LEMMA OpeningExists ==
  ASSUME NEW a, NEW ports, NEW q, NEW N \in Nat
  PROVE  \E g : IsOpening(a, ports, q, N, g)
<1> DEFINE Is(n, g) == g = [s \in SUBSET (1..n) |-> OpeningStep(a, ports, q, g, s)]
           S == {n \in Nat : \E g : Is(n, g)}
<1>1. 0 \in S
  <2> DEFINE z == [s \in SUBSET (1..0) |-> a]
  <2>1. SUBSET (1..0) = {{}}
    OBVIOUS
  <2>2. \A s \in SUBSET (1..0) : OpeningStep(a, ports, q, z, s) = a
    BY <2>1 DEF OpeningStep
  <2>3. Is(0, z)
    BY <2>2, Zenon
  <2> QED BY <2>3
<1>2. ASSUME NEW n \in Nat, n \in S PROVE n + 1 \in S
  <2>1. PICK g : Is(n, g)
    BY <1>2
  <2> DEFINE next(f) == Opened(f, q[n + 1], ports[q[n + 1]])
             G == [s \in SUBSET (1..(n + 1)) |->
                     IF n + 1 \in s THEN next(g[s \ {n + 1}]) ELSE g[s]]
  <2>2. \A s \in SUBSET (1..(n + 1)) :
          /\ s \ {n + 1} \in SUBSET (1..n)
          /\ n + 1 \notin s => s \in SUBSET (1..n)
          /\ \A m : s \ {m} \in SUBSET (1..(n + 1))
    <3> HIDE DEF G, S, Is
    <3>1. ASSUME NEW s \in SUBSET (1..(n + 1))
          PROVE  s \ {n + 1} \in SUBSET (1..n)
      <4>1. \A x \in 1..(n + 1) : x # n + 1 => x \in 1..n
        OBVIOUS
      <4> QED BY <4>1
    <3>2. ASSUME NEW s \in SUBSET (1..(n + 1)), n + 1 \notin s
          PROVE  s \in SUBSET (1..n)
      <4>1. \A x \in 1..(n + 1) : x # n + 1 => x \in 1..n
        OBVIOUS
      <4> QED BY <3>2, <4>1
    <3>3. ASSUME NEW s \in SUBSET (1..(n + 1)), NEW m
          PROVE  s \ {m} \in SUBSET (1..(n + 1))
      BY Zenon
    <3> QED BY <3>1, <3>2, <3>3
  <2>3. ASSUME NEW s \in SUBSET (1..(n + 1))
        PROVE  G[s] = OpeningStep(a, ports, q, G, s)
    <3>1. CASE n + 1 \in s
      <4>1. Max(s) = n + 1
        BY <3>1, GreatestOf
      <4>2. G[s] = next(g[s \ {n + 1}])
        BY <3>1
      <4>3. G[s \ {n + 1}] = g[s \ {n + 1}]
        BY <2>2
      <4>4. s # {}
        BY <3>1
      <4> HIDE DEF G
      <4> QED BY <4>1, <4>2, <4>3, <4>4, Zenon DEF OpeningStep
    <3>2. CASE n + 1 \notin s
      <4>1. G[s] = g[s] /\ s \in SUBSET (1..n)
        BY <2>2, <3>2
      <4>2. g[s] = OpeningStep(a, ports, q, g, s)
        BY <2>1, <4>1, Zenon
      <4>3. G[s \ {Max(s)}] = g[s \ {Max(s)}]
        BY <2>2, <3>2
      <4> HIDE DEF G
      <4> QED BY <4>1, <4>2, <4>3, Zenon DEF OpeningStep
    <3> QED BY <3>1, <3>2
  <2>4. G = [s \in SUBSET (1..(n + 1)) |-> G[s]]
    BY Zenon
  <2> HIDE DEF G
  <2>5. Is(n + 1, G)
    BY <2>3, <2>4, Zenon
  <2> HIDE DEF Is
  <2> QED BY <2>5
<1>3. N \in S
  <2> HIDE DEF S
  <2> QED BY <1>1, <1>2, EveryNatural
<1> QED BY <1>3 DEF IsOpening

(* What opening one entry keeps, opening them all keeps.                   *)
LEMMA AllOpenedKeeps ==
  ASSUME NEW S, NEW a \in S, NEW ports, NEW q, Len(q) \in Nat, DOMAIN q = 1..Len(q),
         \A t \in S : \A n \in 1..Len(q) : Opened(t, q[n], ports[q[n]]) \in S
  PROVE  AllOpened(a, ports, q) \in S
<1> DEFINE N == Len(q)
           IsFold(g) == IsOpening(a, ports, q, N, g)
<1>1. AllOpened(a, ports, q) = (CHOOSE g : IsFold(g))[1..N]
  BY Zenon DEF IsOpening, AllOpened, FoldLeft, MapThenFoldSet, OpeningStep
<1>2. \E g : IsFold(g)
  BY OpeningExists
<1>3. PICK g : IsFold(g) /\ AllOpened(a, ports, q) = g[1..N]
  BY <1>1, <1>2, Zenon
<1> DEFINE T == {n \in Nat : n <= N => g[1..n] \in S}
<1>4. 0 \in T
  <2>1. 1..0 = {} /\ {} \in SUBSET (1..N)
    OBVIOUS
  <2>2. g[{}] = a
    BY <1>3, <2>1, Zenon DEF IsOpening, OpeningStep
  <2>3. g[1..0] \in S
    BY <2>1, <2>2
  <2> QED BY <2>3
<1>5. ASSUME NEW m \in Nat, m \in T PROVE m + 1 \in T
  <2> SUFFICES ASSUME m + 1 <= N PROVE g[1..(m + 1)] \in S
    OBVIOUS
  <2>0. PICK n \in 1..N : n = m + 1
    OBVIOUS
  <2>1. /\ n \in Nat /\ 1..n \in SUBSET (1..N) /\ n \in 1..n /\ 1..n # {}
        /\ (1..n) \ {n} = 1..m
    <3> HIDE DEF T, IsFold
    <3>1. N \in Nat
      OBVIOUS
    <3> HIDE DEF N
    <3>2. n \in Nat /\ n \in 1..n
      BY <3>1
    <3>3. \A x \in 1..n : x \in 1..N
      BY <3>1
    <3>4. \A x : x \in 1..n /\ x # n <=> x \in 1..m
      BY <2>0, <3>1
    <3>5. (1..n) \ {n} = 1..m
      BY <3>4, Zenon
    <3> QED BY <3>2, <3>3, <3>5
  <2>2. Max(1..n) = n
    BY <2>1, GreatestOf
  <2>3. g[1..n] = OpeningStep(a, ports, q, g, 1..n)
    BY <1>3, <2>1, Zenon DEF IsOpening
  <2>4. g[1..n] = Opened(g[1..m], q[n], ports[q[n]])
    BY <2>1, <2>2, <2>3, Zenon DEF OpeningStep
  <2>5. g[1..m] \in S
    <3>1. m <= N
      OBVIOUS
    <3> QED BY <1>5, <3>1
  <2> QED BY <2>0, <2>4, <2>5
<1>6. N \in T
  <2> HIDE DEF T
  <2> QED BY <1>4, <1>5, EveryNatural
<1> QED BY <1>3, <1>6

----------------------------------------------------------------------------
(* There is always a port to hand out.                                     *)

(* The lists of ports a client can be using: no more than it has friends.  *)
Lists(c) == {S \in SUBSET (1..LastPort) : Cardinality(S) <= Cardinality(Befriends[c])}

(* The ports of a connection, and the rows of connections.                 *)
OpenPairs == [iport : 1..LastPort, oport : 1..LastPort]
Rows(c) == [Befriends[c] -> OpenPairs \cup {NoConn}]

LEMMA FriendsAreFinite ==
  ASSUME NEW c \in Clients
  PROVE  /\ Befriends[c] \in SUBSET Clients
         /\ IsFiniteSet(Befriends[c]) /\ Cardinality(Befriends[c]) \in Nat
<1>1. Befriends[c] \in SUBSET Clients
  BY FriendsAssumption
<1>2. IsFiniteSet(Befriends[c])
  BY <1>1, ClientsAssumption, FS_Subset
<1> QED BY <1>1, <1>2, FS_CardinalityType

(* A client listens on no more ports than it has friends.                  *)
LEMMA ListeningIsList ==
  ASSUME NEW c \in Clients, NEW row \in Rows(c)
  PROVE  Listening(row) \in Lists(c)
<1> DEFINE E == {e \in Befriends[c] : row[e] # NoConn}
           f == [e \in E |-> row[e].iport]
<1>0. DOMAIN row = Befriends[c]
  BY DEF Rows
<1>1. \A e \in E : row[e] \in OpenPairs
  BY DEF Rows
<1>2. Listening(row) = {row[e].iport : e \in E}
  BY <1>0 DEF Listening
<1>3. Listening(row) \in SUBSET (1..LastPort)
  <2>1. \A e \in E : row[e].iport \in 1..LastPort
    BY <1>1 DEF OpenPairs
  <2> QED BY <1>2, <2>1
<1>4. f \in Surjection(E, Listening(row))
  <2>1. f \in [E -> Listening(row)]
    BY <1>2
  <2>2. \A p \in Listening(row) : \E e \in E : f[e] = p
    BY <1>2
  <2> QED BY <2>1, <2>2 DEF Surjection
<1>5. IsFiniteSet(E) /\ Cardinality(E) <= Cardinality(Befriends[c])
  <2>1. E \in SUBSET Befriends[c]
    OBVIOUS
  <2> QED BY <2>1, FriendsAreFinite, FS_Subset
<1>6. IsFiniteSet(Listening(row)) /\ Cardinality(Listening(row)) <= Cardinality(E)
  <2> HIDE DEF f, E
  <2> QED BY <1>4, <1>5, FS_Surjection
<1>7. /\ Cardinality(Listening(row)) \in Nat /\ Cardinality(E) \in Nat
      /\ Cardinality(Befriends[c]) \in Nat
  BY <1>5, <1>6, FriendsAreFinite, FS_CardinalityType
<1>8. Cardinality(Listening(row)) <= Cardinality(Befriends[c])
  BY <1>5, <1>6, <1>7
<1> QED BY <1>3, <1>8 DEF Lists

(* Two clients leave at least two ports free,                              *)
LEMMA TwoPortsFree ==
  ASSUME NEW c \in Clients, NEW d \in Clients, c # d,
         NEW U \in Lists(c), NEW V \in Lists(d)
  PROVE  /\ Free(U, V) \in SUBSET (1..LastPort)
         /\ IsFiniteSet(Free(U, V)) /\ Cardinality(Free(U, V)) \in Nat
         /\ Cardinality(Free(U, V)) >= 2
<1> DEFINE P == 1..LastPort
           F == Free(U, V)
           W == U \cup V
<1>1. LastPort \in Nat /\ IsFiniteSet(P) /\ Cardinality(P) = LastPort
  <2>1. LastPort \in Nat /\ 1 \in Int /\ LastPort \in Int
    BY PortsAssumption
  <2>2. IsFiniteSet(P) /\ Cardinality(P) = IF 1 > LastPort THEN 0 ELSE LastPort - 1 + 1
    BY <2>1, FS_Interval
  <2> QED BY <2>1, <2>2
<1>2. F \in SUBSET P /\ U \in SUBSET P /\ V \in SUBSET P
  BY DEF Free, Lists
<1> HIDE DEF P
<1>3. /\ IsFiniteSet(F) /\ IsFiniteSet(U) /\ IsFiniteSet(V)
      /\ Cardinality(F) \in Nat /\ Cardinality(U) \in Nat /\ Cardinality(V) \in Nat
  BY <1>1, <1>2, FS_Subset, FS_CardinalityType
<1>4. IsFiniteSet(U \cap V) /\ Cardinality(U \cap V) \in Nat
  <2>1. U \cap V \in SUBSET P
    BY <1>2
  <2> QED BY <1>1, <2>1, FS_Subset, FS_CardinalityType
<1>5. /\ IsFiniteSet(W) /\ Cardinality(W) \in Nat
      /\ Cardinality(W) = Cardinality(U) + Cardinality(V) - Cardinality(U \cap V)
  BY <1>3, FS_Union, FS_CardinalityType
<1>6. F \cup W = P /\ F \cap W = {}
  BY <1>2 DEF Free, P
<1> HIDE DEF F, W
<1>7. Cardinality(F \cup W) = Cardinality(F) + Cardinality(W) - Cardinality(F \cap W)
  BY <1>3, <1>5, FS_Union
<1>8. LastPort = Cardinality(F) + Cardinality(W)
  <2>1. Cardinality(F \cap W) = 0
    BY <1>6, FS_EmptySet
  <2> QED BY <1>1, <1>3, <1>5, <1>6, <1>7, <2>1
<1>9. Cardinality(W) + 2 <= LastPort
  <2>1. /\ Cardinality(U) <= Cardinality(Befriends[c])
        /\ Cardinality(V) <= Cardinality(Befriends[d])
    BY DEF Lists
  <2>2. Cardinality(Befriends[c]) + Cardinality(Befriends[d]) + 2 <= LastPort
    BY PortsAssumption
  <2>3. Cardinality(Befriends[c]) \in Nat /\ Cardinality(Befriends[d]) \in Nat
    BY FriendsAreFinite
  <2> QED BY <1>1, <1>3, <1>4, <1>5, <2>1, <2>2, <2>3
<1>10. Cardinality(F) >= 2
  BY <1>3, <1>5, <1>8, <1>9
<1> QED BY <1>2, <1>3, <1>10 DEF F, P

(* so the server always finds two different ones.                          *)
THEOREM TwoPorts ==
  ASSUME NEW c \in Clients, NEW d \in Clients, c # d,
         NEW U \in Lists(c), NEW V \in Lists(d)
  PROVE  /\ Assigned(c, d, U, V) \in OpenPairs
         /\ Assigned(c, d, U, V).iport # Assigned(c, d, U, V).oport
<1> DEFINE F == Free(U, V)
           p == First(U, V)
<1>1. /\ F \in SUBSET (1..LastPort) /\ IsFiniteSet(F)
      /\ Cardinality(F) \in Nat /\ Cardinality(F) >= 2
  BY TwoPortsFree
<1>2. \A S \in SUBSET (1..LastPort) : S # {} => Lowest(S) \in S
  <2> SUFFICES ASSUME NEW S \in SUBSET (1..LastPort), S # {} PROVE Lowest(S) \in S
    OBVIOUS
  <2>1. \E q \in S : \A r \in S : q <= r
    BY LeastNatural, PortsAssumption
  <2> QED BY <2>1 DEF Lowest
<1>3. p \in F
  <2>1. F # {}
    <3> HIDE DEF F
    <3> QED BY <1>1, FS_EmptySet
  <2> QED BY <1>1, <1>2, <2>1 DEF First
<1>4. Second(U, V) \in F \ {p}
  <2>1. IsFiniteSet(F \ {p}) /\ Cardinality(F \ {p}) = Cardinality(F) - 1
    <3> HIDE DEF F, p
    <3> QED BY <1>1, <1>3, FS_RemoveElement
  <2>2. F \ {p} # {}
    <3> HIDE DEF F, p
    <3> QED BY <1>1, <2>1, FS_EmptySet
  <2>3. F \ {p} \in SUBSET (1..LastPort)
    BY <1>1
  <2>4. Lowest(F \ {p}) \in F \ {p}
    <3> HIDE DEF F, p
    <3> QED BY <1>2, <2>2, <2>3
  <2> QED BY <2>4 DEF Second
<1> QED BY <1>1, <1>3, <1>4 DEF Assigned, OpenPairs

----------------------------------------------------------------------------
(* What opening entries of D leaves of a client's row: the connections of  *)
(* the other friends, and a row.                                           *)
Openings(c, D, row) ==
  {t \in [up : BOOLEAN, row : Rows(c), files : Rows(c)] :
     \A e \in Befriends[c] \ D : t.row[e] = row[e]}

LEMMA OpenedKeepsRow ==
  ASSUME NEW c \in Clients, NEW D \in SUBSET Befriends[c], NEW row,
         NEW t \in Openings(c, D, row), NEW d \in D, NEW pair \in OpenPairs
  PROVE  Opened(t, d, pair) \in Openings(c, D, row)
<1> DEFINE r2 == [t.row EXCEPT ![d] = pair]
           f2 == [t.files EXCEPT ![d] = pair]
<1>1. /\ t \in [up : BOOLEAN, row : Rows(c), files : Rows(c)]
      /\ t.row \in Rows(c) /\ t.files \in Rows(c)
      /\ \A e \in Befriends[c] \ D : t.row[e] = row[e]
  BY DEF Openings
<1>2. /\ r2 \in Rows(c) /\ f2 \in Rows(c)
      /\ \A e \in Befriends[c] \ D : r2[e] = row[e]
  BY <1>1 DEF Rows
<1>3. \/ Opened(t, d, pair) = t
      \/ Opened(t, d, pair) = [up |-> TRUE, row |-> r2, files |-> f2]
      \/ Opened(t, d, pair) = [t EXCEPT !.files = f2]
      \/ Opened(t, d, pair) = [t EXCEPT !.up = FALSE, !.files = f2]
  BY Zenon DEF Opened
<1> HIDE DEF r2, f2
<1>4. [up |-> TRUE, row |-> r2, files |-> f2] \in Openings(c, D, row)
  BY <1>2 DEF Openings
<1>5. [t EXCEPT !.files = f2] \in Openings(c, D, row)
  BY <1>1, <1>2 DEF Openings
<1>6. [t EXCEPT !.up = FALSE, !.files = f2] \in Openings(c, D, row)
  BY <1>1, <1>2 DEF Openings
<1> QED BY <1>3, <1>4, <1>5, <1>6, Zenon

(* An order of opening is a sequence of the friends.                       *)
LEMMA OrderIs ==
  ASSUME NEW c \in Clients, NEW D \in SUBSET Befriends[c], NEW order \in Orders(D)
  PROVE  /\ Len(order) \in Nat /\ DOMAIN order = 1..Len(order)
         /\ \A n \in 1..Len(order) : order[n] \in D
<1>1. IsFiniteSet(D) /\ Cardinality(D) \in Nat
  BY FriendsAreFinite, FS_Subset, FS_CardinalityType
<1>2. order \in [1..Cardinality(D) -> D]
  BY Zenon DEF Orders, SetToSeqs
<1>3. order \in Seq(D)
  BY <1>1, <1>2, FunctionSeq, Zenon
<1> QED BY <1>3, LenProperties, ElementOfSeq

LEMMA AllOpenedIs ==
  ASSUME NEW c \in Clients, NEW D \in SUBSET Befriends[c], NEW order \in Orders(D),
         NEW ports, \A d \in D : ports[d] \in OpenPairs,
         NEW row \in Rows(c), NEW files \in Rows(c)
  PROVE  /\ AllOpened([up |-> TRUE, row |-> row, files |-> files], ports, order)
              \in Openings(c, D, row)
         /\ LET s == AllOpened([up |-> TRUE, row |-> row, files |-> files], ports, order)
            IN  /\ s.row \in Rows(c) /\ s.files \in Rows(c)
                /\ \A e \in Befriends[c] \ D : s.row[e] = row[e]
<1> DEFINE a == [up |-> TRUE, row |-> row, files |-> files]
           s == AllOpened(a, ports, order)
<1>1. a \in Openings(c, D, row)
  BY DEF Openings
<1>2. \A t \in Openings(c, D, row) : \A n \in 1..Len(order) :
        Opened(t, order[n], ports[order[n]]) \in Openings(c, D, row)
  BY OrderIs, OpenedKeepsRow
<1>3. s \in Openings(c, D, row)
  <2> HIDE DEF a
  <2> QED BY <1>1, <1>2, OrderIs, AllOpenedKeeps
<1>4. \A t \in Openings(c, D, row) :
        /\ t.row \in Rows(c) /\ t.files \in Rows(c)
        /\ \A e \in Befriends[c] \ D : t.row[e] = row[e]
  BY DEF Openings
<1> HIDE DEF s
<1>5. /\ s.row \in Rows(c) /\ s.files \in Rows(c)
      /\ \A e \in Befriends[c] \ D : s.row[e] = row[e]
  BY <1>3, <1>4
<1> QED BY <1>3, <1>5 DEF s

----------------------------------------------------------------------------
(* The types, made inductive: the ports in use, wherever a list of them    *)
(* lies, are real ones and no more than friends, because only the server   *)
(* hands ports out; and a client that does not run hears nobody.           *)
Question(c) ==
  [kind : {"request"}, busy : Lists(c), targets : SUBSET Befriends[c]]
Reply(c, D) == [kind : {"answer"}, found : [D -> OpenPairs]]
Sessions(c) == [known : {TRUE}, busy : Lists(c), targets : SUBSET Befriends[c]]

MessageOK(c, m) ==
  m = Idle \/ m \in Question(c) \/ \E D \in SUBSET Befriends[c] : m \in Reply(c, D)
SessionOK(c, s) == s = NoSession \/ s \in Sessions(c)
ClientOK(c) ==
  /\ conn[c] \in Rows(c) /\ ip_io[c] \in Rows(c)
  /\ active[c] \in SUBSET Befriends[c]
  /\ c \notin running => active[c] = {}
  /\ MessageOK(c, tcp[c]) /\ SessionOK(c, session[c])

TableInv ==
  /\ running \in SUBSET Clients
  /\ conn = [c \in Clients |-> conn[c]] /\ ip_io = [c \in Clients |-> ip_io[c]]
  /\ active = [c \in Clients |-> active[c]]
  /\ tcp = [c \in Clients |-> tcp[c]] /\ session = [c \in Clients |-> session[c]]
  /\ \A c \in Clients : ClientOK(c)

LEMMA NoRowIsRow ==
  ASSUME NEW c \in Clients
  PROVE  NoRow(c) \in Rows(c)
BY DEF NoRow, Rows

LEMMA TableInit ==
  ASSUME Init
  PROVE  TableInv
<1>1. ASSUME NEW c \in Clients PROVE ClientOK(c)
  BY NoRowIsRow DEF Init, ClientOK, MessageOK, SessionOK
<1>2. /\ conn = [c \in Clients |-> conn[c]] /\ ip_io = [c \in Clients |-> ip_io[c]]
      /\ active = [c \in Clients |-> active[c]]
      /\ tcp = [c \in Clients |-> tcp[c]] /\ session = [c \in Clients |-> session[c]]
  BY DEF Init
<1> QED BY <1>1, <1>2 DEF Init, TableInv

(* A step of one client changes the entries of that client only.           *)
LEMMA TableOneClient ==
  ASSUME TableInv, NEW c \in Clients,
         NEW newConn, NEW newFiles, NEW newActive, NEW newTcp, NEW newSession,
         conn' = [conn EXCEPT ![c] = newConn],
         ip_io' = [ip_io EXCEPT ![c] = newFiles],
         active' = [active EXCEPT ![c] = newActive],
         tcp' = [tcp EXCEPT ![c] = newTcp],
         session' = [session EXCEPT ![c] = newSession],
         running' \in {running, running \cup {c}, running \ {c}},
         newConn \in Rows(c), newFiles \in Rows(c), newActive \in SUBSET Befriends[c],
         c \notin running' => newActive = {},
         MessageOK(c, newTcp), SessionOK(c, newSession)
  PROVE  TableInv'
<1>1. /\ conn' = [d \in Clients |-> conn'[d]] /\ ip_io' = [d \in Clients |-> ip_io'[d]]
      /\ active' = [d \in Clients |-> active'[d]]
      /\ tcp' = [d \in Clients |-> tcp'[d]] /\ session' = [d \in Clients |-> session'[d]]
  BY DEF TableInv
<1>2. /\ conn'[c] = newConn /\ ip_io'[c] = newFiles /\ active'[c] = newActive
      /\ tcp'[c] = newTcp /\ session'[c] = newSession
  BY DEF TableInv
<1>3. \A d \in Clients \ {c} :
        /\ conn'[d] = conn[d] /\ ip_io'[d] = ip_io[d] /\ active'[d] = active[d]
        /\ tcp'[d] = tcp[d] /\ session'[d] = session[d]
  BY DEF TableInv
<1>4. running' \in SUBSET Clients /\ \A d \in Clients \ {c} : d \in running' <=> d \in running
  BY DEF TableInv
<1>5. ASSUME NEW d \in Clients PROVE ClientOK(d)'
  <2>1. CASE d = c
    <3>1. MessageOK(c, tcp[c])'
      BY <1>2 DEF MessageOK, OpenPairs, Lists, Question, Reply, Idle
    <3>2. SessionOK(c, session[c])'
      BY <1>2 DEF SessionOK, Lists, Sessions, NoSession
    <3>3. (conn[c] \in Rows(c) /\ ip_io[c] \in Rows(c))'
      BY <1>2 DEF Rows, NoConn, NoPort, OpenPairs
    <3>4. (active[c] \in SUBSET Befriends[c] /\ (c \notin running => active[c] = {}))'
      BY <1>2
    <3> QED BY <2>1, <3>1, <3>2, <3>3, <3>4 DEF ClientOK
  <2>2. CASE d # c
    <3>1. ClientOK(d)
      BY DEF TableInv
    <3> QED BY <1>3, <1>4, <2>2, <3>1
            DEF ClientOK, MessageOK, SessionOK, Rows, NoConn, NoPort, OpenPairs,
                Lists, Question, Reply, Sessions, Idle, NoSession
  <2> QED BY <2>1, <2>2
<1> QED BY <1>1, <1>4, <1>5 DEF TableInv

LEMMA TableStutter ==
  ASSUME TableInv, UNCHANGED vars
  PROVE  TableInv'
BY DEF TableInv, vars, ClientOK, MessageOK, SessionOK, Rows, NoConn, NoPort, OpenPairs,
       Lists, Question, Reply, Sessions, Idle, NoSession

(* What is not changed is changed to itself.                               *)
LEMMA TableSame ==
  ASSUME TableInv, NEW c \in Clients
  PROVE  /\ conn = [conn EXCEPT ![c] = conn[c]] /\ ip_io = [ip_io EXCEPT ![c] = ip_io[c]]
         /\ active = [active EXCEPT ![c] = active[c]] /\ tcp = [tcp EXCEPT ![c] = tcp[c]]
         /\ session = [session EXCEPT ![c] = session[c]]
         /\ ClientOK(c)
BY DEF TableInv

LEMMA TableHear ==
  ASSUME TableInv, NEW c \in Clients, NEW d \in Befriends[c], Hear(c, d) \/ FallSilent(c, d)
  PROVE  TableInv'
<1>1. /\ conn' = conn /\ ip_io' = ip_io /\ tcp' = tcp /\ session' = session
      /\ running' = running
  BY DEF Hear, FallSilent
<1>2. PICK new \in SUBSET Befriends[c] :
        active' = [active EXCEPT ![c] = new] /\ (c \notin running => new = {})
  <2>1. CASE Hear(c, d)
    <3>1. c \in running
      BY <2>1 DEF Hear, Heard, Reaches
    <3>2. active[c] \cup {d} \in SUBSET Befriends[c]
      BY TableSame DEF ClientOK
    <3> QED BY <2>1, <3>1, <3>2 DEF Hear
  <2>2. CASE FallSilent(c, d)
    <3>1. /\ active[c] \ {d} \in SUBSET Befriends[c]
          /\ c \notin running => active[c] \ {d} = {}
      BY TableSame DEF ClientOK
    <3> QED BY <2>2, <3>1 DEF FallSilent
  <2> QED BY <2>1, <2>2
<1> QED BY <1>1, <1>2, TableSame, TableOneClient DEF ClientOK

LEMMA TableCheckIn ==
  ASSUME TableInv, NEW c \in Clients, CheckIn(c)
  PROVE  TableInv'
<1> DEFINE new == [kind |-> "request", busy |-> Listening(conn[c]), targets |-> Wanted(c)]
<1>1. /\ conn' = conn /\ ip_io' = ip_io /\ active' = active /\ session' = session
      /\ running' = running /\ tcp' = [tcp EXCEPT ![c] = new]
  BY DEF CheckIn
<1>2. new \in Question(c)
  <2>1. Listening(conn[c]) \in Lists(c)
    BY TableSame, ListeningIsList DEF ClientOK
  <2>2. Wanted(c) \in SUBSET Befriends[c]
    BY DEF Wanted
  <2> QED BY <2>1, <2>2 DEF Question
<1>3. MessageOK(c, new)
  BY <1>2 DEF MessageOK
<1> HIDE DEF new
<1> QED BY <1>1, <1>3, TableSame, TableOneClient DEF ClientOK

(* The messages by their kind.                                             *)
LEMMA MessageKinds ==
  ASSUME NEW c \in Clients, NEW m, MessageOK(c, m)
  PROVE  /\ m.kind = "request" =>
              m \in Question(c) /\ m.busy \in Lists(c) /\ m.targets \in SUBSET Befriends[c]
         /\ m.kind = "answer" =>
              /\ DOMAIN m.found \in SUBSET Befriends[c]
              /\ \A d \in DOMAIN m.found : m.found[d] \in OpenPairs
BY DEF MessageOK, Question, Reply, Idle

(* An answer as the server builds it: for friends only, and with ports it  *)
(* has.                                                                    *)
LEMMA ReplyIs ==
  ASSUME TableInv, NEW c \in Clients, tcp[c].kind = "request"
  PROVE  /\ Matches(c, tcp[c].targets) \in SUBSET tcp[c].targets
         /\ [kind |-> "answer",
             found |-> [d \in Matches(c, tcp[c].targets) |->
                          Assigned(c, d, tcp[c].busy, session[d].busy)]]
              \in Reply(c, Matches(c, tcp[c].targets))
<1> DEFINE M == Matches(c, tcp[c].targets)
<1>1. M \in SUBSET tcp[c].targets
  BY DEF Matches
<1>2. tcp[c].busy \in Lists(c) /\ tcp[c].targets \in SUBSET Befriends[c]
  BY TableSame, MessageKinds DEF ClientOK
<1>3. ASSUME NEW d \in M
      PROVE  Assigned(c, d, tcp[c].busy, session[d].busy) \in OpenPairs
  <2>1. d \in Clients /\ d # c
    BY <1>1, <1>2, FriendsAssumption
  <2>2. session[d] # NoSession
    BY DEF Matches
  <2>3. session[d].busy \in Lists(d)
    BY <2>1, <2>2, TableSame DEF ClientOK, SessionOK, Sessions
  <2> QED BY <1>2, <2>1, <2>3, TwoPorts
<1> HIDE DEF M
<1>4. [d \in M |-> Assigned(c, d, tcp[c].busy, session[d].busy)] \in [M -> OpenPairs]
  BY <1>3
<1> QED BY <1>1, <1>3, <1>4 DEF Reply, M

LEMMA TableServe ==
  ASSUME TableInv, NEW c \in Clients, Serve(c)
  PROVE  TableInv'
<1> DEFINE M == Matches(c, tcp[c].targets)
           answer == [kind |-> "answer",
                      found |-> [d \in M |-> Assigned(c, d, tcp[c].busy, session[d].busy)]]
           new == [known |-> TRUE, busy |-> tcp[c].busy, targets |-> tcp[c].targets]
<1>1. /\ conn' = conn /\ ip_io' = ip_io /\ active' = active /\ running' = running
      /\ tcp' = [tcp EXCEPT ![c] = answer] /\ session' = [session EXCEPT ![c] = new]
  BY DEF Serve
<1>2. /\ tcp[c].kind = "request"
      /\ tcp[c].busy \in Lists(c) /\ tcp[c].targets \in SUBSET Befriends[c]
  BY TableSame, MessageKinds DEF ClientOK, Serve
<1>3. MessageOK(c, answer)
  <2>1. answer \in Reply(c, M) /\ M \in SUBSET Befriends[c]
    BY <1>2, ReplyIs
  <2> HIDE DEF answer, M
  <2> QED BY <2>1 DEF MessageOK
<1>4. SessionOK(c, new)
  BY <1>2 DEF SessionOK, Sessions
<1> HIDE DEF answer, new
<1> QED BY <1>1, <1>3, <1>4, TableSame, TableOneClient DEF ClientOK

LEMMA TableExpire ==
  ASSUME TableInv, NEW c \in Clients, Expire(c)
  PROVE  TableInv'
<1>1. /\ conn' = conn /\ ip_io' = ip_io /\ active' = active /\ tcp' = tcp
      /\ running' = running /\ session' = [session EXCEPT ![c] = NoSession]
  BY DEF Expire
<1>2. SessionOK(c, NoSession)
  BY DEF SessionOK
<1> QED BY <1>1, <1>2, TableSame, TableOneClient DEF ClientOK

LEMMA TableStop ==
  ASSUME TableInv, NEW c \in Clients, Stop(c)
  PROVE  TableInv'
<1>1. /\ conn' = [conn EXCEPT ![c] = NoRow(c)] /\ active' = [active EXCEPT ![c] = {}]
      /\ ip_io' = ip_io /\ tcp' = tcp /\ session' = session
      /\ running' = running \ {c}
  BY DEF Stop
<1>2. /\ conn[c] \in Rows(c) /\ ip_io[c] \in Rows(c) /\ {} \in SUBSET Befriends[c]
      /\ MessageOK(c, tcp[c]) /\ SessionOK(c, session[c])
      /\ ip_io' = [ip_io EXCEPT ![c] = ip_io[c]] /\ tcp' = [tcp EXCEPT ![c] = tcp[c]]
      /\ session' = [session EXCEPT ![c] = session[c]]
  BY <1>1, TableSame DEF ClientOK
<1> QED BY <1>1, <1>2, NoRowIsRow, TableOneClient

(* What Apply does: the entries are opened; a program that ends leaves no  *)
(* connection and no sign of life.                                         *)
LEMMA ApplyIs ==
  ASSUME TableInv, NEW c \in Clients, Apply(c)
  PROVE  \E row \in Rows(c), files \in Rows(c) :
           /\ ip_io' = [ip_io EXCEPT ![c] = files]
           /\ \/ /\ \A e \in Befriends[c] \ DOMAIN tcp[c].found : row[e] = conn[c][e]
                 /\ conn' = [conn EXCEPT ![c] = row]
                 /\ running' = running /\ active' = [active EXCEPT ![c] = active[c]]
              \/ /\ conn' = [conn EXCEPT ![c] = NoRow(c)]
                 /\ running' = running \ {c} /\ active' = [active EXCEPT ![c] = {}]
<1> DEFINE D == DOMAIN tcp[c].found
<1>1. PICK order \in Orders(D) :
        LET s == AllOpened([up |-> TRUE, row |-> conn[c], files |-> ip_io[c]],
                           tcp[c].found, order)
        IN  /\ ip_io' = [ip_io EXCEPT ![c] = s.files]
            /\ conn' = [conn EXCEPT ![c] = IF s.up THEN s.row ELSE NoRow(c)]
            /\ running' = IF s.up THEN running ELSE running \ {c}
            /\ active' = [active EXCEPT ![c] = IF s.up THEN @ ELSE {}]
  BY Zenon DEF Apply
<1> DEFINE s == AllOpened([up |-> TRUE, row |-> conn[c], files |-> ip_io[c]],
                          tcp[c].found, order)
<1>2. /\ D \in SUBSET Befriends[c] /\ \A d \in D : tcp[c].found[d] \in OpenPairs
  BY TableSame, MessageKinds DEF ClientOK, Apply
<1>3. conn[c] \in Rows(c) /\ ip_io[c] \in Rows(c)
  BY TableSame DEF ClientOK
<1>4. /\ s.row \in Rows(c) /\ s.files \in Rows(c)
      /\ \A e \in Befriends[c] \ D : s.row[e] = conn[c][e]
  BY <1>2, <1>3, AllOpenedIs
<1>5. CASE s.up
  <2>1. /\ ip_io' = [ip_io EXCEPT ![c] = s.files] /\ conn' = [conn EXCEPT ![c] = s.row]
        /\ running' = running /\ active' = [active EXCEPT ![c] = active[c]]
    BY <1>1, <1>5, Zenon
  <2> HIDE DEF s
  <2> QED BY <1>4, <2>1
<1>6. CASE ~s.up
  <2>1. /\ ip_io' = [ip_io EXCEPT ![c] = s.files] /\ conn' = [conn EXCEPT ![c] = NoRow(c)]
        /\ running' = running \ {c} /\ active' = [active EXCEPT ![c] = {}]
    BY <1>1, <1>6, Zenon
  <2> HIDE DEF s
  <2> QED BY <1>4, <2>1
<1> QED BY <1>5, <1>6

LEMMA TableApply ==
  ASSUME TableInv, NEW c \in Clients, Apply(c)
  PROVE  TableInv'
<1>1. /\ tcp' = [tcp EXCEPT ![c] = Idle] /\ session' = session /\ c \in running
      /\ MessageOK(c, Idle)
  BY DEF Apply, MessageOK
<1>2. PICK row \in Rows(c), files \in Rows(c) :
        /\ ip_io' = [ip_io EXCEPT ![c] = files]
        /\ \/ /\ conn' = [conn EXCEPT ![c] = row]
              /\ running' = running /\ active' = [active EXCEPT ![c] = active[c]]
           \/ /\ conn' = [conn EXCEPT ![c] = NoRow(c)]
              /\ running' = running \ {c} /\ active' = [active EXCEPT ![c] = {}]
  BY ApplyIs
<1>3. /\ session' = [session EXCEPT ![c] = session[c]] /\ SessionOK(c, session[c])
      /\ active[c] \in SUBSET Befriends[c]
  BY <1>1, TableSame DEF ClientOK
<1>4. CASE conn' = [conn EXCEPT ![c] = row] /\ running' = running
             /\ active' = [active EXCEPT ![c] = active[c]]
  BY <1>1, <1>2, <1>3, <1>4, TableOneClient
<1>5. CASE conn' = [conn EXCEPT ![c] = NoRow(c)] /\ running' = running \ {c}
             /\ active' = [active EXCEPT ![c] = {}]
  BY <1>1, <1>2, <1>3, <1>5, NoRowIsRow, TableOneClient
<1> QED BY <1>2, <1>4, <1>5

LEMMA TableStart ==
  ASSUME TableInv, NEW c \in Clients, Start(c)
  PROVE  TableInv'
<1> DEFINE D == {d \in Befriends[c] : ip_io[c][d] # NoConn}
<1>1. PICK order \in Orders(D) :
        conn' = [conn EXCEPT ![c] =
          AllOpened([up |-> TRUE, row |-> NoRow(c), files |-> ip_io[c]], ip_io[c], order).row]
  BY Zenon DEF Start
<1> DEFINE new ==
      AllOpened([up |-> TRUE, row |-> NoRow(c), files |-> ip_io[c]], ip_io[c], order).row
<1>2. ip_io[c] \in Rows(c) /\ NoRow(c) \in Rows(c)
  BY NoRowIsRow, TableSame DEF ClientOK
<1>3. D \in SUBSET Befriends[c] /\ \A d \in D : ip_io[c][d] \in OpenPairs
  BY <1>2 DEF Rows
<1>4. new \in Rows(c)
  <2> HIDE DEF D
  <2> QED BY <1>2, <1>3, AllOpenedIs
<1>5. conn' = [conn EXCEPT ![c] = new]
  BY <1>1
<1>6. /\ ip_io' = ip_io /\ active' = active /\ session' = session
      /\ tcp' = [tcp EXCEPT ![c] = Idle]
      /\ running' = running \cup {c} /\ c \in running' /\ MessageOK(c, Idle)
  BY DEF Start, MessageOK
<1> HIDE DEF new
<1> QED BY <1>4, <1>5, <1>6, TableSame, TableOneClient DEF ClientOK

LEMMA TableStep ==
  ASSUME TableInv, [Next]_vars
  PROVE  TableInv'
<1>1. ASSUME NEW c \in Clients, CheckIn(c) PROVE TableInv'
  BY <1>1, TableCheckIn
<1>2. ASSUME NEW c \in Clients, Serve(c) PROVE TableInv'
  BY <1>2, TableServe
<1>3. ASSUME NEW c \in Clients, Apply(c) PROVE TableInv'
  BY <1>3, TableApply
<1>4. ASSUME NEW c \in Clients, Expire(c) PROVE TableInv'
  BY <1>4, TableExpire
<1>5. ASSUME NEW c \in Clients, Stop(c) PROVE TableInv'
  BY <1>5, TableStop
<1>6. ASSUME NEW c \in Clients, Start(c) PROVE TableInv'
  BY <1>6, TableStart
<1>7. ASSUME NEW c \in Clients, NEW d \in Befriends[c], Hear(c, d) \/ FallSilent(c, d)
      PROVE  TableInv'
  BY <1>7, TableHear
<1>8. CASE UNCHANGED vars
  BY <1>8, TableStutter
<1> QED BY <1>1, <1>2, <1>3, <1>4, <1>5, <1>6, <1>7, <1>8 DEF Next

LEMMA TableIsTyped ==
  ASSUME TableInv
  PROVE  TypeOK
<1>1. LastPort \in Nat
  BY PortsAssumption
<1>2. NoConn \in Pairs /\ OpenPairs \in SUBSET Pairs
  BY <1>1 DEF NoConn, NoPort, Pairs, Ports, OpenPairs
<1>3. ASSUME NEW c \in Clients
      PROVE  /\ conn[c] \in [Befriends[c] -> Pairs]
             /\ ip_io[c] \in [Befriends[c] -> Pairs]
             /\ active[c] \subseteq Befriends[c]
             /\ tcp[c] \in {Idle} \cup Request(c) \cup Answer(c)
             /\ session[c] \in {NoSession} \cup Session(c)
  <2>1. ClientOK(c)
    BY TableSame
  <2>2. conn[c] \in [Befriends[c] -> Pairs] /\ ip_io[c] \in [Befriends[c] -> Pairs]
    BY <1>2, <2>1 DEF ClientOK, Rows
  <2>3. tcp[c] \in {Idle} \cup Request(c) \cup Answer(c)
    <3>1. \A m \in Question(c) : m \in Request(c)
      BY DEF Question, Request, Lists
    <3>2. ASSUME NEW D \in SUBSET Befriends[c], NEW m \in Reply(c, D)
          PROVE  m \in Answer(c)
      <4>1. m \in [kind : {"answer"}, found : [D -> Pairs]]
        BY <1>2 DEF Reply
      <4> QED BY <4>1 DEF Answer
    <3> QED BY <2>1, <3>1, <3>2 DEF ClientOK, MessageOK
  <2>4. session[c] \in {NoSession} \cup Session(c)
    BY <2>1 DEF ClientOK, SessionOK, Sessions, Session, Lists
  <2> QED BY <2>1, <2>2, <2>3, <2>4 DEF ClientOK
<1> QED BY <1>3 DEF TableInv, TypeOK

LEMMA TableAlways == Spec => []TableInv
<1>1. TableInv /\ [Next]_vars => TableInv'
  BY TableStep
<1> QED BY <1>1, TableInit, PTL DEF Spec

(* The server's table and the clients' ports keep their types.             *)
THEOREM TypeCorrect == Spec => []TypeOK
BY TableAlways, TableIsTyped, PTL

----------------------------------------------------------------------------
(* A working connection stays.                                             *)

(* No step takes a settled pair apart while its two clients run.           *)
SettledStep ==
  \A e \in Mutual :
    Settled(e[1], e[2]) /\ {e[1], e[2]} \subseteq running' => Settled(e[1], e[2])'

(* One end of a settled pair.                                              *)
End(c, d) ==
  /\ conn[c][d] # NoConn /\ d \in active[c] /\ ~Asks(c, d)

LEMMA EndStays ==
  ASSUME TableInv, [Next]_vars, "silence" \notin Faults,
         NEW c \in Clients, NEW d \in Clients, d \in Befriends[c], c \in Befriends[d],
         Settled(c, d), c \in running', d \in running'
  PROVE  End(c, d)' /\ conn'[c][d] = conn[c][d]
<1> DEFINE Goal == End(c, d)' /\ conn'[c][d] = conn[c][d]
<1>1. c # d /\ conn[c][d] # NoConn /\ d \in active[c] /\ ~Asks(c, d)
  BY FriendsAssumption DEF Settled, Facing
<1>2. ClientOK(c)
  BY TableSame
<1>3. ASSUME NEW x \in Clients, CheckIn(x) PROVE Goal
  <2>1. /\ conn' = conn /\ active' = active
        /\ tcp' = [tcp EXCEPT ![x] = [kind |-> "request", busy |-> Listening(conn[x]),
                                     targets |-> Wanted(x)]]
    BY <1>3 DEF CheckIn
  <2>2. ~Asks(c, d)'
    <3>1. CASE x = c
      <4>1. /\ tcp'[c].kind = "request" /\ tcp'[c].targets = Wanted(c)
        BY <2>1, <3>1 DEF TableInv
      <4>2. d \notin Wanted(c)
        BY <1>1 DEF Wanted
      <4> QED BY <4>1, <4>2 DEF Asks
    <3>2. CASE x # c
      <4>1. tcp'[c] = tcp[c]
        BY <2>1, <3>2 DEF TableInv
      <4> QED BY <1>1, <4>1 DEF Asks
    <3> QED BY <3>1, <3>2
  <2> QED BY <1>1, <2>1, <2>2 DEF End
<1>4. ASSUME NEW x \in Clients, Serve(x) PROVE Goal
  <2> DEFINE M == Matches(x, tcp[x].targets)
             found == [e \in M |-> Assigned(x, e, tcp[x].busy, session[e].busy)]
  <2>1. /\ conn' = conn /\ active' = active /\ tcp[x].kind = "request"
        /\ tcp' = [tcp EXCEPT ![x] = [kind |-> "answer", found |-> found]]
    BY <1>4 DEF Serve
  <2>2. DOMAIN found = M /\ M \subseteq tcp[x].targets
    BY DEF Matches
  <2> HIDE DEF found, M
  <2>3. ~Asks(c, d)'
    <3>1. CASE x = c
      <4>1. tcp'[c].kind = "answer" /\ tcp'[c].found = found
        BY <2>1, <3>1 DEF TableInv
      <4>2. d \notin tcp[c].targets
        BY <1>1, <2>1, <3>1 DEF Asks
      <4> QED BY <2>2, <3>1, <4>1, <4>2 DEF Asks
    <3>2. CASE x # c
      <4>1. tcp'[c] = tcp[c]
        BY <2>1, <3>2 DEF TableInv
      <4> QED BY <1>1, <4>1 DEF Asks
    <3> QED BY <3>1, <3>2
  <2> QED BY <1>1, <2>1, <2>3 DEF End
<1>5. ASSUME NEW x \in Clients, Apply(x) PROVE Goal
  <2>1. tcp' = [tcp EXCEPT ![x] = Idle] /\ tcp[x].kind = "answer" /\ x \in running
    BY <1>5 DEF Apply
  <2>2. PICK row \in Rows(x), files \in Rows(x) :
          \/ /\ \A e \in Befriends[x] \ DOMAIN tcp[x].found : row[e] = conn[x][e]
             /\ conn' = [conn EXCEPT ![x] = row]
             /\ running' = running /\ active' = [active EXCEPT ![x] = active[x]]
          \/ /\ conn' = [conn EXCEPT ![x] = NoRow(x)]
             /\ running' = running \ {x} /\ active' = [active EXCEPT ![x] = {}]
    BY <1>5, ApplyIs
  <2>3. CASE x = c
    <3>1. /\ \A e \in Befriends[c] \ DOMAIN tcp[c].found : row[e] = conn[c][e]
          /\ conn' = [conn EXCEPT ![c] = row] /\ active' = [active EXCEPT ![c] = active[c]]
      BY <2>2, <2>3
    <3>2. d \notin DOMAIN tcp[c].found
      BY <1>1, <2>1, <2>3 DEF Asks
    <3>3. /\ conn'[c][d] = conn[c][d] /\ active'[c] = active[c] /\ tcp'[c] = Idle
      BY <2>1, <2>3, <3>1, <3>2 DEF TableInv
    <3>4. ~Asks(c, d)'
      BY <3>3 DEF Asks, Idle
    <3> QED BY <1>1, <3>3, <3>4 DEF End, NoConn, NoPort
  <2>4. CASE x # c
    <3>1. conn'[c] = conn[c] /\ active'[c] = active[c] /\ tcp'[c] = tcp[c]
      BY <2>1, <2>2, <2>4 DEF TableInv
    <3> QED BY <1>1, <3>1 DEF End, NoConn, NoPort, Asks
  <2> QED BY <2>3, <2>4
<1>6. ASSUME NEW x \in Clients, Expire(x) PROVE Goal
  BY <1>1, <1>6 DEF Expire, End, NoConn, NoPort, Asks
<1>7. ASSUME NEW x \in Clients, Stop(x) PROVE Goal
  <2>1. x # c
    BY <1>7 DEF Stop
  <2>2. conn'[c] = conn[c] /\ active'[c] = active[c] /\ tcp' = tcp
    BY <1>7, <2>1 DEF Stop, TableInv
  <2> QED BY <1>1, <2>2 DEF End, NoConn, NoPort, Asks
<1>8. ASSUME NEW x \in Clients, Start(x) PROVE Goal
  <2>1. x # c
    BY <1>1, <1>2, <1>8 DEF Start, ClientOK
  <2>2. PICK row : conn' = [conn EXCEPT ![x] = row]
    BY <1>8, Zenon DEF Start
  <2>3. tcp' = [tcp EXCEPT ![x] = Idle] /\ active' = active
    BY <1>8 DEF Start
  <2>4. conn'[c] = conn[c] /\ active'[c] = active[c] /\ tcp'[c] = tcp[c]
    BY <2>1, <2>2, <2>3 DEF TableInv
  <2> QED BY <1>1, <2>4 DEF End, NoConn, NoPort, Asks
<1>9. ASSUME NEW x \in Clients, NEW y \in Befriends[x], Hear(x, y) PROVE Goal
  <2>1. conn' = conn /\ tcp' = tcp /\ active' = [active EXCEPT ![x] = active[x] \cup {y}]
    BY <1>9 DEF Hear
  <2>2. d \in active'[c]
    BY <1>1, <2>1 DEF TableInv
  <2> QED BY <1>1, <2>1, <2>2 DEF End, NoConn, NoPort, Asks
<1>10. ASSUME NEW x \in Clients, NEW y \in Befriends[x], FallSilent(x, y) PROVE Goal
  <2>1. /\ conn' = conn /\ tcp' = tcp /\ running' = running
        /\ active' = [active EXCEPT ![x] = active[x] \ {y}] /\ ~Heard(x, y)
    BY <1>10 DEF FallSilent
  <2>2. Reaches(d, c, d)
    BY <1>1, <2>1 DEF Reaches, Settled, Facing
  <2>3. ~(x = c /\ y = d)
    BY <2>1, <2>2 DEF Heard
  <2>4. d \in active'[c]
    BY <1>1, <2>1, <2>3 DEF TableInv
  <2> QED BY <1>1, <2>1, <2>4 DEF End, NoConn, NoPort, Asks
<1>11. ASSUME UNCHANGED vars PROVE Goal
  BY <1>1, <1>11 DEF vars, End, NoConn, NoPort, Asks
<1> HIDE DEF Goal
<1>12. ASSUME Next PROVE Goal
  <2>1. PICK x \in Clients :
          \/ CheckIn(x) \/ Serve(x) \/ Apply(x) \/ Expire(x) \/ Stop(x) \/ Start(x)
          \/ \E y \in Befriends[x] : Hear(x, y) \/ FallSilent(x, y)
    BY <1>12, Zenon DEF Next
  <2> QED BY <2>1, <1>3, <1>4, <1>5, <1>6, <1>7, <1>8, <1>9, <1>10
<1>13. Goal
  BY <1>11, <1>12
<1> QED BY <1>13 DEF Goal

LEMMA SettledHolds ==
  ASSUME TableInv, [Next]_vars, "silence" \notin Faults
  PROVE  SettledStep
<1> SUFFICES ASSUME NEW e \in Mutual, Settled(e[1], e[2]), {e[1], e[2]} \subseteq running'
             PROVE  Settled(e[1], e[2])'
  BY DEF SettledStep
<1>1. PICK c \in Clients, d \in Clients : e = <<c, d>>
  BY DEF Mutual
<1>2. /\ e[1] = c /\ e[2] = d /\ d \in Befriends[c] /\ c \in Befriends[d]
      /\ c \in running' /\ d \in running' /\ Settled(c, d)
  BY <1>1 DEF Mutual
<1>3. Settled(d, c)
  BY <1>2 DEF Settled, Facing
<1>4. End(c, d)' /\ conn'[c][d] = conn[c][d]
  BY <1>2, EndStays
<1>5. End(d, c)' /\ conn'[d][c] = conn[d][c]
  BY <1>2, <1>3, EndStays
<1>6. Settled(c, d)'
  BY <1>2, <1>4, <1>5 DEF Settled, Facing, End, NoConn, NoPort, Asks
<1> QED BY <1>2, <1>6

(* The routine never takes a working connection down, for any clients,     *)
(* friendships, old sessions and restarts, as long as no punches are lost. *)
THEOREM ConnectionsStay ==
  ASSUME "silence" \notin Faults
  PROVE  Spec => SettledStays
<1>1. TableInv /\ [Next]_vars => SettledStep
  BY SettledHolds
<1>2. SettledStep =>
        \A e \in Mutual :
          Settled(e[1], e[2]) /\ {e[1], e[2]} \subseteq running' => Settled(e[1], e[2])'
  BY DEF SettledStep
<1> QED BY <1>1, <1>2, TableAlways, PTL DEF Spec, SettledStays

-----------------------------------------------------------------------------
(* The usual timing.                                                       *)

(* TimedRendezvous adds no behaviour: each of its steps is one of          *)
(* Rendezvous, so whatever is proved of any timing holds in the usual one. *)
THEOREM TimedIsRendezvous == TimedSpec => Spec
<1>1. TimedInit => Init
  BY DEF TimedInit
<1>2. [TimedNext]_timedVars => [Next]_vars
  <2> SUFFICES ASSUME TimedNext PROVE Next
    BY DEF timedVars
  <2>1. PICK c \in Clients :
          \/ TimedCheckIn(c)
          \/ Untimed(Serve(c)) \/ Untimed(Apply(c))
          \/ \E d \in Befriends[c] : Untimed(Hear(c, d)) \/ Untimed(FallSilent(c, d))
    BY DEF TimedNext
  <2>2. \/ CheckIn(c) \/ Serve(c) \/ Apply(c)
        \/ \E d \in Befriends[c] : Hear(c, d) \/ FallSilent(c, d)
    BY <2>1 DEF TimedCheckIn, Untimed
  <2> QED BY <2>2 DEF Next
<1> QED BY <1>1, <1>2, PTL DEF TimedSpec, Spec

(* In particular the check-ins of the other clients, which take turns with *)
(* those of the two, never take their connection down.                     *)
THEOREM TimedConnectionsStay ==
  ASSUME "silence" \notin Faults
  PROVE  TimedSpec => SettledStays
BY TimedIsRendezvous, ConnectionsStay, PTL
=============================================================================

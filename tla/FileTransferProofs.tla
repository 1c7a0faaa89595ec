------------------------- MODULE FileTransferProofs -------------------------
(***************************************************************************)
(* Theorems of FileTransfer, for any files, chunk counts and bounds, as    *)
(* long as no two uploads share a message identifier: what the receiver    *)
(* writes has every chunk of one upload in its place, some garbled if keys *)
(* were exchanged on the way, and is the whole upload if they were not.    *)
(***************************************************************************)
EXTENDS MCFileTransfer, QueueLemmas, FiniteSetTheorems, TLAPS

(* The chunks a file is cut into; an empty file still gets one.            *)
Parts == {q \in Files \X Nat : q[2] < Chunks[q[1]] \/ (Chunks[q[1]] = 0 /\ q[2] = 0)}

(* A chunk packet; another key than the first one only after an exchange.  *)
SealingKeys == {k \in Keys : k = 1 \/ "rekey" \in Faults}
SealedChunk(q, k) ==
  [kind |-> "chunk", mid |-> Mid[q[1]], pid |-> q[2], key |-> k, data |-> q]

Sent == {Header(f) : f \in Files} \cup {SealedChunk(q, k) : q \in Parts, k \in SealingKeys}

(* What may stand in the place of chunk i of file f.                       *)
Pieces(f, i) == {<<f, i>>} \cup {g \in {Garbage} : "rekey" \in Faults}

(* Record r collects chunks of file f and of no other.                     *)
Collecting(r, f) ==
  /\ r = [total |-> Chunks[f], path |-> r.path, chunks |-> r.chunks]
  /\ r.path[1] = Name[f]
  /\ r.chunks = [i \in DOMAIN r.chunks |-> r.chunks[i]]
  /\ \A i \in DOMAIN r.chunks : <<f, i>> \in Parts /\ r.chunks[i] \in Pieces(f, i)

(* Contents c are file f, chunk for chunk.                                 *)
CopyOf(c, f) ==
  /\ c = [i \in 1..Chunks[f] |-> c[i]]
  /\ \A i \in 1..Chunks[f] : c[i] \in Pieces(f, i - 1)

Copies ==
  \A path \in DOMAIN disk : \E f \in Files : path[1] = Name[f] /\ CopyOf(disk[path], f)

(* Copies alone is not inductive: what completes a file was collected      *)
(* before, sent before that, and armed in the timer before that.           *)
SavedInv ==
  /\ keys \in [Sides -> SealingKeys]
  /\ wait \in Seq(Parts)
  /\ ready \in Seq(Parts)
  /\ net \in Seq(Sent)
  /\ \A m \in DOMAIN incoming : \E f \in Files : Mid[f] = m /\ Collecting(incoming[m], f)
  /\ Copies

LEMMA CopiesInPlace == Copies => PiecesInPlace
<1> SUFFICES ASSUME Copies, NEW path \in DOMAIN disk
             PROVE  \E f \in Files :
                      /\ path[1] = Name[f]
                      /\ Len(disk[path]) = Chunks[f]
                      /\ \A i \in 1..Chunks[f] : disk[path][i] \in {<<f, i - 1>>, Garbage}
  BY DEF PiecesInPlace
<1>1. PICK f \in Files : path[1] = Name[f] /\ CopyOf(disk[path], f)
  BY DEF Copies
<1> DEFINE c == disk[path]
           N == Chunks[f]
<1>2. N \in Nat /\ c = [i \in 1..N |-> c[i]] /\ \A i \in 1..N : c[i] \in {<<f, i - 1>>, Garbage}
  BY <1>1, FilesAssumption DEF CopyOf, Pieces
<1>3. Len(c) = N
  <2> HIDE DEF c, N
  <2> QED BY <1>2
<1> QED BY <1>1, <1>2, <1>3

LEMMA CopiesWhole == Copies /\ "rekey" \notin Faults => SavedWhole
<1> SUFFICES ASSUME Copies, "rekey" \notin Faults, NEW path \in DOMAIN disk
             PROVE  \E f \in Files : disk[path] = Whole(f) /\ path[1] = Name[f]
  BY DEF SavedWhole
<1>1. PICK f \in Files : path[1] = Name[f] /\ CopyOf(disk[path], f)
  BY DEF Copies
<1>2. \A i \in 1..Chunks[f] : disk[path][i] = <<f, i - 1>>
  BY <1>1 DEF CopyOf, Pieces
<1>3. disk[path] = Whole(f)
  BY <1>1, <1>2 DEF CopyOf, Whole
<1> QED BY <1>1, <1>3

(* A full record assembles to a copy of the file.                          *)
LEMMA FullRecord ==
  ASSUME NEW f \in Files, NEW r, Collecting(r, f),
         NEW i \in DOMAIN r.chunks,
         Cardinality(DOMAIN r.chunks) = r.total
  PROVE  CopyOf(Assembled(r), f)
<1> DEFINE N == Chunks[f]
           D == DOMAIN r.chunks
<1>1. N \in Nat /\ r.total = N
  BY FilesAssumption DEF Collecting
<1>2. \A j \in D : j \in Nat /\ (j < N \/ (N = 0 /\ j = 0))
  BY DEF Collecting, Parts
<1>3. N # 0
  <2> SUFFICES ASSUME N = 0 PROVE FALSE
    OBVIOUS
  <2>1. D = {i}
    BY <1>2, i \in D
  <2>2. Cardinality(D) = 1
    BY <2>1, FS_Singleton
  <2> QED BY <2>2, <1>1
<1>4. D \in SUBSET (0..(N - 1))
  BY <1>1, <1>2, <1>3
<1>5. IsFiniteSet(0..(N - 1)) /\ Cardinality(0..(N - 1)) = N
  <2>1. 0 \in Int /\ N - 1 \in Int /\ ~(0 > N - 1) /\ N - 1 - 0 + 1 = N
    BY <1>1, <1>3
  <2> HIDE DEF N
  <2> QED BY <2>1, FS_Interval
<1>6. D = 0..(N - 1)
  <2>1. Cardinality(D) = Cardinality(0..(N - 1))
    BY <1>1, <1>5
  <2> HIDE DEF N, D
  <2> QED BY <1>4, <1>5, <2>1, FS_Subset
<1> DEFINE Stop(k) == /\ \A j \in 0..(k - 1) : j \in D
                      /\ k = N \/ k \notin D
           length == CHOOSE k \in 0..N : Stop(k)
<1>7. N \in 0..N /\ Stop(N)
  BY <1>1, <1>6
<1>8. \A k \in 0..N : Stop(k) => k = N
  BY <1>1, <1>6
<1>9. length = N
  <2> HIDE DEF Stop
  <2> QED BY <1>7, <1>8
<1>10. Assembled(r) = [j \in 1..N |-> r.chunks[j - 1]]
  <2>1. Assembled(r) = [j \in 1..length |-> r.chunks[j - 1]]
    BY <1>1 DEF Assembled
  <2> QED BY <2>1, <1>9
<1>11. \A j \in 1..N : r.chunks[j - 1] \in Pieces(f, j - 1)
  <2>1. \A j \in 1..N : j - 1 \in D
    BY <1>1, <1>6
  <2>2. \A x \in D : r.chunks[x] \in Pieces(f, x)
    BY DEF Collecting
  <2> QED BY <2>1, <2>2
<1> QED BY <1>10, <1>11 DEF CopyOf

(* A packet taken from the network is one that was sent.                   *)
LEMMA TakenPacket ==
  ASSUME SavedInv, NEW n \in DOMAIN net
  PROVE  net[n] \in Sent /\ RemoveAt(net, n) \in Seq(Sent)
<1>1. net \in Seq(Sent) /\ n \in 1..Len(net)
  BY LenProperties DEF SavedInv
<1> QED BY <1>1, ElementOfSeq, RemoveAtProperties

(* Setting one record of incoming keeps the others.                        *)
LEMMA PutCollecting ==
  ASSUME SavedInv, NEW f \in Files, NEW r, Collecting(r, f), NEW m, m = Mid[f]
  PROVE  \A x \in DOMAIN Put(incoming, m, r) :
           \E g \in Files : Mid[g] = x /\ Collecting(Put(incoming, m, r)[x], g)
<1> SUFFICES ASSUME NEW x \in DOMAIN incoming \cup {m}
             PROVE  \E g \in Files : /\ Mid[g] = x
                                     /\ Collecting(IF x = m THEN r ELSE incoming[x], g)
  BY DEF Put
<1>1. CASE x = m
  BY <1>1
<1>2. CASE x # m
  BY <1>2 DEF SavedInv
<1> QED BY <1>1, <1>2

LEMMA SavedInit == Init => SavedInv
<1> SUFFICES ASSUME Init PROVE SavedInv
  OBVIOUS
<1>1. <<>> \in Seq(Parts) /\ <<>> \in Seq(Sent)
  OBVIOUS
<1>2. DOMAIN incoming = {} /\ DOMAIN disk = {}
  BY DEF Init
<1>3. keys \in [Sides -> SealingKeys]
  BY DEF Init, SealingKeys, Keys
<1> QED BY <1>1, <1>2, <1>3 DEF Init, SavedInv, Copies

LEMMA CopiesStay ==
  ASSUME Copies, disk' = disk
  PROVE  Copies'
BY DEF Copies, CopyOf, Pieces

(* The actions of the sender and of the environment write no file and      *)
(* change no record, except that records may be forgotten.                 *)
LEMMA SavedIfQueuesAre ==
  ASSUME SavedInv, UNCHANGED <<disk, keys>>,
         incoming' = incoming \/ incoming' = <<>>,
         wait' \in Seq(Parts), ready' \in Seq(Parts), net' \in Seq(Sent)
  PROVE  SavedInv'
<1>1. \A m \in DOMAIN incoming' : \E f \in Files : Mid[f] = m /\ Collecting(incoming'[m], f)
  BY DEF SavedInv
<1>2. Copies'
  BY CopiesStay DEF SavedInv
<1> QED BY <1>1, <1>2 DEF SavedInv, Collecting

LEMMA SavedUpload ==
  ASSUME SavedInv, NEW f \in Files, Upload(f)
  PROVE  SavedInv'
<1>1. <<f, 0>> \in Parts
  BY FilesAssumption DEF Parts
<1>2. wait' \in Seq(Parts)
  BY <1>1 DEF Upload, Armed
<1>3. net' \in Seq(Sent)
  <2>1. Header(f) \in Sent
    BY DEF Sent
  <2> QED BY <2>1, AppendProperties DEF Upload, SavedInv
<1> QED BY <1>2, <1>3, SavedIfQueuesAre DEF Upload, SavedInv

LEMMA SavedTimer ==
  ASSUME SavedInv, TimerExpires
  PROVE  SavedInv'
<1>1. ready' \in Seq(Parts)
  BY ConcatProperties DEF TimerExpires, SavedInv
<1> QED BY <1>1, SavedIfQueuesAre DEF TimerExpires, SavedInv

LEMMA SavedSendChunk ==
  ASSUME SavedInv, SendChunk
  PROVE  SavedInv'
<1> DEFINE q == Head(ready)
<1>1. q \in Parts /\ ready' \in Seq(Parts)
  BY HeadTailProperties DEF SavedInv, SendChunk
<1>2. q[1] \in Files /\ q[2] \in Nat /\ q = <<q[1], q[2]>>
  BY <1>1 DEF Parts
<1>3. keys["sender"] \in SealingKeys
  BY DEF SavedInv, Sides
<1>4. CASE keys["sender"] = 0
  BY <1>1, <1>4, SavedIfQueuesAre DEF SendChunk, SavedInv
<1>5. CASE keys["sender"] # 0
  <2>1. /\ net' = Append(net, Chunk(q[1], q[2]))
        /\ wait' = IF More(q[1], q[2]) THEN Armed(q[1], q[2] + 1) ELSE wait
    BY <1>5 DEF SendChunk
  <2>2. net' \in Seq(Sent)
    <3>1. Chunk(q[1], q[2]) = SealedChunk(q, keys["sender"])
      BY <1>2 DEF Chunk, SealedChunk
    <3>2. SealedChunk(q, keys["sender"]) \in Sent
      BY <1>1, <1>3 DEF Sent
    <3> QED BY <2>1, <3>1, <3>2, AppendProperties DEF SavedInv
  <2>3. CASE More(q[1], q[2])
    <3>1. <<q[1], q[2] + 1>> \in Parts
      BY <1>2, <2>3, FilesAssumption DEF More, Parts
    <3>2. wait' \in Seq(Parts)
      BY <2>1, <2>3, <3>1 DEF Armed
    <3> QED BY <1>1, <2>2, <3>2, SavedIfQueuesAre DEF SendChunk, SavedInv
  <2>4. CASE ~More(q[1], q[2])
    BY <1>1, <2>1, <2>2, <2>4, SavedIfQueuesAre DEF SendChunk, SavedInv
  <2> QED BY <2>3, <2>4
<1> QED BY <1>4, <1>5

LEMMA SavedRecvHeader ==
  ASSUME SavedInv, NEW n \in DOMAIN net, RecvHeader(n)
  PROVE  SavedInv'
<1>1. net[n] \in Sent /\ net' \in Seq(Sent)
  BY TakenPacket DEF RecvHeader
<1>2. PICK f \in Files : net[n] = Header(f)
  BY <1>1 DEF RecvHeader, Sent, SealedChunk
<1> DEFINE r == [total |-> net[n].total, path |-> FreePath(net[n].name), chunks |-> <<>>]
<1>3. incoming' = Put(incoming, Mid[f], r)
  BY <1>2 DEF RecvHeader, Header
<1>4. Collecting(r, f)
  <2>1. FreePath(Name[f])[1] = Name[f]
    BY DEF FreePath
  <2>2. net[n].total = Chunks[f] /\ net[n].name = Name[f]
    BY <1>2 DEF Header
  <2>3. DOMAIN <<>> = {} /\ <<>> = [i \in {} |-> <<>>[i]]
    OBVIOUS
  <2>4. /\ r.total = Chunks[f] /\ r.chunks = <<>> /\ r.path[1] = Name[f]
        /\ r = [total |-> r.total, path |-> r.path, chunks |-> r.chunks]
    BY <2>1, <2>2
  <2> HIDE DEF r
  <2> QED BY <2>3, <2>4 DEF Collecting
<1>5. \A m \in DOMAIN incoming' : \E g \in Files : Mid[g] = m /\ Collecting(incoming'[m], g)
  <2> HIDE DEF r
  <2> QED BY <1>3, <1>4, PutCollecting
<1>6. Copies'
  BY CopiesStay DEF RecvHeader, SavedInv
<1> QED BY <1>1, <1>5, <1>6 DEF RecvHeader, SavedInv, Collecting

(* The record of a message identifier and the chunk that arrives for it    *)
(* are of one file, because no two files share the identifier.             *)
LEMMA SavedRecvChunk ==
  ASSUME SavedInv, \A f, g \in Files : Mid[f] = Mid[g] => f = g,
         NEW n \in DOMAIN net, RecvChunk(n)
  PROVE  SavedInv'
<1> DEFINE m == net[n]
<1>1. m \in Sent /\ net' \in Seq(Sent)
  BY TakenPacket DEF RecvChunk
<1>2. PICK q \in Parts, k \in SealingKeys : m = SealedChunk(q, k)
  BY <1>1 DEF RecvChunk, Sent, Header
<1>3. /\ q[1] \in Files /\ q[2] \in Nat /\ q = <<q[1], q[2]>>
      /\ m.mid = Mid[q[1]] /\ m.pid = q[2] /\ m.key \in SealingKeys /\ m.data = q
  BY <1>2 DEF SealedChunk, Parts
<1>4. UNCHANGED <<incoming, disk>> => SavedInv'
  <2>1. UNCHANGED <<wait, ready, keys>>
    BY DEF RecvChunk
  <2> QED BY <1>1, <2>1, SavedIfQueuesAre DEF SavedInv
<1>5. CASE m.mid \notin DOMAIN incoming
  BY <1>4, <1>5 DEF RecvChunk
<1>6. CASE m.mid \in DOMAIN incoming
  <2>1. PICK data \in Decrypted(m) :
          IF data = <<>>
            THEN UNCHANGED <<incoming, disk>>
            ELSE LET r == [incoming[m.mid] EXCEPT !.chunks = Put(@, m.pid, data[1])]
                 IN  IF Complete(r, m.pid)
                       THEN /\ disk' = Put(disk, r.path, Assembled(r))
                            /\ incoming' = [x \in DOMAIN incoming \ {m.mid} |-> incoming[x]]
                       ELSE /\ incoming' = Put(incoming, m.mid, r)
                            /\ UNCHANGED disk
    BY <1>6 DEF RecvChunk
  <2>2. CASE data = <<>>
    BY <1>4, <2>1, <2>2
  <2>3. CASE data # <<>>
    <3> DEFINE old == incoming[m.mid]
               piece == data[1]
               r == [old EXCEPT !.chunks = Put(old.chunks, m.pid, piece)]
    <3>1. PICK f \in Files : Mid[f] = m.mid /\ Collecting(old, f)
      BY <1>6 DEF SavedInv
    <3>2. f = q[1]
      BY <1>3, <3>1
    <3>3. piece \in Pieces(f, q[2])
      <4>1. keys["receiver"] \in SealingKeys
        BY DEF SavedInv, Sides
      <4>2. "rekey" \notin Faults => m.key = keys["receiver"] /\ keys["receiver"] # 0
        BY <1>3, <4>1 DEF SealingKeys
      <4> QED BY <1>3, <2>3, <3>2, <4>2 DEF Decrypted, Pieces
    <3>4. r = [total |-> Chunks[f], path |-> old.path,
               chunks |-> Put(old.chunks, q[2], piece)]
      <4>1. m.pid = q[2]
        BY <1>3
      <4>2. old = [total |-> Chunks[f], path |-> old.path, chunks |-> old.chunks]
        BY <3>1 DEF Collecting
      <4> QED BY <4>1, <4>2
    <3>5. Collecting(r, f) /\ q[2] \in DOMAIN r.chunks
      <4> DEFINE c == Put(old.chunks, q[2], piece)
      <4>1. DOMAIN c = DOMAIN old.chunks \cup {q[2]}
        BY DEF Put
      <4> HIDE DEF piece
      <4>2. \A i \in DOMAIN c : <<f, i>> \in Parts /\ c[i] \in Pieces(f, i)
        BY <1>3, <3>1, <3>2, <3>3 DEF Put, Collecting
      <4>3. c = [i \in DOMAIN c |-> c[i]]
        BY <4>1 DEF Put
      <4>4. r.total = Chunks[f] /\ r.path = old.path /\ r.chunks = c
        BY <3>4
      <4>5. old.path[1] = Name[f]
        BY <3>1 DEF Collecting
      <4> HIDE DEF c, r, old
      <4> QED BY <3>4, <4>1, <4>2, <4>3, <4>4, <4>5 DEF Collecting
    <3>6. \/ /\ Complete(r, m.pid)
             /\ disk' = Put(disk, r.path, Assembled(r))
             /\ incoming' = [x \in DOMAIN incoming \ {m.mid} |-> incoming[x]]
          \/ /\ incoming' = Put(incoming, m.mid, r)
             /\ disk' = disk
      BY <2>1, <2>3
    <3> HIDE DEF r, old
    <3>7. CASE /\ Complete(r, m.pid)
               /\ disk' = Put(disk, r.path, Assembled(r))
               /\ incoming' = [x \in DOMAIN incoming \ {m.mid} |-> incoming[x]]
      <4>1. CopyOf(Assembled(r), f)
        BY <3>5, <3>7, FullRecord DEF Complete
      <4>2. r.path[1] = Name[f]
        BY <3>5 DEF Collecting
      <4>3. \A path \in DOMAIN disk' : disk'[path] = IF path = r.path THEN Assembled(r) ELSE disk[path]
        BY <3>7 DEF Put
      <4>4. DOMAIN disk' = DOMAIN disk \cup {r.path}
        BY <3>7 DEF Put
      <4>5. Copies'
        <5> SUFFICES ASSUME NEW path \in DOMAIN disk'
                     PROVE  \E g \in Files : path[1] = Name[g] /\ CopyOf(disk'[path], g)
          BY DEF Copies, CopyOf, Pieces
        <5>1. CASE path = r.path
          BY <4>1, <4>2, <4>3, <5>1
        <5>2. CASE path # r.path
          BY <4>3, <4>4, <5>2 DEF SavedInv, Copies
        <5> QED BY <5>1, <5>2
      <4>6. \A x \in DOMAIN incoming' : \E g \in Files : Mid[g] = x /\ Collecting(incoming'[x], g)
        BY <3>7 DEF SavedInv
      <4> QED BY <1>1, <4>5, <4>6 DEF RecvChunk, SavedInv, Collecting
    <3>8. CASE incoming' = Put(incoming, m.mid, r) /\ disk' = disk
      <4>1. \A x \in DOMAIN incoming' : \E g \in Files : Mid[g] = x /\ Collecting(incoming'[x], g)
        BY <3>1, <3>5, <3>8, PutCollecting
      <4>2. Copies'
        BY <3>8, CopiesStay DEF SavedInv
      <4> QED BY <1>1, <4>1, <4>2 DEF RecvChunk, SavedInv, Collecting
    <3> QED BY <3>6, <3>7, <3>8
  <2> QED BY <2>2, <2>3
<1> QED BY <1>5, <1>6

LEMMA SavedNetwork ==
  ASSUME SavedInv, Lose \/ Duplicate
  PROVE  SavedInv'
<1>1. net' \in Seq(Sent)
  <2>1. CASE Lose
    BY <2>1, TakenPacket DEF Lose
  <2>2. CASE Duplicate
    <3>1. PICK n \in DOMAIN net : net' = Append(net, net[n])
      BY <2>2 DEF Duplicate
    <3>2. net \in Seq(Sent)
      BY DEF SavedInv
    <3> QED BY <3>1, <3>2, TakenPacket, AppendProperties
  <2> QED BY <2>1, <2>2
<1>2. UNCHANGED <<wait, ready, incoming, disk, keys>>
  BY DEF Lose, Duplicate
<1> QED BY <1>1, <1>2, SavedIfQueuesAre DEF SavedInv

LEMMA SavedRestart ==
  ASSUME SavedInv, RestartSender \/ RestartReceiver
  PROVE  SavedInv'
<1>1. <<>> \in Seq(Parts)
  OBVIOUS
<1>2. CASE RestartSender
  BY <1>1, <1>2, SavedIfQueuesAre DEF RestartSender, SavedInv
<1>3. CASE RestartReceiver
  BY <1>3, SavedIfQueuesAre DEF RestartReceiver, SavedInv
<1> QED BY <1>2, <1>3

(* A key exchange, whatever keys it leaves the two sides with.            *)
LEMMA SavedRekey ==
  ASSUME SavedInv, Rekey
  PROVE  SavedInv'
<1>1. keys' \in [Sides -> SealingKeys]
  BY DEF Rekey, SavedInv, SealingKeys
<1>2. Copies'
  <2>1. disk' = disk
    BY DEF Rekey
  <2> QED BY <2>1, CopiesStay DEF SavedInv
<1> QED BY <1>1, <1>2 DEF Rekey, SavedInv

LEMMA SavedStep ==
  ASSUME \A f, g \in Files : Mid[f] = Mid[g] => f = g,
         SavedInv, [Next]_vars
  PROVE  SavedInv'
<1>1. ASSUME NEW f \in Files, Upload(f) PROVE SavedInv'
  BY <1>1, SavedUpload
<1>2. CASE TimerExpires
  BY <1>2, SavedTimer
<1>3. CASE SendChunk
  BY <1>3, SavedSendChunk
<1>4. CASE Receive
  <2>1. PICK n \in DOMAIN net : RecvHeader(n) \/ RecvChunk(n)
    BY <1>4 DEF Receive, Deliverable
  <2> QED BY <2>1, SavedRecvHeader, SavedRecvChunk
<1>5. CASE Lose \/ Duplicate
  BY <1>5, SavedNetwork
<1>6. CASE RestartSender \/ RestartReceiver
  BY <1>6, SavedRestart
<1>7. CASE Rekey
  BY <1>7, SavedRekey
<1>8. CASE UNCHANGED vars
  BY <1>8, SavedIfQueuesAre DEF vars, SavedInv
<1> QED BY <1>1, <1>2, <1>3, <1>4, <1>5, <1>6, <1>7, <1>8 DEF Next

(* Where no two uploads share a message identifier, every file the         *)
(* receiver writes has all the chunks of one upload, each in its place or  *)
(* garbled: for any files and any loss, repetition, reordering, restart,   *)
(* overlap of uploads and exchange of keys.                                *)
THEOREM FilesInPlace ==
  ASSUME \A f, g \in Files : Mid[f] = Mid[g] => f = g
  PROVE  Spec => []PiecesInPlace
<1>1. SavedInv /\ [Next]_vars => SavedInv'
  BY SavedStep
<1>2. SavedInv => PiecesInPlace
  BY CopiesInPlace DEF SavedInv
<1> QED BY <1>1, <1>2, SavedInit, PTL DEF Spec

(* If moreover no key exchange falls between, every file the receiver      *)
(* writes is the whole of one upload.                                      *)
THEOREM FilesSavedWhole ==
  ASSUME \A f, g \in Files : Mid[f] = Mid[g] => f = g,
         "rekey" \notin Faults
  PROVE  Spec => []SavedWhole
<1>1. SavedInv /\ [Next]_vars => SavedInv'
  BY SavedStep
<1>2. SavedInv => SavedWhole
  BY CopiesWhole DEF SavedInv
<1> QED BY <1>1, <1>2, SavedInit, PTL DEF Spec

----------------------------------------------------------------------------
(* The suffix loop ends: among one more suffix than there are files one is *)
(* free, and the smallest free one is taken.                               *)
LEMMA SomeSuffixFree ==
  ASSUME NEW name, IsFiniteSet(DOMAIN disk)
  PROVE  \E k \in 1..(Cardinality(DOMAIN disk) + 1) : <<name, k>> \notin DOMAIN disk
<1> DEFINE N == Cardinality(DOMAIN disk)
           f == [k \in 1..(N + 1) |-> <<name, k>>]
<1>1. N \in Nat
  BY FS_CardinalityType
<1>2. ASSUME \A k \in 1..(N + 1) : <<name, k>> \in DOMAIN disk
      PROVE  FALSE
  <2>1. f \in [1..(N + 1) -> DOMAIN disk]
    BY <1>2
  <2>2. \A j, k \in 1..(N + 1) : f[j] = f[k] => j = k
    OBVIOUS
  <2>3. f \in Injection(1..(N + 1), DOMAIN disk)
    BY <2>1, <2>2 DEF Injection, IsInjective
  <2>4. Cardinality(1..(N + 1)) <= N
    <3> HIDE DEF f
    <3> QED BY <2>3, FS_Injection
  <2>5. Cardinality(1..(N + 1)) = N + 1
    <3> HIDE DEF N
    <3>1. 1 \in Int /\ N + 1 \in Int /\ ~(1 > N + 1) /\ N + 1 - 1 + 1 = N + 1
      BY <1>1
    <3> QED BY <3>1, FS_Interval
  <2> QED BY <1>1, <2>4, <2>5
<1> QED BY <1>2

(* Every smaller number of the name is taken.                              *)
FirstFree(path) == \A j \in 0..path[2] : j < path[2] => <<path[1], j>> \in DOMAIN disk

LEMMA FreePathIsFree ==
  ASSUME NEW name, IsFiniteSet(DOMAIN disk)
  PROVE  /\ FreePath(name) \notin DOMAIN disk
         /\ \E k \in Nat : FreePath(name) = <<name, k>>
         /\ FirstFree(FreePath(name))
<1> DEFINE N == Cardinality(DOMAIN disk) + 1
           Ends(k) == /\ <<name, k>> \notin DOMAIN disk
                      /\ \A j \in 1..(k - 1) : <<name, j>> \in DOMAIN disk
<1>1. CASE <<name, 0>> \notin DOMAIN disk
  <2>1. FreePath(name) = <<name, 0>>
    BY <1>1 DEF FreePath
  <2> QED BY <1>1, <2>1 DEF FirstFree
<1>2. CASE <<name, 0>> \in DOMAIN disk
  <2>0. N \in Nat
    BY FS_CardinalityType
  <2> DEFINE S == {k \in 1..N : <<name, k>> \notin DOMAIN disk}
  <2>1. S # {} /\ S \in SUBSET Nat
    <3> HIDE DEF N
    <3>1. \E k \in 1..N : <<name, k>> \notin DOMAIN disk
      BY SomeSuffixFree DEF N
    <3> QED BY <2>0, <3>1
  <2>2. PICK k \in S : \A j \in S : k <= j
    <3> HIDE DEF S
    <3> QED BY <2>1, LeastNatural
  <2>3. k \in 1..N /\ Ends(k)
    <3> HIDE DEF N
    <3>1. k \in 1..N /\ <<name, k>> \notin DOMAIN disk
      BY <2>2
    <3>2. ASSUME NEW j \in 1..(k - 1) PROVE <<name, j>> \in DOMAIN disk
      <4>1. j \in 1..N /\ ~(k <= j)
        BY <2>0, <3>1
      <4> QED BY <2>2, <4>1
    <3> QED BY <3>1, <3>2
  <2> DEFINE c == CHOOSE i \in 1..N : Ends(i)
  <2>4. c \in 1..N /\ Ends(c)
    <3> HIDE DEF N, Ends
    <3> QED BY <2>3
  <2>5. FreePath(name) = <<name, c>>
    BY <1>2 DEF FreePath
  <2>6. c \in Nat
    <3> HIDE DEF N, c
    <3> QED BY <2>0, <2>4
  <2> HIDE DEF c
  <2>7. FirstFree(<<name, c>>)
    <3>1. \A j \in 0..c : j < c => j = 0 \/ j \in 1..(c - 1)
      BY <2>6
    <3> QED BY <1>2, <2>4, <3>1 DEF FirstFree
  <2> QED BY <2>4, <2>5, <2>6, <2>7
<1> QED BY <1>1, <1>2

----------------------------------------------------------------------------
(* The types, whatever identifiers the uploads have.                       *)
Record(r) ==
  /\ r = [total |-> r.total, path |-> r.path, chunks |-> r.chunks]
  /\ r.total \in Nat
  /\ r.path \in Names \X Nat
  /\ \A i \in DOMAIN r.chunks : r.chunks[i] \in Datum

Places == Files \X Nat
Packets ==
  {Header(f) : f \in Files} \cup {SealedChunk(q, k) : q \in Places, k \in Keys}

(* What was written can be assembled again, because a data packet is one   *)
(* chunk or none.                                                          *)
FileInv ==
  /\ todo \in SUBSET Files
  /\ keys \in [Sides -> Keys]
  /\ dups \in 0..MaxDups
  /\ wait \in Seq(Files \X Nat) /\ Len(wait) <= 1
  /\ ready \in Seq(Files \X Nat)
  /\ net \in Seq(Packets)
  /\ DOMAIN incoming \in SUBSET Mids
  /\ \A m \in DOMAIN incoming : Record(incoming[m])
  /\ IsFiniteSet(DOMAIN disk)
  /\ \A path \in DOMAIN disk : path \in Names \X Nat /\ disk[path] \in Seq(Datum)
  /\ \A x \in DOMAIN own : x \in Names /\ own[x] \in Files

(* The chunks up to the first one missing are a sequence.                  *)
LEMMA AssembledTyped ==
  ASSUME NEW r, Record(r)
  PROVE  Assembled(r) \in Seq(Datum)
<1> DEFINE N == r.total
           Stop(k) == /\ \A i \in 0..(k - 1) : i \in DOMAIN r.chunks
                      /\ k = N \/ k \notin DOMAIN r.chunks
           S == {k \in 0..N : k = N \/ k \notin DOMAIN r.chunks}
<1>1. N \in Nat
  BY DEF Record
<1>2. S # {} /\ S \in SUBSET Nat
  <2>1. N \in S
    BY <1>1
  <2> QED BY <2>1
<1>3. PICK k \in S : \A j \in S : k <= j
  <2> HIDE DEF S
  <2> QED BY <1>2, LeastNatural
<1>4. k \in 0..N /\ Stop(k)
  <2> HIDE DEF N
  <2>1. k \in 0..N /\ (k = N \/ k \notin DOMAIN r.chunks)
    BY <1>3
  <2>2. ASSUME NEW j \in 0..(k - 1) PROVE j \in DOMAIN r.chunks
    <3>1. j \in 0..N /\ ~(k <= j)
      BY <1>1, <2>1
    <3> QED BY <1>3, <3>1
  <2> QED BY <2>1, <2>2
<1> DEFINE length == CHOOSE i \in 0..N : Stop(i)
<1>5. length \in 0..N /\ Stop(length)
  <2> HIDE DEF N, Stop
  <2> QED BY <1>4
<1>6. Assembled(r) = [i \in 1..length |-> r.chunks[i - 1]]
  BY DEF Assembled
<1> HIDE DEF length, N
<1>7. length \in Nat
  BY <1>1, <1>5
<1>8. \A i \in 1..length : r.chunks[i - 1] \in Datum
  <2>1. \A i \in 1..length : i - 1 \in 0..(length - 1)
    BY <1>7
  <2> QED BY <1>5, <2>1 DEF Record
<1>9. Assembled(r) \in [1..length -> Datum]
  BY <1>6, <1>8
<1> QED BY <1>7, <1>9, FunctionSeq, Zenon

LEMMA FileInit == Init => FileInv
<1> SUFFICES ASSUME Init PROVE FileInv
  OBVIOUS
<1>1. DOMAIN incoming = {} /\ DOMAIN disk = {} /\ DOMAIN own = {}
  BY DEF Init
<1>2. IsFiniteSet({})
  BY FS_EmptySet
<1>3. /\ wait = <<>> /\ ready = <<>> /\ net = <<>>
      /\ todo = Files /\ dups = 0 /\ keys = [s \in Sides |-> 1]
  BY DEF Init
<1>4. <<>> \in Seq(Files \X Nat) /\ <<>> \in Seq(Packets) /\ Len(<<>>) <= 1
  OBVIOUS
<1> QED BY <1>1, <1>2, <1>3, <1>4, DupsAssumption DEF FileInv, Keys

(* The steps that leave the receiver alone, or make it forget everything.  *)
LEMMA FileIfSender ==
  ASSUME FileInv, UNCHANGED disk, incoming' = incoming \/ incoming' = <<>>,
         todo' \in SUBSET Files, keys' \in [Sides -> Keys], dups' \in 0..MaxDups,
         wait' \in Seq(Files \X Nat), Len(wait') <= 1,
         ready' \in Seq(Files \X Nat), net' \in Seq(Packets),
         \A x \in DOMAIN own' : x \in Names /\ own'[x] \in Files
  PROVE  FileInv'
<1>1. DOMAIN incoming' \in SUBSET Mids /\ \A m \in DOMAIN incoming' : Record(incoming'[m])
  BY DEF FileInv
<1> QED BY <1>1 DEF FileInv, Record, Datum

LEMMA PacketTaken ==
  ASSUME FileInv, NEW n \in DOMAIN net
  PROVE  net[n] \in Packets /\ RemoveAt(net, n) \in Seq(Packets)
<1>1. net \in Seq(Packets) /\ n \in 1..Len(net)
  BY LenProperties DEF FileInv
<1> QED BY <1>1, ElementOfSeq, RemoveAtProperties

LEMMA FileUpload ==
  ASSUME FileInv, NEW f \in Files, Upload(f)
  PROVE  FileInv'
<1>1. wait' \in Seq(Files \X Nat) /\ Len(wait') <= 1
  BY DEF Upload, Armed
<1>2. net' \in Seq(Packets)
  <2>1. Header(f) \in Packets
    BY DEF Packets
  <2> QED BY <2>1, AppendProperties DEF Upload, FileInv
<1>3. \A x \in DOMAIN own' : x \in Names /\ own'[x] \in Files
  BY DEF Upload, Put, FileInv, Names
<1> QED BY <1>1, <1>2, <1>3, FileIfSender DEF Upload, FileInv

LEMMA FileTimer ==
  ASSUME FileInv, TimerExpires
  PROVE  FileInv'
<1>1. ready' \in Seq(Files \X Nat) /\ wait' \in Seq(Files \X Nat) /\ Len(wait') <= 1
  BY ConcatProperties DEF TimerExpires, FileInv
<1> QED BY <1>1, FileIfSender DEF TimerExpires, FileInv

LEMMA FileSendChunk ==
  ASSUME FileInv, SendChunk
  PROVE  FileInv'
<1> DEFINE q == Head(ready)
<1>1. q \in Files \X Nat /\ ready' \in Seq(Files \X Nat)
  BY HeadTailProperties DEF FileInv, SendChunk
<1>2. q[1] \in Files /\ q[2] \in Nat /\ q = <<q[1], q[2]>>
  BY <1>1
<1>3. keys["sender"] \in Keys
  BY DEF FileInv, Sides
<1>4. CASE keys["sender"] = 0
  BY <1>1, <1>4, FileIfSender DEF SendChunk, FileInv
<1>5. CASE keys["sender"] # 0
  <2>1. /\ net' = Append(net, Chunk(q[1], q[2]))
        /\ wait' = IF More(q[1], q[2]) THEN Armed(q[1], q[2] + 1) ELSE wait
    BY <1>5 DEF SendChunk
  <2>2. net' \in Seq(Packets)
    <3>1. Chunk(q[1], q[2]) = SealedChunk(q, keys["sender"])
      BY <1>2 DEF Chunk, SealedChunk
    <3>2. SealedChunk(q, keys["sender"]) \in Packets
      <4>1. q \in Places
        BY <1>1 DEF Places
      <4> QED BY <1>3, <4>1 DEF Packets
    <3> QED BY <2>1, <3>1, <3>2, AppendProperties DEF FileInv
  <2>3. wait' \in Seq(Files \X Nat) /\ Len(wait') <= 1
    <3>1. <<q[1], q[2] + 1>> \in Files \X Nat
      BY <1>2
    <3>2. wait' = Armed(q[1], q[2] + 1) \/ wait' = wait
      BY <2>1
    <3>3. Armed(q[1], q[2] + 1) \in Seq(Files \X Nat) /\ Len(Armed(q[1], q[2] + 1)) <= 1
      BY <3>1 DEF Armed
    <3> HIDE DEF q
    <3> QED BY <3>2, <3>3 DEF FileInv
  <2> QED BY <1>1, <2>2, <2>3, FileIfSender DEF SendChunk, FileInv
<1> QED BY <1>4, <1>5

LEMMA FileEnvironment ==
  ASSUME FileInv, Lose \/ Duplicate \/ Rekey \/ RestartSender \/ RestartReceiver
  PROVE  FileInv'
<1>1. CASE Lose
  <2>1. net' \in Seq(Packets)
    BY <1>1, PacketTaken DEF Lose
  <2> QED BY <1>1, <2>1, FileIfSender DEF Lose, FileInv
<1>2. CASE Duplicate
  <2>1. net' \in Seq(Packets)
    <3>1. PICK n \in DOMAIN net : net' = Append(net, net[n])
      BY <1>2 DEF Duplicate
    <3>2. net \in Seq(Packets)
      BY DEF FileInv
    <3> QED BY <3>1, <3>2, PacketTaken, AppendProperties
  <2>2. dups' \in 0..MaxDups
    BY <1>2, DupsAssumption DEF Duplicate, FileInv
  <2> QED BY <1>2, <2>1, <2>2, FileIfSender DEF Duplicate, FileInv
<1>3. CASE Rekey
  <2>1. keys' \in [Sides -> Keys]
    BY <1>3 DEF Rekey, FileInv
  <2> QED BY <1>3, <2>1, FileIfSender DEF Rekey, FileInv
<1>4. <<>> \in Seq(Files \X Nat) /\ Len(<<>>) <= 1
  OBVIOUS
<1>5. CASE RestartSender
  BY <1>4, <1>5, FileIfSender DEF RestartSender, FileInv
<1>6. CASE RestartReceiver
  BY <1>6, FileIfSender DEF RestartReceiver, FileInv
<1> QED BY <1>1, <1>2, <1>3, <1>5, <1>6

LEMMA FileRecvHeader ==
  ASSUME FileInv, NEW n \in DOMAIN net, RecvHeader(n)
  PROVE  FileInv'
<1>1. net[n] \in Packets /\ net' \in Seq(Packets)
  BY PacketTaken DEF RecvHeader
<1>2. PICK f \in Files : net[n] = Header(f)
  BY <1>1 DEF RecvHeader, Packets, SealedChunk
<1> DEFINE r == [total |-> net[n].total, path |-> FreePath(net[n].name), chunks |-> <<>>]
<1>3. incoming' = Put(incoming, Mid[f], r)
  BY <1>2 DEF RecvHeader, Header
<1>4. Record(r)
  <2>1. FreePath(Name[f]) \in Names \X Nat
    <3>1. \E k \in Nat : FreePath(Name[f]) = <<Name[f], k>>
      BY FreePathIsFree DEF FileInv
    <3> QED BY <3>1 DEF Names
  <2>2. r.total = Chunks[f] /\ r.path = FreePath(Name[f]) /\ r.chunks = <<>>
    BY <1>2 DEF Header
  <2>3. DOMAIN <<>> = {} /\ Chunks[f] \in Nat
    BY FilesAssumption
  <2>4. r = [total |-> r.total, path |-> r.path, chunks |-> r.chunks]
    OBVIOUS
  <2> HIDE DEF r
  <2> QED BY <2>1, <2>2, <2>3, <2>4 DEF Record
<1>5. DOMAIN incoming' \in SUBSET Mids /\ \A m \in DOMAIN incoming' : Record(incoming'[m])
  <2> HIDE DEF r
  <2> QED BY <1>3, <1>4 DEF Put, FileInv, Mids
<1> QED BY <1>1, <1>5 DEF RecvHeader, FileInv, Record, Datum

(* What a chunk adds to a record, and what a full record adds to the disk. *)
LEMMA FileRecvChunk ==
  ASSUME FileInv, NEW n \in DOMAIN net, RecvChunk(n)
  PROVE  FileInv'
<1> DEFINE m == net[n]
<1>1. m \in Packets /\ net' \in Seq(Packets)
  BY PacketTaken DEF RecvChunk
<1>2. PICK q \in Places, k \in Keys : m = SealedChunk(q, k)
  BY <1>1 DEF RecvChunk, Packets, Header
<1>3. m.data = q /\ q \in Datum /\ Garbage \in Datum
  BY <1>2 DEF SealedChunk, Datum, Places
<1>4. UNCHANGED <<todo, wait, ready, own, keys, dups>>
  BY DEF RecvChunk
<1>5. UNCHANGED <<incoming, disk>> => FileInv'
  BY <1>1, <1>4, FileIfSender DEF FileInv
<1>6. CASE m.mid \notin DOMAIN incoming
  BY <1>5, <1>6 DEF RecvChunk
<1>7. CASE m.mid \in DOMAIN incoming
  <2>1. PICK data \in Decrypted(m) :
          IF data = <<>>
            THEN UNCHANGED <<incoming, disk>>
            ELSE LET r == [incoming[m.mid] EXCEPT !.chunks = Put(@, m.pid, data[1])]
                 IN  IF Complete(r, m.pid)
                       THEN /\ disk' = Put(disk, r.path, Assembled(r))
                            /\ incoming' = [x \in DOMAIN incoming \ {m.mid} |-> incoming[x]]
                       ELSE /\ incoming' = Put(incoming, m.mid, r)
                            /\ UNCHANGED disk
    BY <1>7 DEF RecvChunk
  <2>2. CASE data = <<>>
    BY <1>5, <2>1, <2>2
  <2>3. CASE data # <<>>
    <3> DEFINE old == incoming[m.mid]
               c == Put(old.chunks, m.pid, data[1])
               r == [old EXCEPT !.chunks = c]
    <3>1. data[1] \in Datum
      BY <1>3, <2>3 DEF Decrypted
    <3>2. Record(old)
      BY <1>7 DEF FileInv
    <3>3. Record(r)
      <4>1. r = [total |-> old.total, path |-> old.path, chunks |-> c]
        <5> HIDE DEF c
        <5> QED BY <3>2 DEF Record
      <4>2. \A i \in DOMAIN c : c[i] \in Datum
        <5> HIDE DEF old
        <5> QED BY <3>1, <3>2 DEF Put, Record
      <4> HIDE DEF r, old, c
      <4> QED BY <3>2, <4>1, <4>2 DEF Record
    <3>4. \/ /\ disk' = Put(disk, r.path, Assembled(r))
             /\ incoming' = [x \in DOMAIN incoming \ {m.mid} |-> incoming[x]]
          \/ /\ incoming' = Put(incoming, m.mid, r)
             /\ disk' = disk
      BY <2>1, <2>3
    <3> HIDE DEF r, old
    <3>5. DOMAIN incoming' \in SUBSET Mids /\ \A x \in DOMAIN incoming' : Record(incoming'[x])
      BY <1>7, <3>3, <3>4 DEF Put, FileInv
    <3>6. /\ IsFiniteSet(DOMAIN disk')
          /\ \A path \in DOMAIN disk' : path \in Names \X Nat /\ disk'[path] \in Seq(Datum)
      <4>1. CASE disk' = disk
        BY <4>1 DEF FileInv
      <4>2. CASE disk' = Put(disk, r.path, Assembled(r))
        <5>1. /\ DOMAIN disk' = DOMAIN disk \cup {r.path}
              /\ \A path \in DOMAIN disk' :
                   disk'[path] = IF path = r.path THEN Assembled(r) ELSE disk[path]
          BY <4>2 DEF Put
        <5>2. IsFiniteSet(DOMAIN disk')
          <6>1. IsFiniteSet(DOMAIN disk)
            BY DEF FileInv
          <6>2. IsFiniteSet(DOMAIN disk \cup {r.path})
            BY <6>1, FS_AddElement
          <6> QED BY <5>1, <6>2
        <5>3. r.path \in Names \X Nat /\ Assembled(r) \in Seq(Datum)
          BY <3>3, AssembledTyped DEF Record
        <5> QED BY <5>1, <5>2, <5>3 DEF FileInv
      <4> QED BY <3>4, <4>1, <4>2
    <3> QED BY <1>1, <1>4, <3>5, <3>6 DEF FileInv, Record, Datum
  <2> QED BY <2>2, <2>3
<1> QED BY <1>6, <1>7

LEMMA FileStep ==
  ASSUME FileInv, [Next]_vars
  PROVE  FileInv'
<1>1. ASSUME NEW f \in Files, Upload(f) PROVE FileInv'
  BY <1>1, FileUpload
<1>2. CASE TimerExpires
  BY <1>2, FileTimer
<1>3. CASE SendChunk
  BY <1>3, FileSendChunk
<1>4. CASE Receive
  <2>1. PICK n \in DOMAIN net : RecvHeader(n) \/ RecvChunk(n)
    BY <1>4 DEF Receive, Deliverable
  <2> QED BY <2>1, FileRecvHeader, FileRecvChunk
<1>5. CASE Lose \/ Duplicate \/ Rekey \/ RestartSender \/ RestartReceiver
  BY <1>5, FileEnvironment
<1>6. CASE UNCHANGED vars
  BY <1>6, FileIfSender DEF vars, FileInv
<1> QED BY <1>1, <1>2, <1>3, <1>4, <1>5, <1>6 DEF Next

LEMMA FileAlways == Spec => []FileInv
<1>1. FileInv /\ [Next]_vars => FileInv'
  BY FileStep
<1> QED BY <1>1, FileInit, PTL DEF Spec

(* The timer, the packets, the records and the files keep their types, for *)
(* any uploads and identifiers: in particular the loop that looks for a    *)
(* free name ends, and what is written is a sequence of chunks.            *)
THEOREM TypeCorrect == Spec => []TypeOK
<1>1. FileInv => TypeOK
  BY DEF FileInv, TypeOK, Record
<1> QED BY <1>1, FileAlways, PTL

----------------------------------------------------------------------------
(* No file is written over.                                                *)
(*                                                                         *)
(* A header finds a free path but reserves nothing on it, so its record    *)
(* must be filled before another one that found the same path.  That is so *)
(* where the packets keep their order and the user waits for an upload to  *)
(* end: then the chunks of one upload follow its header with no packet of  *)
(* another upload between them.                                            *)
HeaderAt(k, m) == k \in DOMAIN net /\ net[k].kind = "header" /\ net[k].mid = m

(* A chunk of m is still to be sent.                                       *)
Armeds == {wait[n] : n \in DOMAIN wait} \cup {ready[n] : n \in DOMAIN ready}
Pending(m) == \E q \in Armeds : Mid[q[1]] = m

(* At place j of the network, or behind it, a chunk of m.                  *)
Coming(j, m) ==
  \/ j \in DOMAIN net /\ net[j].kind = "chunk" /\ net[j].mid = m
  \/ j = Len(net) + 1 /\ Pending(m)

(* The receiver will know nothing of m.                                    *)
Gone(m) == m \notin DOMAIN incoming /\ ~\E k \in DOMAIN net : HeaderAt(k, m)

OneTimer == Len(wait) <= 1 /\ Len(ready) <= 1 /\ (wait = <<>> \/ ready = <<>>)

InTurn ==
  \A m \in Mids : \A i \in DOMAIN net : \A j \in (i + 1)..(Len(net) + 1) :
    Coming(j, m) /\ net[i].mid # m =>
      Gone(m) \/ \E k \in (i + 1)..(j - 1) : HeaderAt(k, m)

OneHeader ==
  \A m \in Mids : \A k \in DOMAIN net : HeaderAt(k, m) =>
    m \notin DOMAIN incoming /\ \A l \in DOMAIN net : HeaderAt(l, m) => l = k

NotYet ==
  \A f \in todo :
    /\ Mid[f] \notin DOMAIN incoming /\ ~Pending(Mid[f])
    /\ \A k \in DOMAIN net : net[k].mid # Mid[f]

(* No chunk of m comes any more.                                           *)
Over(m) == \A j \in 1..(Len(net) + 1) : ~Coming(j, m)

TakenIsOver == \A m \in DOMAIN incoming : incoming[m].path \in DOMAIN disk => Over(m)

TurnsInv == OneTimer /\ InTurn /\ OneHeader /\ NotYet
FreshInv == FileInv /\ TurnsInv /\ TakenIsOver

LEMMA FreshInit == Init => FreshInv
<1> SUFFICES ASSUME Init PROVE FreshInv
  OBVIOUS
<1>1. /\ wait = <<>> /\ ready = <<>> /\ net = <<>> /\ DOMAIN incoming = {}
      /\ DOMAIN net = {} /\ DOMAIN wait = {} /\ DOMAIN ready = {}
  BY DEF Init
<1>2. ~\E m : Pending(m)
  BY <1>1 DEF Pending, Armeds
<1>3. OneTimer
  BY <1>1 DEF OneTimer
<1> QED BY <1>1, <1>2, <1>3, FileInit DEF FreshInv, TurnsInv, InTurn, OneHeader, NotYet, TakenIsOver

LEMMA NetIs ==
  ASSUME FileInv
  PROVE  /\ net \in Seq(Packets) /\ Len(net) \in Nat /\ DOMAIN net = 1..Len(net)
         /\ \A i \in DOMAIN net : net[i] \in Packets /\ net[i].mid \in Mids
<1>1. /\ net \in Seq(Packets) /\ Len(net) \in Nat /\ DOMAIN net = 1..Len(net)
      /\ \A i \in DOMAIN net : net[i] \in Packets
  BY LenProperties, ElementOfSeq DEF FileInv
<1>2. \A p \in Packets : p.mid \in Mids
  BY DEF Packets, Header, SealedChunk, Places, Mids
<1> QED BY <1>1, <1>2

(* Taking packet n away, delivered or lost, keeps the packets in turn.     *)
LEMMA TurnsWhenTaken ==
  ASSUME FileInv, TurnsInv, NEW n \in DOMAIN net, net' = RemoveAt(net, n),
         UNCHANGED <<todo, wait, ready>>,
         \A m \in DOMAIN incoming' :
           m \in DOMAIN incoming \/ (n = 1 /\ HeaderAt(n, m))
  PROVE  TurnsInv' /\ \A m : Over(m) => Over(m)'
<1>0. /\ net \in Seq(Packets) /\ Len(net) \in Nat /\ DOMAIN net = 1..Len(net)
  BY NetIs
<1>1. PICK N \in Nat : N = Len(net)
  BY <1>0
<1> DEFINE up(i) == PlaceBefore(n, i)
<1>2. /\ n \in Nat /\ n \in 1..N
      /\ Len(net') = N - 1 /\ DOMAIN net' = 1..(N - 1) /\ DOMAIN net = 1..N
  <2>1. Len(net') = N - 1 /\ net' \in Seq(Packets)
    BY <1>0, <1>1, RemoveAtProperties
  <2> QED BY <1>0, <1>1, <2>1, LenProperties
<1>3. /\ \A i \in 1..N : up(i) \in 1..(N + 1) \ {n} /\ (i < N => up(i) \in 1..N)
      /\ up(N) = N + 1
      /\ \A i, j \in 1..N : i < j => up(i) < up(j)
      /\ \A i, j \in 1..N : up(i) = up(j) => i = j
      /\ \A i, j \in 1..N : \A k \in 1..N \ {n} :
           up(i) < k /\ k < up(j) => \E l \in 1..N : up(l) = k /\ i < l /\ l < j
  BY <1>2, PlacesBefore
<1>4. \A i \in 1..(N - 1) : net'[i] = net[up(i)] /\ up(i) \in 1..N \ {n}
  <2>1. \A i \in 1..(N - 1) : net'[i] = net[up(i)]
    BY <1>0, <1>1, <1>2, RemovedPlaces
  <2>2. \A i \in 1..(N - 1) : i \in 1..N /\ i < N
    BY <1>1
  <2> QED BY <1>3, <2>1, <2>2
<1> HIDE DEF up
<1>5. \A m : Pending(m)' <=> Pending(m)
  BY DEF Pending, Armeds
<1>6. \A m : \A i \in 1..(N - 1) : HeaderAt(i, m)' <=> HeaderAt(up(i), m)
  BY <1>2, <1>4 DEF HeaderAt
<1>7. \A m : \A j \in 1..N : Coming(j, m)' => Coming(up(j), m)
  <2> SUFFICES ASSUME NEW m, NEW j \in 1..N, Coming(j, m)' PROVE Coming(up(j), m)
    OBVIOUS
  <2>1. CASE j \in 1..(N - 1)
    <3>1. net'[j].kind = "chunk" /\ net'[j].mid = m
      BY <1>2, <2>1 DEF Coming
    <3> QED BY <1>2, <1>4, <2>1, <3>1 DEF Coming
  <2>2. CASE j = N
    <3>1. Pending(m)
      BY <1>2, <1>5, <2>2 DEF Coming
    <3> QED BY <1>1, <1>3, <2>2, <3>1 DEF Coming
  <2> QED BY <2>1, <2>2
<1>8. \A m : Over(m) => Over(m)'
  <2> SUFFICES ASSUME NEW m, Over(m), NEW j \in 1..(Len(net') + 1) PROVE ~Coming(j, m)'
    BY DEF Over
  <2>1. j \in 1..N
    BY <1>2
  <2>2. up(j) \in 1..(Len(net) + 1)
    BY <1>1, <1>3, <2>1
  <2> QED BY <1>7, <2>1, <2>2 DEF Over
<1>9. OneTimer'
  BY DEF TurnsInv, OneTimer
<1>10. OneHeader'
  <2> SUFFICES ASSUME NEW m \in Mids, NEW k \in 1..(N - 1), HeaderAt(k, m)'
               PROVE  /\ m \notin DOMAIN incoming'
                      /\ \A l \in 1..(N - 1) : HeaderAt(l, m)' => l = k
    BY <1>2 DEF OneHeader
  <2>1. HeaderAt(up(k), m) /\ up(k) # n /\ up(k) \in 1..N
    BY <1>4, <1>6
  <2>2. /\ m \notin DOMAIN incoming /\ ~HeaderAt(n, m)
        /\ \A l \in 1..N : HeaderAt(l, m) => l = up(k)
    BY <1>2, <2>1 DEF TurnsInv, OneHeader
  <2>3. \A l \in 1..(N - 1) : HeaderAt(l, m)' => l = k
    <3>1. \A l \in 1..(N - 1) : l \in 1..N
      OBVIOUS
    <3> QED BY <1>3, <1>4, <1>6, <2>2, <3>1
  <2> QED BY <2>2, <2>3
<1>11. NotYet'
  <2> SUFFICES ASSUME NEW f \in todo
               PROVE  /\ Mid[f] \notin DOMAIN incoming' /\ ~Pending(Mid[f])'
                      /\ \A k \in 1..(N - 1) : net'[k].mid # Mid[f]
    BY <1>2 DEF NotYet
  <2>1. /\ Mid[f] \notin DOMAIN incoming /\ ~Pending(Mid[f])
        /\ \A k \in 1..N : net[k].mid # Mid[f]
    BY <1>2 DEF TurnsInv, NotYet
  <2>2. ~HeaderAt(n, Mid[f])
    BY <1>2, <2>1 DEF HeaderAt
  <2> QED BY <1>4, <1>5, <2>1, <2>2
<1>12. InTurn'
  <2> SUFFICES ASSUME NEW m \in Mids, NEW i \in 1..(N - 1), NEW j \in (i + 1)..N,
                      Coming(j, m)', net'[i].mid # m
               PROVE  Gone(m)' \/ \E k \in (i + 1)..(j - 1) : HeaderAt(k, m)'
    <3>1. Len(net') + 1 = N
      BY <1>2
    <3> QED BY <1>2, <3>1 DEF InTurn
  <2>1. i \in 1..N /\ j \in 1..N /\ i < j
    BY <1>1
  <2>2. PICK a \in 1..N \ {n}, b \in 1..(N + 1) : a = up(i) /\ b = up(j) /\ a < b
    BY <1>3, <1>4, <2>1
  <2>3. Coming(b, m) /\ net[a].mid # m
    BY <1>4, <1>7, <2>1, <2>2
  <2>4. a \in DOMAIN net /\ b \in (a + 1)..(Len(net) + 1)
    BY <1>1, <1>2, <2>2
  <2>5. Gone(m) \/ \E k \in (a + 1)..(b - 1) : HeaderAt(k, m)
    BY <2>3, <2>4 DEF TurnsInv, InTurn
  <2>6. ASSUME m \notin DOMAIN incoming', \A k \in 1..N \ {n} : ~HeaderAt(k, m)
        PROVE  Gone(m)'
    BY <1>2, <1>4, <1>6, <2>6 DEF Gone
  <2>7. CASE Gone(m)
    BY <1>2, <2>6, <2>7 DEF Gone
  <2>8. ASSUME NEW k \in (a + 1)..(b - 1), HeaderAt(k, m)
        PROVE  Gone(m)' \/ \E l \in (i + 1)..(j - 1) : HeaderAt(l, m)'
    <3>1. k \in 1..N /\ a < k /\ k < b
      BY <1>1, <2>2, <2>8
    <3>2. CASE k = n
      <4>1. n # 1
        BY <1>2, <2>2, <3>1, <3>2
      <4>2. m \notin DOMAIN incoming /\ \A l \in 1..N : HeaderAt(l, m) => l = n
        BY <1>2, <2>8, <3>2 DEF TurnsInv, OneHeader
      <4> QED BY <2>6, <4>1, <4>2
    <3>3. CASE k # n
      <4>1. PICK l \in 1..N : up(l) = k /\ i < l /\ l < j
        BY <1>3, <2>1, <2>2, <3>1, <3>3
      <4>2. l \in 1..(N - 1) /\ l \in (i + 1)..(j - 1)
        BY <1>1, <2>1, <4>1
      <4> QED BY <1>6, <2>8, <4>1, <4>2
    <3> QED BY <3>2, <3>3
  <2> QED BY <2>5, <2>7, <2>8
<1> QED BY <1>8, <1>9, <1>10, <1>11, <1>12 DEF TurnsInv

LEMMA NetAppended ==
  ASSUME FileInv, NEW p, net' = Append(net, p), p \in Packets
  PROVE  /\ Len(net') = Len(net) + 1 /\ DOMAIN net' = 1..(Len(net) + 1)
         /\ \A i \in 1..Len(net) : net'[i] = net[i]
         /\ net'[Len(net) + 1] = p
<1>1. net \in Seq(Packets)
  BY NetIs
<1>2. /\ Append(net, p) \in Seq(Packets) /\ Len(Append(net, p)) = Len(net) + 1
      /\ \A i \in 1..Len(net) : Append(net, p)[i] = net[i]
      /\ Append(net, p)[Len(net) + 1] = p
  BY <1>1, AppendProperties
<1> QED BY <1>2, LenProperties

(* A header is put behind everything, its first chunk behind it.           *)
LEMMA FreshUpload ==
  ASSUME FreshInv, ~Overlap, \A f, g \in Files : Mid[f] = Mid[g] => f = g,
         NEW f \in Files, Upload(f)
  PROVE  FreshInv'
<1> DEFINE h == Mid[f]
<1>0. FileInv /\ FileInv'
  BY FileUpload DEF FreshInv
<1>1. /\ f \in todo /\ todo' = todo \ {f}
      /\ wait = <<>> /\ ready = <<>> /\ wait' = <<<<f, 0>>>> /\ ready' = <<>>
      /\ net' = Append(net, Header(f))
      /\ incoming' = incoming /\ disk' = disk
  BY DEF Upload, Idle, Armed
<1>2. PICK N \in Nat : N = Len(net)
  BY <1>0, NetIs
<1>3. /\ DOMAIN net = 1..N /\ Len(net') = N + 1 /\ DOMAIN net' = 1..(N + 1)
      /\ \A i \in 1..N : net'[i] = net[i]
      /\ net'[N + 1].kind = "header" /\ net'[N + 1].mid = h
  <2>1. Header(f) \in Packets
    BY DEF Packets
  <2>2. /\ Len(net') = N + 1 /\ DOMAIN net' = 1..(N + 1) /\ net'[N + 1] = Header(f)
        /\ \A i \in 1..N : net'[i] = net[i]
    BY <1>0, <1>1, <1>2, <2>1, NetAppended
  <2> QED BY <1>0, <1>2, <2>2, NetIs DEF Header
<1>4. /\ h \notin DOMAIN incoming /\ h \in Mids
      /\ \A k \in 1..N : net[k].mid # h
  BY <1>1, <1>3 DEF FreshInv, TurnsInv, NotYet, Mids
<1>5. \A m : Pending(m)' <=> m = h
  <2>1. /\ DOMAIN wait' = {1} /\ wait'[1] = <<f, 0>> /\ DOMAIN ready' = {}
    BY <1>1
  <2>2. Armeds' = {<<f, 0>>}
    BY <2>1 DEF Armeds
  <2>3. \A m : Pending(m)' <=> m = Mid[<<f, 0>>[1]]
    BY <2>2 DEF Pending
  <2> QED BY <2>3
<1>6. /\ \A m : HeaderAt(N + 1, m)' <=> m = h
      /\ \A m : \A k \in 1..N : HeaderAt(k, m)' <=> HeaderAt(k, m)
  BY <1>3 DEF HeaderAt
<1>7. \A m : \A j \in 1..(N + 2) :
        Coming(j, m)' => \/ j \in 1..N /\ Coming(j, m) /\ m # h
                         \/ j = N + 2 /\ m = h
  <2> SUFFICES ASSUME NEW m, NEW j \in 1..(N + 2), Coming(j, m)'
               PROVE  \/ j \in 1..N /\ Coming(j, m) /\ m # h
                      \/ j = N + 2 /\ m = h
    OBVIOUS
  <2>1. CASE j \in 1..N
    <3>1. net'[j].kind = "chunk" /\ net'[j].mid = m
      BY <1>3, <2>1 DEF Coming
    <3> QED BY <1>3, <1>4, <2>1, <3>1 DEF Coming
  <2>2. CASE j = N + 1
    BY <1>3, <2>2 DEF Coming
  <2>3. CASE j = N + 2
    BY <1>3, <1>5, <2>3 DEF Coming
  <2> QED BY <2>1, <2>2, <2>3
<1> HIDE DEF h
<1>8. OneTimer'
  BY <1>1 DEF OneTimer
<1>9. OneHeader'
  <2> SUFFICES ASSUME NEW m \in Mids, NEW k \in 1..(N + 1), HeaderAt(k, m)'
               PROVE  /\ m \notin DOMAIN incoming
                      /\ \A l \in 1..(N + 1) : HeaderAt(l, m)' => l = k
    BY <1>1, <1>3 DEF OneHeader
  <2>1. \A l \in 1..N : ~HeaderAt(l, h)
    BY <1>4 DEF HeaderAt
  <2>2. CASE k = N + 1
    BY <1>4, <1>6, <2>1, <2>2
  <2>3. CASE k \in 1..N
    <3>1. HeaderAt(k, m)
      BY <1>6, <2>3
    <3>2. m # h /\ m \notin DOMAIN incoming /\ \A l \in 1..N : HeaderAt(l, m) => l = k
      BY <1>3, <2>1, <2>3, <3>1 DEF FreshInv, TurnsInv, OneHeader
    <3> QED BY <1>6, <3>2
  <2> QED BY <2>2, <2>3
<1>10. NotYet'
  <2> SUFFICES ASSUME NEW g \in todo, g # f
               PROVE  /\ Mid[g] \notin DOMAIN incoming /\ ~Pending(Mid[g])'
                      /\ \A k \in 1..(N + 1) : net'[k].mid # Mid[g]
    BY <1>1, <1>3 DEF NotYet
  <2>1. Mid[g] # h
    BY <1>0 DEF h, FileInv
  <2>2. Mid[g] \notin DOMAIN incoming /\ \A k \in 1..N : net[k].mid # Mid[g]
    BY <1>3 DEF FreshInv, TurnsInv, NotYet
  <2> QED BY <1>3, <1>5, <2>1, <2>2
<1>11. InTurn'
  <2> SUFFICES ASSUME NEW m \in Mids, NEW i \in 1..(N + 1), NEW j \in (i + 1)..(N + 2),
                      Coming(j, m)', net'[i].mid # m
               PROVE  Gone(m)' \/ \E k \in (i + 1)..(j - 1) : HeaderAt(k, m)'
    <3>1. Len(net') + 1 = N + 2
      BY <1>3
    <3> QED BY <1>3, <3>1 DEF InTurn
  <2>1. j \in 1..(N + 2) /\ i < j
    OBVIOUS
  <2>2. CASE j \in 1..N /\ Coming(j, m) /\ m # h
    <3>1. i \in 1..N /\ j \in (i + 1)..(Len(net) + 1) /\ net[i].mid # m
      BY <1>2, <1>3, <2>1, <2>2
    <3>2. Gone(m) \/ \E k \in (i + 1)..(j - 1) : HeaderAt(k, m)
      BY <1>3, <2>2, <3>1 DEF FreshInv, TurnsInv, InTurn
    <3>3. \A k \in (i + 1)..(j - 1) : k \in 1..N
      BY <2>2
    <3>4. CASE Gone(m)
      <4>1. m \notin DOMAIN incoming' /\ \A k \in 1..N : ~HeaderAt(k, m)'
        BY <1>1, <1>3, <1>6, <3>4 DEF Gone
      <4>2. ~HeaderAt(N + 1, m)'
        BY <1>6, <2>2
      <4>3. \A k \in 1..(N + 1) : k \in 1..N \/ k = N + 1
        OBVIOUS
      <4> QED BY <1>3, <4>1, <4>2, <4>3 DEF Gone
    <3> QED BY <1>6, <3>2, <3>3, <3>4
  <2>3. CASE j = N + 2 /\ m = h
    <3>1. i # N + 1
      BY <1>3, <2>3
    <3>2. N + 1 \in (i + 1)..(j - 1)
      BY <2>3, <3>1
    <3> QED BY <1>6, <2>3, <3>2
  <2> QED BY <1>7, <2>1, <2>2, <2>3
<1>12. TakenIsOver'
  <2> SUFFICES ASSUME NEW m \in DOMAIN incoming, incoming[m].path \in DOMAIN disk,
                      NEW j \in 1..(N + 2)
               PROVE  ~Coming(j, m)'
    <3>1. Len(net') + 1 = N + 2
      BY <1>3
    <3> QED BY <1>1, <3>1 DEF TakenIsOver, Over
  <2>1. m # h
    BY <1>4
  <2>2. \A l \in 1..N : ~Coming(l, m)
    BY <1>2 DEF FreshInv, TakenIsOver, Over
  <2> QED BY <1>7, <2>1, <2>2
<1> QED BY <1>0, <1>8, <1>9, <1>10, <1>11, <1>12 DEF FreshInv, TurnsInv

(* The steps that put nothing on the network and teach the receiver        *)
(* nothing.                                                                *)
LEMMA FreshIfLess ==
  ASSUME FreshInv, FileInv', UNCHANGED <<todo, net, disk>>,
         incoming' = incoming \/ incoming' = <<>>,
         OneTimer', \A m : Pending(m)' => Pending(m)
  PROVE  FreshInv'
<1>1. DOMAIN incoming' \subseteq DOMAIN incoming /\ net' = net
  OBVIOUS
<1>2. \A m, k : HeaderAt(k, m)' <=> HeaderAt(k, m)
  BY <1>1 DEF HeaderAt
<1>3. \A m, j : Coming(j, m)' => Coming(j, m)
  BY <1>1 DEF Coming
<1>4. \A m : Gone(m) => Gone(m)'
  BY <1>1, <1>2 DEF Gone
<1>5. OneHeader'
  BY <1>1, <1>2 DEF FreshInv, TurnsInv, OneHeader
<1>6. NotYet'
  BY <1>1 DEF FreshInv, TurnsInv, NotYet
<1>7. InTurn'
  BY <1>1, <1>2, <1>3, <1>4 DEF FreshInv, TurnsInv, InTurn
<1>8. TakenIsOver'
  <2>1. \A m : Over(m) => Over(m)'
    BY <1>1, <1>3 DEF Over
  <2>2. \A m \in DOMAIN incoming' : m \in DOMAIN incoming /\ incoming'[m].path = incoming[m].path
    OBVIOUS
  <2> QED BY <2>1, <2>2 DEF FreshInv, TakenIsOver
<1> QED BY <1>5, <1>6, <1>7, <1>8 DEF FreshInv, TurnsInv

LEMMA FreshTimer ==
  ASSUME FreshInv, TimerExpires
  PROVE  FreshInv'
<1>1. /\ FileInv' /\ UNCHANGED <<todo, net, disk, incoming>>
  BY FileTimer DEF FreshInv, TimerExpires
<1>2. wait # <<>> /\ ready = <<>> /\ wait' = <<>> /\ ready' = ready \o wait
  BY DEF FreshInv, TurnsInv, OneTimer, TimerExpires
<1>3. wait \in Seq(Files \X Nat) /\ Len(wait) <= 1
  BY DEF FreshInv, FileInv
<1>4. ready' = wait
  BY <1>2, <1>3
<1>5. OneTimer'
  BY <1>2, <1>3, <1>4 DEF OneTimer
<1>6. \A m : Pending(m)' => Pending(m)
  <2>1. Armeds' \subseteq Armeds
    BY <1>2, <1>4 DEF Armeds
  <2> QED BY <2>1 DEF Pending
<1> QED BY <1>1, <1>5, <1>6, FreshIfLess

(* The next chunk goes behind everything, and the one after it comes       *)
(* behind it.                                                              *)
LEMMA FreshSendChunk ==
  ASSUME FreshInv, SendChunk
  PROVE  FreshInv'
<1> DEFINE q == Head(ready)
           h == Mid[q[1]]
<1>0. FileInv /\ FileInv'
  BY FileSendChunk DEF FreshInv
<1>1. /\ ready # <<>> /\ ready' = Tail(ready) /\ wait = <<>> /\ Len(ready) <= 1
      /\ todo' = todo /\ incoming' = incoming /\ disk' = disk
  BY DEF SendChunk, FreshInv, TurnsInv, OneTimer
<1>2. /\ q \in Files \X Nat /\ q[1] \in Files /\ ready[1] = q /\ DOMAIN ready = {1}
      /\ DOMAIN ready' = {} /\ ready' = <<>> /\ DOMAIN wait = {}
  <2>1. ready \in Seq(Files \X Nat)
    BY <1>0 DEF FileInv
  <2>2. Len(ready) = 1
    <3>1. PICK N \in Nat : N = Len(ready)
      BY <2>1, LenProperties
    <3>2. N # 0
      BY <1>1, <2>1, <3>1, EmptySeq
    <3>3. N <= 1
      BY <1>1, <3>1
    <3>4. N = 1
      BY <3>2, <3>3
    <3> QED BY <3>1, <3>4
  <2>3. q \in Files \X Nat /\ Len(Tail(ready)) = 0 /\ Tail(ready) \in Seq(Files \X Nat)
    BY <1>1, <2>1, <2>2, HeadTailProperties
  <2>4. ready' = <<>> /\ DOMAIN ready = {1} /\ ready[1] = q
    BY <1>1, <2>1, <2>2, <2>3
  <2> QED BY <1>1, <2>3, <2>4
<1>3. \A m : Pending(m) <=> m = h
  <2>1. Armeds = {q}
    BY <1>2 DEF Armeds
  <2> QED BY <2>1 DEF Pending
<1>4. wait' = wait \/ wait' = <<<<q[1], q[2] + 1>>>>
  BY DEF SendChunk, Armed
<1>5. OneTimer' /\ \A m : Pending(m)' => m = h
  <2>1. CASE wait' = wait
    <3>1. Armeds' = {}
      BY <1>2, <2>1 DEF Armeds
    <3>2. Len(wait') = 0 /\ Len(ready') = 0
      BY <1>1, <1>2, <2>1
    <3> QED BY <1>2, <3>1, <3>2 DEF Pending, OneTimer
  <2>2. CASE wait' = <<<<q[1], q[2] + 1>>>>
    <3>1. DOMAIN wait' = {1} /\ wait'[1] = <<q[1], q[2] + 1>> /\ Len(wait') = 1
      BY <2>2
    <3>2. Armeds' = {<<q[1], q[2] + 1>>}
      BY <1>2, <3>1 DEF Armeds
    <3>3. Len(ready') = 0
      BY <1>2
    <3> QED BY <1>2, <3>1, <3>2, <3>3 DEF Pending, OneTimer
  <2> QED BY <1>4, <2>1, <2>2
<1>6. CASE net' = net
  <2>1. \A m : Pending(m)' => Pending(m)
    BY <1>3, <1>5
  <2> HIDE DEF h, q
  <2> QED BY <1>0, <1>1, <1>5, <1>6, <2>1, FreshIfLess
<1>7. CASE net' = Append(net, Chunk(q[1], q[2]))
  <2>1. PICK N \in Nat : N = Len(net)
    BY <1>0, NetIs
  <2>2. /\ DOMAIN net = 1..N /\ Len(net') = N + 1 /\ DOMAIN net' = 1..(N + 1)
        /\ \A i \in 1..N : net'[i] = net[i]
        /\ net'[N + 1].kind = "chunk" /\ net'[N + 1].mid = h
    <3>1. Chunk(q[1], q[2]) \in Packets
      <4>1. Chunk(q[1], q[2]) = SealedChunk(q, keys["sender"])
        BY <1>2 DEF Chunk, SealedChunk
      <4>2. keys["sender"] \in Keys /\ q \in Places
        BY <1>0, <1>2 DEF FileInv, Sides, Places
      <4>3. SealedChunk(q, keys["sender"]) \in Packets
        BY <4>2 DEF Packets
      <4> QED BY <4>1, <4>3
    <3>2. Chunk(q[1], q[2]).kind = "chunk" /\ Chunk(q[1], q[2]).mid = h
      BY DEF Chunk
    <3>3. /\ Len(net') = N + 1 /\ DOMAIN net' = 1..(N + 1)
          /\ \A i \in 1..N : net'[i] = net[i]
          /\ net'[N + 1] = Chunk(q[1], q[2])
      BY <1>0, <1>7, <2>1, <3>1, NetAppended
    <3> QED BY <1>0, <2>1, <3>2, <3>3, NetIs
  <2> HIDE DEF h, q
  <2>3. \A m, k : HeaderAt(k, m)' <=> HeaderAt(k, m)
    <3>1. \A k \in 1..(N + 1) : k \in 1..N \/ k = N + 1
      OBVIOUS
    <3>2. \A k \in 1..N : k \in 1..(N + 1)
      OBVIOUS
    <3> QED BY <2>2, <3>1, <3>2 DEF HeaderAt
  <2>4. \A m : \A j \in 1..(N + 2) :
          Coming(j, m)' => \/ j \in 1..(N + 1) /\ Coming(j, m)
                           \/ j = N + 2 /\ m = h
    <3> SUFFICES ASSUME NEW m, NEW j \in 1..(N + 2), Coming(j, m)'
                 PROVE  \/ j \in 1..(N + 1) /\ Coming(j, m)
                        \/ j = N + 2 /\ m = h
      OBVIOUS
    <3>1. CASE j \in 1..N
      <4>1. net'[j].kind = "chunk" /\ net'[j].mid = m
        BY <2>2, <3>1 DEF Coming
      <4> QED BY <2>2, <3>1, <4>1 DEF Coming
    <3>2. CASE j = N + 1
      <4>1. m = h
        BY <2>2, <3>2 DEF Coming
      <4> QED BY <1>3, <2>1, <3>2, <4>1 DEF Coming
    <3>3. CASE j = N + 2
      BY <1>5, <2>2, <3>3 DEF Coming
    <3> QED BY <3>1, <3>2, <3>3
  <2>5. OneHeader'
    <3> SUFFICES ASSUME NEW m \in Mids, NEW k \in 1..(N + 1), HeaderAt(k, m)'
                 PROVE  /\ m \notin DOMAIN incoming
                        /\ \A l \in 1..(N + 1) : HeaderAt(l, m)' => l = k
      BY <1>1, <2>2 DEF OneHeader
    <3>1. \A l : HeaderAt(l, m) => l \in DOMAIN net
      BY DEF HeaderAt
    <3> QED BY <2>3, <3>1 DEF FreshInv, TurnsInv, OneHeader
  <2>6. NotYet'
    <3> SUFFICES ASSUME NEW g \in todo
                 PROVE  /\ Mid[g] \notin DOMAIN incoming /\ ~Pending(Mid[g])'
                        /\ \A k \in 1..(N + 1) : net'[k].mid # Mid[g]
      BY <1>1, <2>2 DEF NotYet
    <3>1. /\ Mid[g] \notin DOMAIN incoming /\ Mid[g] # h
          /\ \A k \in 1..N : net[k].mid # Mid[g]
      BY <1>3, <2>2 DEF FreshInv, TurnsInv, NotYet
    <3> QED BY <1>5, <2>2, <3>1
  <2>7. \A m : Gone(m) => Gone(m)'
    <3>1. \A m, k : HeaderAt(k, m)' => k \in DOMAIN net
      BY <2>3 DEF HeaderAt
    <3> QED BY <1>1, <2>3, <3>1 DEF Gone
  <2>8. InTurn'
    <3> SUFFICES ASSUME NEW m \in Mids, NEW i \in 1..(N + 1), NEW j \in (i + 1)..(N + 2),
                        Coming(j, m)', net'[i].mid # m
                 PROVE  Gone(m)' \/ \E k \in (i + 1)..(j - 1) : HeaderAt(k, m)'
      <4>1. Len(net') + 1 = N + 2
        BY <2>2
      <4> QED BY <2>2, <4>1 DEF InTurn
    <3>1. j \in 1..(N + 2) /\ i < j
      OBVIOUS
    <3>2. PICK l \in 1..(N + 1) : i \in 1..N /\ l \in (i + 1)..(Len(net) + 1) /\ Coming(l, m)
                               /\ l <= j
      <4>1. CASE j \in 1..(N + 1) /\ Coming(j, m)
        BY <2>1, <3>1, <4>1
      <4>2. CASE j = N + 2 /\ m = h
        <5>1. i # N + 1
          BY <2>2, <4>2
        <5>2. i \in 1..N /\ N + 1 \in (i + 1)..(Len(net) + 1) /\ N + 1 \in 1..(N + 1) /\ N + 1 <= j
          BY <2>1, <4>2, <5>1
        <5>3. Coming(N + 1, m)
          BY <1>3, <2>1, <4>2 DEF Coming
        <5> QED BY <5>2, <5>3
      <4> QED BY <2>4, <3>1, <4>1, <4>2
    <3>3. Gone(m) \/ \E k \in (i + 1)..(l - 1) : HeaderAt(k, m)
      BY <2>2, <3>2 DEF FreshInv, TurnsInv, InTurn
    <3>4. \A k \in (i + 1)..(l - 1) : k \in (i + 1)..(j - 1)
      BY <3>2
    <3> QED BY <2>3, <2>7, <3>3, <3>4
  <2>9. TakenIsOver'
    <3> SUFFICES ASSUME NEW m \in DOMAIN incoming, incoming[m].path \in DOMAIN disk,
                        NEW j \in 1..(N + 2)
                 PROVE  ~Coming(j, m)'
      <4>1. Len(net') + 1 = N + 2
        BY <2>2
      <4> QED BY <1>1, <4>1 DEF TakenIsOver, Over
    <3>1. \A l \in 1..(N + 1) : ~Coming(l, m)
      BY <2>1 DEF FreshInv, TakenIsOver, Over
    <3>2. m # h
      <4>1. N + 1 \in 1..(N + 1)
        OBVIOUS
      <4> QED BY <1>3, <2>1, <3>1, <4>1 DEF Coming
    <3> QED BY <2>4, <3>1, <3>2
  <2> QED BY <1>0, <1>5, <2>5, <2>6, <2>8, <2>9 DEF FreshInv, TurnsInv
<1> QED BY <1>6, <1>7 DEF SendChunk

(* The header that is delivered is the last packet its identifier has in   *)
(* the network before its chunks, and its record gets a free path.         *)
LEMMA FreshRecvHeader ==
  ASSUME FreshInv, 1 \in DOMAIN net, RecvHeader(1)
  PROVE  FreshInv'
<1> DEFINE h == net[1].mid
           r == [total |-> net[1].total, path |-> FreePath(net[1].name), chunks |-> <<>>]
<1>0. FileInv /\ TurnsInv /\ FileInv'
  BY FileRecvHeader DEF FreshInv
<1>1. /\ net' = RemoveAt(net, 1) /\ UNCHANGED <<todo, wait, ready, disk>>
      /\ incoming' = Put(incoming, h, r) /\ HeaderAt(1, h)
  BY DEF RecvHeader, HeaderAt
<1>2. r.path \notin DOMAIN disk
  BY <1>0, FreePathIsFree DEF FileInv
<1> HIDE DEF h, r
<1>3. /\ DOMAIN incoming' = DOMAIN incoming \cup {h} /\ incoming'[h] = r
      /\ \A m \in DOMAIN incoming : m # h => incoming'[m] = incoming[m]
  BY <1>1 DEF Put
<1>4. TurnsInv' /\ \A m : Over(m) => Over(m)'
  BY <1>0, <1>1, <1>3, TurnsWhenTaken
<1>5. TakenIsOver'
  BY <1>1, <1>2, <1>3, <1>4 DEF FreshInv, TakenIsOver
<1> QED BY <1>0, <1>4, <1>5 DEF FreshInv

(* What a chunk does: nothing, a longer record, or the file written at a   *)
(* path that is free, because the chunk was still to come.                 *)
LEMMA ChunkWritesFree ==
  ASSUME FreshInv, 1 \in DOMAIN net, RecvChunk(1)
  PROVE  \/ UNCHANGED <<incoming, disk>>
         \/ /\ net[1].mid \in DOMAIN incoming
            /\ \E r : /\ incoming' = Put(incoming, net[1].mid, r)
                    /\ r.path = incoming[net[1].mid].path
            /\ disk' = disk
         \/ /\ net[1].mid \in DOMAIN incoming
            /\ incoming' = [x \in DOMAIN incoming \ {net[1].mid} |-> incoming[x]]
            /\ incoming[net[1].mid].path \notin DOMAIN disk
            /\ \E c : disk' = Put(disk, incoming[net[1].mid].path, c)
<1> DEFINE m == net[1]
<1>1. m.kind = "chunk"
  BY DEF RecvChunk
<1>2. CASE m.mid \notin DOMAIN incoming
  BY <1>2 DEF RecvChunk
<1>3. CASE m.mid \in DOMAIN incoming
  <2>1. PICK data \in Decrypted(m) :
          IF data = <<>>
            THEN UNCHANGED <<incoming, disk>>
            ELSE LET r == [incoming[m.mid] EXCEPT !.chunks = Put(@, m.pid, data[1])]
                 IN  IF Complete(r, m.pid)
                       THEN /\ disk' = Put(disk, r.path, Assembled(r))
                            /\ incoming' = [x \in DOMAIN incoming \ {m.mid} |-> incoming[x]]
                       ELSE /\ incoming' = Put(incoming, m.mid, r)
                            /\ UNCHANGED disk
    BY <1>3 DEF RecvChunk
  <2> DEFINE old == incoming[m.mid]
             c == Put(old.chunks, m.pid, data[1])
             r == [old EXCEPT !.chunks = c]
  <2>2. r.path = old.path
    <3>1. Record(old)
      BY <1>3 DEF FreshInv, FileInv
    <3> HIDE DEF c, old
    <3> QED BY <3>1 DEF Record
  <2>3. old.path \notin DOMAIN disk
    <3>1. Coming(1, m.mid)
      BY <1>1 DEF Coming
    <3>2. 1 \in 1..(Len(net) + 1)
      BY NetIs DEF FreshInv
    <3> QED BY <1>3, <3>1, <3>2 DEF FreshInv, TakenIsOver, Over
  <2>4. \/ UNCHANGED <<incoming, disk>>
        \/ /\ disk' = Put(disk, r.path, Assembled(r))
           /\ incoming' = [x \in DOMAIN incoming \ {m.mid} |-> incoming[x]]
        \/ /\ incoming' = Put(incoming, m.mid, r)
           /\ disk' = disk
    BY <2>1
  <2> HIDE DEF r
  <2> QED BY <1>3, <2>2, <2>3, <2>4
<1> QED BY <1>2, <1>3

(* The file is written, and no chunk of another record with the same path  *)
(* is to come: it would have its header between.                           *)
LEMMA FreshRecvChunk ==
  ASSUME FreshInv, 1 \in DOMAIN net, RecvChunk(1)
  PROVE  FreshInv'
<1> DEFINE h == net[1].mid
<1>0. FileInv /\ TurnsInv /\ FileInv'
  BY FileRecvChunk DEF FreshInv
<1>1. /\ net' = RemoveAt(net, 1) /\ UNCHANGED <<todo, wait, ready>>
      /\ net[1].kind = "chunk"
  BY DEF RecvChunk
<1>2. DOMAIN incoming' \subseteq DOMAIN incoming
  BY ChunkWritesFree DEF Put
<1>3. TurnsInv' /\ \A m : Over(m) => Over(m)'
  BY <1>0, <1>1, <1>2, TurnsWhenTaken
<1>4. CASE UNCHANGED <<incoming, disk>>
  BY <1>0, <1>3, <1>4 DEF FreshInv, TakenIsOver
<1>5. ASSUME h \in DOMAIN incoming, disk' = disk,
             NEW r, incoming' = Put(incoming, h, r), r.path = incoming[h].path
      PROVE  FreshInv'
  <2>1. \A m \in DOMAIN incoming' : m \in DOMAIN incoming /\ incoming'[m].path = incoming[m].path
    BY <1>5 DEF Put
  <2>2. TakenIsOver'
    BY <1>3, <1>5, <2>1 DEF FreshInv, TakenIsOver
  <2> QED BY <1>0, <1>3, <2>2 DEF FreshInv
<1>6. ASSUME h \in DOMAIN incoming,
             incoming' = [x \in DOMAIN incoming \ {h} |-> incoming[x]],
             NEW c, disk' = Put(disk, incoming[h].path, c)
      PROVE  FreshInv'
  <2>1. DOMAIN disk' = DOMAIN disk \cup {incoming[h].path}
    BY <1>6 DEF Put
  <2>2. ASSUME NEW m \in DOMAIN incoming, m # h PROVE Over(m)
    <3> SUFFICES ASSUME NEW j \in 1..(Len(net) + 1), Coming(j, m) PROVE FALSE
      BY DEF Over
    <3>1. m \in Mids /\ ~Gone(m) /\ ~\E k \in DOMAIN net : HeaderAt(k, m)
      BY <1>0 DEF FileInv, TurnsInv, OneHeader, Gone
    <3>2. j # 1
      <4>1. Len(net) \in Nat /\ DOMAIN net = 1..Len(net)
        BY <1>0, NetIs
      <4>2. Len(net) + 1 # 1
        BY <4>1
      <4> QED BY <2>2, <4>2 DEF Coming
    <3>3. j \in (1 + 1)..(Len(net) + 1)
      BY <1>0, <3>2, NetIs
    <3>4. \E k \in (1 + 1)..(j - 1) : HeaderAt(k, m)
      BY <1>0, <2>2, <3>1, <3>3 DEF TurnsInv, InTurn
    <3> QED BY <3>1, <3>4 DEF HeaderAt
  <2>3. TakenIsOver'
    <3> SUFFICES ASSUME NEW m \in DOMAIN incoming', incoming'[m].path \in DOMAIN disk'
                 PROVE  Over(m)'
      BY DEF TakenIsOver
    <3>1. m \in DOMAIN incoming /\ m # h
      BY <1>6
    <3> QED BY <1>3, <2>2, <3>1
  <2> QED BY <1>0, <1>3, <2>3 DEF FreshInv
<1> QED BY <1>4, <1>5, <1>6, ChunkWritesFree

LEMMA FreshLose ==
  ASSUME FreshInv, Lose
  PROVE  FreshInv'
<1>0. FileInv /\ TurnsInv /\ FileInv'
  BY FileEnvironment DEF FreshInv
<1>1. PICK n \in DOMAIN net : net' = RemoveAt(net, n)
  BY DEF Lose
<1>2. UNCHANGED <<todo, wait, ready, incoming, disk>>
  BY DEF Lose
<1>3. TurnsInv' /\ \A m : Over(m) => Over(m)'
  BY <1>0, <1>1, <1>2, TurnsWhenTaken
<1> QED BY <1>0, <1>2, <1>3 DEF FreshInv, TakenIsOver

LEMMA FreshEnvironment ==
  ASSUME FreshInv, Rekey \/ RestartSender \/ RestartReceiver
  PROVE  FreshInv'
<1>1. FileInv' /\ UNCHANGED <<todo, net, disk>>
  BY FileEnvironment DEF FreshInv, Rekey, RestartSender, RestartReceiver
<1>2. incoming' = incoming \/ incoming' = <<>>
  BY DEF Rekey, RestartSender, RestartReceiver
<1>3. OneTimer' /\ \A m : Pending(m)' => Pending(m)
  <2>1. CASE UNCHANGED <<wait, ready>>
    BY <2>1 DEF FreshInv, TurnsInv, OneTimer, Pending, Armeds
  <2>2. CASE wait' = <<>> /\ ready' = <<>>
    <3>1. DOMAIN wait' = {} /\ DOMAIN ready' = {} /\ Len(wait') = 0 /\ Len(ready') = 0
      BY <2>2
    <3> QED BY <2>2, <3>1 DEF OneTimer, Pending, Armeds
  <2> QED BY <2>1, <2>2 DEF Rekey, RestartSender, RestartReceiver
<1> QED BY <1>1, <1>2, <1>3, FreshIfLess

LEMMA FreshStep ==
  ASSUME ~Overlap, "dup" \notin Faults, "reorder" \notin Faults,
         \A f, g \in Files : Mid[f] = Mid[g] => f = g,
         FreshInv, [Next]_vars
  PROVE  FreshInv'
<1>1. ASSUME NEW f \in Files, Upload(f) PROVE FreshInv'
  BY <1>1, FreshUpload
<1>2. CASE TimerExpires
  BY <1>2, FreshTimer
<1>3. CASE SendChunk
  BY <1>3, FreshSendChunk
<1>4. CASE Receive
  <2>1. 1 \in DOMAIN net /\ (RecvHeader(1) \/ RecvChunk(1))
    BY <1>4 DEF Receive, Deliverable
  <2> QED BY <2>1, FreshRecvHeader, FreshRecvChunk
<1>5. CASE Lose
  BY <1>5, FreshLose
<1>6. CASE Rekey \/ RestartSender \/ RestartReceiver
  BY <1>6, FreshEnvironment
<1>7. CASE UNCHANGED vars
  <2>1. FileInv' /\ UNCHANGED <<todo, net, disk, incoming, wait, ready>>
    BY <1>7, FileStep DEF FreshInv, vars
  <2>2. OneTimer' /\ \A m : Pending(m)' => Pending(m)
    BY <2>1 DEF FreshInv, TurnsInv, OneTimer, Pending, Armeds
  <2> QED BY <2>1, <2>2, FreshIfLess
<1> QED BY <1>1, <1>2, <1>3, <1>4, <1>5, <1>6, <1>7 DEF Next, Duplicate

(* A file on the disk stays as it is.                                      *)
DiskKept == \A path \in DOMAIN disk : path \in DOMAIN disk' /\ disk'[path] = disk[path]

LEMMA DiskIsKept ==
  ASSUME "reorder" \notin Faults, FreshInv, [Next]_vars
  PROVE  DiskKept
<1>1. CASE disk' = disk
  BY <1>1 DEF DiskKept
<1>2. CASE Receive
  <2>1. 1 \in DOMAIN net /\ (RecvHeader(1) \/ RecvChunk(1))
    BY <1>2 DEF Receive, Deliverable
  <2>2. CASE RecvHeader(1)
    BY <1>1, <2>2 DEF RecvHeader
  <2>3. CASE RecvChunk(1)
    <3>1. \/ disk' = disk
          \/ \E p, c : p \notin DOMAIN disk /\ disk' = Put(disk, p, c)
      BY <2>1, <2>3, ChunkWritesFree
    <3> QED BY <1>1, <3>1 DEF Put, DiskKept
  <2> QED BY <2>1, <2>2, <2>3
<1> QED BY <1>1, <1>2 DEF Next, vars, Upload, TimerExpires, SendChunk, Lose, Duplicate,
                          Rekey, RestartSender, RestartReceiver

(* A received file never replaces another one, where every upload has an   *)
(* identifier of its own, the user waits for an upload to end and packets  *)
(* arrive at most once and in order: whatever else is lost, garbled by an  *)
(* exchange of keys or forgotten in a restart.                             *)
THEOREM FilesNotReplaced ==
  ASSUME ~Overlap, "dup" \notin Faults, "reorder" \notin Faults,
         \A f, g \in Files : Mid[f] = Mid[g] => f = g
  PROVE  Spec => NothingOverwritten
<1>1. FreshInv /\ [Next]_vars => FreshInv'
  BY FreshStep
<1>2. FreshInv /\ [Next]_vars => DiskKept
  BY DiskIsKept
<1>3. DiskKept =>
        \A path \in DOMAIN disk : path \in DOMAIN disk' /\ disk'[path] = disk[path]
  BY DEF DiskKept
<1> QED BY <1>1, <1>2, <1>3, FreshInit, PTL DEF Spec, NothingOverwritten

----------------------------------------------------------------------------
(* What a chunk does where the keys stay: it is dropped without a record,  *)
(* or its record r is longer by it, and written if that is all of it.      *)
Dropped(q) == Mid[q[1]] \notin DOMAIN incoming /\ UNCHANGED <<incoming, disk>>

Stored(q, r) ==
  /\ Mid[q[1]] \in DOMAIN incoming
  /\ Collecting(r, q[1])
  /\ r.path = incoming[Mid[q[1]]].path
  /\ DOMAIN r.chunks = DOMAIN incoming[Mid[q[1]]].chunks \cup {q[2]}

Kept(q, r) ==
  /\ Cardinality(DOMAIN r.chunks) # r.total
  /\ incoming' = Put(incoming, Mid[q[1]], r) /\ disk' = disk

Written(q, r) ==
  /\ Chunks[q[1]] > 0
  /\ disk' = Put(disk, r.path, Whole(q[1]))
  /\ incoming' = [m \in DOMAIN incoming \ {Mid[q[1]]} |-> incoming[m]]

LEMMA ChunkOutcome ==
  ASSUME SavedInv, "rekey" \notin Faults, \A f, g \in Files : Mid[f] = Mid[g] => f = g,
         NEW n \in DOMAIN net, RecvChunk(n)
  PROVE  \E q \in Parts : /\ net[n].mid = Mid[q[1]] /\ net[n].pid = q[2]
                          /\ Dropped(q) \/ \E r : Stored(q, r) /\ (Kept(q, r) \/ Written(q, r))
<1> DEFINE m == net[n]
<1>1. m \in Sent
  BY TakenPacket
<1>2. PICK q \in Parts, k \in SealingKeys : m = SealedChunk(q, k)
  BY <1>1 DEF RecvChunk, Sent, Header
<1>3. /\ q[1] \in Files /\ q[2] \in Nat /\ q = <<q[1], q[2]>>
      /\ m.mid = Mid[q[1]] /\ m.pid = q[2] /\ m.key \in SealingKeys /\ m.data = q
  BY <1>2 DEF SealedChunk, Parts
<1>4. CASE m.mid \notin DOMAIN incoming
  BY <1>3, <1>4 DEF RecvChunk, Dropped
<1>5. CASE m.mid \in DOMAIN incoming
  <2>1. Decrypted(m) = {<<q>>}
    <3>1. keys["receiver"] \in SealingKeys
      BY DEF SavedInv, Sides
    <3>2. m.key = keys["receiver"] /\ keys["receiver"] # 0
      BY <1>3, <3>1 DEF SealingKeys
    <3> QED BY <1>3, <3>2 DEF Decrypted
  <2> DEFINE old == incoming[m.mid]
             c == Put(old.chunks, m.pid, q)
             r == [old EXCEPT !.chunks = c]
  <2>2. \/ /\ Complete(r, m.pid)
           /\ disk' = Put(disk, r.path, Assembled(r))
           /\ incoming' = [x \in DOMAIN incoming \ {m.mid} |-> incoming[x]]
        \/ /\ ~Complete(r, m.pid)
           /\ incoming' = Put(incoming, m.mid, r)
           /\ disk' = disk
    <3>1. \E data \in {<<q>>} :
            IF data = <<>>
              THEN UNCHANGED <<incoming, disk>>
              ELSE LET b == [old EXCEPT !.chunks = Put(@, m.pid, data[1])]
                   IN  IF Complete(b, m.pid)
                         THEN /\ disk' = Put(disk, b.path, Assembled(b))
                              /\ incoming' = [x \in DOMAIN incoming \ {m.mid} |-> incoming[x]]
                         ELSE /\ incoming' = Put(incoming, m.mid, b)
                              /\ UNCHANGED disk
      BY <1>5, <2>1 DEF RecvChunk
    <3>2. <<q>> # <<>> /\ <<q>>[1] = q
      OBVIOUS
    <3> QED BY <3>1, <3>2
  <2>3. PICK f \in Files : Mid[f] = m.mid /\ Collecting(old, f)
    BY <1>5 DEF SavedInv
  <2>4. f = q[1]
    BY <1>3, <2>3
  <2>5. r = [total |-> Chunks[f], path |-> old.path, chunks |-> c]
    <3> HIDE DEF c, old
    <3> QED BY <2>3 DEF Collecting
  <2>6. /\ Collecting(r, f) /\ q[2] \in DOMAIN r.chunks /\ r.path = old.path
        /\ DOMAIN r.chunks = DOMAIN old.chunks \cup {q[2]}
    <3>1. DOMAIN c = DOMAIN old.chunks \cup {q[2]}
      BY <1>3 DEF Put
    <3>2. \A i \in DOMAIN c : <<f, i>> \in Parts /\ c[i] \in Pieces(f, i)
      <4>1. \A i \in DOMAIN c : c[i] = IF i = q[2] THEN q ELSE old.chunks[i]
        BY <1>3 DEF Put
      <4>2. <<f, q[2]>> \in Parts /\ q \in Pieces(f, q[2])
        BY <1>3, <2>4 DEF Pieces
      <4>3. \A i \in DOMAIN old.chunks : <<f, i>> \in Parts /\ old.chunks[i] \in Pieces(f, i)
        BY <2>3 DEF Collecting
      <4> HIDE DEF c, old
      <4> QED BY <3>1, <4>1, <4>2, <4>3
    <3>3. c = [i \in DOMAIN c |-> c[i]]
      BY <3>1 DEF Put
    <3>4. old.path[1] = Name[f]
      BY <2>3 DEF Collecting
    <3>5. r.total = Chunks[f] /\ r.path = old.path /\ r.chunks = c
      BY <2>5
    <3> HIDE DEF c, r, old
    <3> QED BY <2>5, <3>1, <3>2, <3>3, <3>4, <3>5 DEF Collecting
  <2> HIDE DEF r
  <2>7. Stored(q, r)
    BY <1>3, <1>5, <2>4, <2>6 DEF Stored
  <2>8. CASE /\ ~Complete(r, m.pid)
             /\ incoming' = Put(incoming, m.mid, r)
             /\ disk' = disk
    <3>1. Kept(q, r)
      BY <1>3, <2>8 DEF Kept, Complete
    <3> QED BY <1>3, <2>7, <3>1
  <2>9. CASE /\ Complete(r, m.pid)
             /\ disk' = Put(disk, r.path, Assembled(r))
             /\ incoming' = [x \in DOMAIN incoming \ {m.mid} |-> incoming[x]]
    <3>1. CopyOf(Assembled(r), f)
      BY <2>6, <2>9, FullRecord DEF Complete
    <3>2. Assembled(r) = Whole(f)
      BY <3>1 DEF CopyOf, Pieces, Whole
    <3>3. Chunks[f] > 0
      <4>1. Chunks[f] \in Nat /\ r.total = Chunks[f] /\ Cardinality(DOMAIN r.chunks) = r.total
        BY <2>6, <2>9, FilesAssumption DEF Collecting, Complete
      <4>2. CASE Chunks[f] = 0
        <5>1. \A i \in DOMAIN r.chunks : i = 0
          <6>1. \A i \in DOMAIN r.chunks : <<f, i>> \in Parts
            BY <2>6 DEF Collecting
          <6>2. ASSUME NEW i, <<f, i>> \in Parts PROVE i = 0
            <7>1. i \in Nat /\ (i < Chunks[f] \/ i = 0)
              BY <6>2 DEF Parts
            <7> QED BY <4>2, <7>1
          <6> QED BY <6>1, <6>2
        <5>2. DOMAIN r.chunks = {q[2]}
          BY <2>6, <5>1
        <5>3. Cardinality(DOMAIN r.chunks) = 1
          BY <5>2, FS_Singleton
        <5> QED BY <4>1, <4>2, <5>3
      <4> QED BY <4>1, <4>2
    <3>4. Written(q, r)
      BY <1>3, <2>4, <2>9, <3>2, <3>3 DEF Written
    <3> QED BY <1>3, <2>7, <3>4
  <2> QED BY <2>2, <2>8, <2>9
<1> QED BY <1>4, <1>5

----------------------------------------------------------------------------
(* The refinement of FriendFiles.                                          *)
(*                                                                         *)
(* The packets on their way, wherever they are.                            *)
UnderWay == {net[n] : n \in DOMAIN net}

LEMMA TakenFromNet ==
  ASSUME FileInv, NEW n \in DOMAIN net, net' = RemoveAt(net, n)
  PROVE  UnderWay' \subseteq UnderWay /\ UnderWay \subseteq UnderWay' \cup {net[n]}
<1>1. PICK N \in Nat : N = Len(net)
  BY NetIs
<1>2. net \in Seq(Packets) /\ DOMAIN net = 1..N /\ n \in 1..N
  BY <1>1, NetIs
<1>3. /\ DOMAIN net' = 1..(N - 1)
      /\ \A i \in 1..(N - 1) : net'[i] = IF i < n THEN net[i] ELSE net[i + 1]
  <2>1. /\ net' \in Seq(Packets) /\ Len(net') = N - 1
        /\ \A i \in 1..(N - 1) : net'[i] = IF i < n THEN net[i] ELSE net[i + 1]
    BY <1>1, <1>2, RemoveAtProperties
  <2> QED BY <2>1, LenProperties
<1>4. ASSUME NEW i \in 1..(N - 1) PROVE net'[i] \in UnderWay
  <2>1. i \in 1..N /\ i + 1 \in 1..N
    BY <1>1
  <2> QED BY <1>2, <1>3, <2>1 DEF UnderWay
<1>5. ASSUME NEW k \in 1..N, k # n PROVE net[k] \in UnderWay'
  <2>1. CASE k < n
    <3>1. k \in 1..(N - 1)
      BY <1>2, <2>1
    <3>2. net'[k] = net[k]
      BY <1>3, <2>1, <3>1
    <3> QED BY <1>3, <3>1, <3>2 DEF UnderWay
  <2>2. CASE ~(k < n)
    <3>1. PICK i \in 1..(N - 1) : k = i + 1 /\ ~(i < n)
      <4>1. k - 1 \in 1..(N - 1) /\ k = (k - 1) + 1 /\ ~(k - 1 < n)
        BY <1>2, <1>5, <2>2
      <4> QED BY <4>1
    <3>2. net'[i] = net[k]
      BY <1>3, <3>1
    <3> QED BY <1>3, <3>2 DEF UnderWay
  <2> QED BY <2>1, <2>2
<1> QED BY <1>2, <1>3, <1>4, <1>5 DEF UnderWay

LEMMA AddedToNet ==
  ASSUME FileInv, NEW p \in Packets, net' = Append(net, p)
  PROVE  UnderWay' = UnderWay \cup {p}
<1>1. PICK N \in Nat : N = Len(net)
  BY NetIs
<1>2. /\ DOMAIN net = 1..N /\ DOMAIN net' = 1..(N + 1)
      /\ \A i \in 1..N : net'[i] = net[i]
      /\ net'[N + 1] = p
  BY <1>1, NetIs, NetAppended
<1>3. \A i \in 1..(N + 1) : i \in 1..N \/ i = N + 1
  OBVIOUS
<1>4. \A i \in 1..N : i \in 1..(N + 1)
  OBVIOUS
<1>5. N + 1 \in 1..(N + 1)
  OBVIOUS
<1> QED BY <1>2, <1>3, <1>4, <1>5 DEF UnderWay

LEMMA HeaderIsFirst ==
  ASSUME FreshInv, NEW p \in UnderWay, p.kind = "header"
  PROVE  p.mid \in Mids /\ p.mid \notin DOMAIN incoming
<1>1. PICK n \in DOMAIN net : net[n] = p
  BY DEF UnderWay
<1>2. HeaderAt(n, p.mid) /\ p.mid \in Mids
  BY <1>1, NetIs DEF HeaderAt, FreshInv
<1> QED BY <1>2 DEF FreshInv, TurnsInv, OneHeader

LEMMA SentPackets ==
  ASSUME FileInv
  PROVE  /\ \A f \in Files : Header(f) \in Packets
         /\ \A f \in Files, i \in Nat : Chunk(f, i) \in Packets
<1>1. \A f \in Files : Header(f) \in Packets
  BY DEF Packets
<1>2. ASSUME NEW f \in Files, NEW i \in Nat PROVE Chunk(f, i) \in Packets
  <2>1. Chunk(f, i) = SealedChunk(<<f, i>>, keys["sender"])
    BY DEF Chunk, SealedChunk
  <2>2. keys["sender"] \in Keys /\ <<f, i>> \in Places
    BY DEF FileInv, Sides, Places
  <2>3. SealedChunk(<<f, i>>, keys["sender"]) \in Packets
    BY <2>2 DEF Packets
  <2> QED BY <2>1, <2>3
<1> QED BY <1>1, <1>2

(* What the steps other than an upload put on the network are chunks, and  *)
(* what they teach the receiver stood in a header.                         *)
LEMMA OtherSteps ==
  ASSUME FreshInv, "dup" \notin Faults, [Next]_vars, ~\E f \in Files : Upload(f)
  PROVE  /\ todo' = todo
         /\ \A p \in UnderWay' : p \in UnderWay \/ p.kind = "chunk"
         /\ \A m \in DOMAIN incoming' :
              m \in DOMAIN incoming \/ \E p \in UnderWay : p.kind = "header" /\ p.mid = m
<1>0. FileInv
  BY DEF FreshInv
<1>1. CASE TimerExpires \/ Rekey \/ RestartSender \/ RestartReceiver \/ UNCHANGED vars
  <2>1. net' = net /\ todo' = todo /\ (incoming' = incoming \/ incoming' = <<>>)
    BY <1>1 DEF TimerExpires, Rekey, RestartSender, RestartReceiver, vars
  <2>2. DOMAIN incoming' \subseteq DOMAIN incoming
    BY <2>1
  <2> QED BY <2>1, <2>2 DEF UnderWay
<1>2. CASE SendChunk
  <2>1. todo' = todo /\ incoming' = incoming /\ ready \in Seq(Files \X Nat) /\ ready # <<>>
    BY <1>0, <1>2 DEF SendChunk, FileInv
  <2>2. PICK q \in Files \X Nat : q = Head(ready)
    BY <2>1, HeadTailProperties
  <2>3. net' = net \/ net' = Append(net, Chunk(q[1], q[2]))
    BY <1>2, <2>2 DEF SendChunk
  <2>4. Chunk(q[1], q[2]) \in Packets /\ Chunk(q[1], q[2]).kind = "chunk"
    BY <1>0, SentPackets DEF Chunk
  <2>5. CASE net' = net
    BY <2>1, <2>5 DEF UnderWay
  <2>6. CASE net' = Append(net, Chunk(q[1], q[2]))
    BY <1>0, <2>1, <2>4, <2>6, AddedToNet
  <2> QED BY <2>3, <2>5, <2>6
<1>3. CASE Lose
  BY <1>0, <1>3, TakenFromNet DEF Lose
<1>4. CASE Receive
  <2>1. PICK n \in DOMAIN net : RecvHeader(n) \/ RecvChunk(n)
    BY <1>4 DEF Receive, Deliverable
  <2>2. todo' = todo /\ UnderWay' \subseteq UnderWay /\ net[n] \in UnderWay
    BY <1>0, <2>1, TakenFromNet DEF RecvHeader, RecvChunk, UnderWay
  <2>3. CASE RecvHeader(n)
    <3>1. DOMAIN incoming' = DOMAIN incoming \cup {net[n].mid} /\ net[n].kind = "header"
      BY <2>3 DEF RecvHeader, Put
    <3> QED BY <2>2, <3>1
  <2>4. CASE RecvChunk(n)
    <3>1. DOMAIN incoming' \subseteq DOMAIN incoming
      BY <2>4 DEF RecvChunk, Put
    <3> QED BY <2>2, <3>1
  <2> QED BY <2>1, <2>3, <2>4
<1> QED BY <1>1, <1>2, <1>3, <1>4 DEF Next, Duplicate

(* Nothing of upload f is to come that could begin a record.               *)
Finished(f) ==
  /\ f \notin todo /\ Mid[f] \notin DOMAIN incoming
  /\ \A p \in UnderWay : p.kind = "header" => p.mid # Mid[f]

LEMMA FinishedStays ==
  ASSUME FreshInv, "dup" \notin Faults, \A f, g \in Files : Mid[f] = Mid[g] => f = g,
         [Next]_vars, NEW f \in Files, Finished(f)
  PROVE  Finished(f)'
<1>1. ASSUME NEW g \in Files, Upload(g) PROVE Finished(f)'
  <2>1. /\ g \in todo /\ todo' = todo \ {g} /\ incoming' = incoming
        /\ net' = Append(net, Header(g))
    BY <1>1 DEF Upload
  <2>2. UnderWay' = UnderWay \cup {Header(g)} /\ Header(g).mid = Mid[g]
    BY <2>1, AddedToNet, SentPackets DEF FreshInv, Header
  <2>3. Mid[g] # Mid[f]
    BY <2>1 DEF Finished
  <2> QED BY <2>1, <2>2, <2>3 DEF Finished
<1>2. CASE ~\E g \in Files : Upload(g)
  <2>1. /\ todo' = todo
        /\ \A p \in UnderWay' : p \in UnderWay \/ p.kind = "chunk"
        /\ \A m \in DOMAIN incoming' :
             m \in DOMAIN incoming \/ \E p \in UnderWay : p.kind = "header" /\ p.mid = m
    BY <1>2, OtherSteps
  <2>2. \A p \in UnderWay' : p.kind = "header" => p \in UnderWay
    BY <2>1
  <2> QED BY <2>1, <2>2 DEF Finished
<1> QED BY <1>1, <1>2

(* Each file on the disk is an upload that will not be written again, and  *)
(* a record has the first number its name had left.                        *)
Once ==
  \A path \in DOMAIN disk : \E f \in Files :
    Chunks[f] > 0 /\ disk[path] = Whole(f) /\ Finished(f)

NoGap == \A m \in DOMAIN incoming : FirstFree(incoming[m].path)

PromiseInv == FreshInv /\ SavedInv /\ Once /\ NoGap

(* No path that is taken becomes free, so the record that a header makes   *)
(* keeps the first free number until it is filled.                         *)
LEMMA NoGapStep ==
  ASSUME PromiseInv, "reorder" \notin Faults, "rekey" \notin Faults,
         \A f, g \in Files : Mid[f] = Mid[g] => f = g, [Next]_vars
  PROVE  NoGap'
<1>0. \A path \in DOMAIN disk : path \in DOMAIN disk'
  BY DiskIsKept DEF PromiseInv, DiskKept
<1>1. \A path : FirstFree(path) => FirstFree(path)'
  BY <1>0 DEF FirstFree
<1>2. ASSUME NEW n \in DOMAIN net, RecvHeader(n) PROVE NoGap'
  <2>1. incoming' = Put(incoming, net[n].mid, [total |-> net[n].total,
                                               path |-> FreePath(net[n].name), chunks |-> <<>>])
    BY <1>2 DEF RecvHeader
  <2>2. FirstFree(FreePath(net[n].name))
    BY FreePathIsFree DEF PromiseInv, FreshInv, FileInv
  <2>3. ASSUME NEW m \in DOMAIN incoming'
        PROVE  \/ m \in DOMAIN incoming /\ incoming'[m].path = incoming[m].path
               \/ incoming'[m].path = FreePath(net[n].name)
    BY <2>1 DEF Put
  <2> QED BY <1>1, <2>2, <2>3 DEF PromiseInv, NoGap
<1>3. ASSUME NEW n \in DOMAIN net, RecvChunk(n) PROVE NoGap'
  <2>1. PICK q \in Parts :
          Dropped(q) \/ \E r : Stored(q, r) /\ (Kept(q, r) \/ Written(q, r))
    BY <1>3, ChunkOutcome DEF PromiseInv
  <2>2. \A m \in DOMAIN incoming' : m \in DOMAIN incoming /\ incoming'[m].path = incoming[m].path
    <3>1. CASE Dropped(q)
      BY <3>1 DEF Dropped
    <3>2. ASSUME NEW r, Stored(q, r), Kept(q, r)
          PROVE  \A m \in DOMAIN incoming' : m \in DOMAIN incoming /\ incoming'[m].path = incoming[m].path
      BY <3>2 DEF Stored, Kept, Put
    <3>3. ASSUME NEW r, Written(q, r)
          PROVE  \A m \in DOMAIN incoming' : m \in DOMAIN incoming /\ incoming'[m].path = incoming[m].path
      BY <3>3 DEF Written
    <3> QED BY <2>1, <3>1, <3>2, <3>3
  <2> QED BY <1>1, <2>2 DEF PromiseInv, NoGap
<1>4. CASE incoming' = incoming \/ incoming' = <<>>
  <2>1. \A m \in DOMAIN incoming' : m \in DOMAIN incoming /\ incoming'[m].path = incoming[m].path
    BY <1>4
  <2> QED BY <1>1, <2>1 DEF PromiseInv, NoGap
<1>5. ~Receive => incoming' = incoming \/ incoming' = <<>>
  BY DEF Next, vars, Upload, TimerExpires, SendChunk, Lose, Duplicate, Rekey, RestartSender,
         RestartReceiver
<1> QED BY <1>2, <1>3, <1>4, <1>5 DEF Receive, Deliverable

(* A chunk that completes a file lets the abstract file arrive.            *)
LEMMA WrittenArrives ==
  ASSUME PromiseInv, \A f, g \in Files : Mid[f] = Mid[g] => f = g,
         1 \in DOMAIN net, RecvChunk(1), NEW q \in Parts, net[1].mid = Mid[q[1]], NEW r,
         Stored(q, r), Written(q, r)
  PROVE  Promise!Arrive(q[1]) /\ ~Finished(q[1])
<1> DEFINE f == q[1]
           path == r.path
<1>0. f \in Files /\ Chunks[f] \in Nat /\ Chunks[f] > 0 /\ Mid[f] \in DOMAIN incoming
  BY FilesAssumption DEF Parts, Stored, Written
<1> HIDE DEF f
<1>1. f \in Files \ todo /\ ~Finished(f)
  BY <1>0 DEF PromiseInv, FreshInv, TurnsInv, NotYet, Finished
<1>2. /\ path = incoming[Mid[f]].path /\ path[1] = Name[f] /\ path \in Names \X Nat
      /\ disk' = Put(disk, path, Whole(f))
  <2>1. path = incoming[Mid[f]].path /\ path[1] = Name[f]
    BY DEF Stored, Collecting, f
  <2>2. incoming[Mid[f]].path \in Names \X Nat
    BY <1>0 DEF PromiseInv, FreshInv, FileInv, Record
  <2> QED BY <2>1, <2>2 DEF Written, f
<1> HIDE DEF path
<1>3. PICK k \in Nat : path = <<Name[f], k>>
  BY <1>2
<1>4. path \notin DOMAIN disk
  <2>1. 1 \in 1..(Len(net) + 1) /\ Coming(1, Mid[f])
    <3>1. net[1].kind = "chunk" /\ net[1].mid = Mid[f]
      BY DEF RecvChunk, f
    <3>2. DOMAIN net = 1..Len(net) /\ Len(net) \in Nat
      BY NetIs DEF PromiseInv, FreshInv
    <3> QED BY <3>1, <3>2 DEF Coming
  <2> QED BY <1>0, <1>2, <2>1 DEF PromiseInv, FreshInv, TakenIsOver, Over
<1>5. FirstFree(<<Name[f], k>>)
  BY <1>0, <1>2, <1>3 DEF PromiseInv, NoGap
<1>6. k \in {0} \cup {p[2] + 1 : p \in DOMAIN disk}
  <2>1. CASE k # 0
    <3>1. k - 1 \in 0..k /\ k - 1 < k
      BY <2>1
    <3>2. <<Name[f], k - 1>> \in DOMAIN disk
      BY <1>5, <3>1 DEF FirstFree
    <3>3. <<Name[f], k - 1>>[2] + 1 = k
      OBVIOUS
    <3> QED BY <3>2, <3>3
  <2> QED BY <2>1
<1>7. \A j \in 0..k : <<Name[f], j>> \in DOMAIN disk <=> j < k
  <2>1. \A j \in 0..k : j < k => <<Name[f], j>> \in DOMAIN disk
    BY <1>5 DEF FirstFree
  <2>2. \A j \in 0..k : j < k \/ j = k
    OBVIOUS
  <2> QED BY <1>3, <1>4, <2>1, <2>2
<1>8. ASSUME NEW p \in DOMAIN disk PROVE disk[p] # Whole(f)
  <2>1. PICK g \in Files : Chunks[g] > 0 /\ disk[p] = Whole(g) /\ Finished(g)
    BY DEF PromiseInv, Once
  <2>2. g # f
    BY <1>1, <2>1
  <2>3. Whole(g)[1] = <<g, 0>> /\ Whole(f)[1] = <<f, 0>>
    <3>1. Chunks[g] \in Nat
      BY FilesAssumption
    <3>2. 1 \in 1..Chunks[g] /\ 1 \in 1..Chunks[f] /\ 1 - 1 = 0
      BY <1>0, <2>1, <3>1
    <3> QED BY <3>2 DEF Whole
  <2> QED BY <2>1, <2>2, <2>3
<1>9. disk' = [p \in DOMAIN disk \cup {<<Name[f], k>>} |->
                 IF p \in DOMAIN disk THEN disk[p] ELSE Whole(f)]
  BY <1>2, <1>3, <1>4 DEF Put
<1>10. Whole(f) # <<>>
  <2>1. DOMAIN Whole(f) = 1..Chunks[f] /\ 1 \in 1..Chunks[f]
    BY <1>0 DEF Whole
  <2>2. DOMAIN <<>> = {}
    OBVIOUS
  <2> QED BY <2>1, <2>2
<1>11. todo' = todo
  BY DEF RecvChunk
<1>12. [g \in Files |-> Whole(g)][f] = Whole(f)
  BY <1>0
<1>13. Promise!Arrive(f)
  BY <1>1, <1>6, <1>7, <1>8, <1>9, <1>10, <1>11, <1>12 DEF Promise!Arrive
<1> QED BY <1>1, <1>13 DEF f

(* Whether a step writes a file: only the chunk that completes it does.    *)
LEMMA DiskStep ==
  ASSUME PromiseInv, "reorder" \notin Faults, "rekey" \notin Faults,
         \A f, g \in Files : Mid[f] = Mid[g] => f = g, [Next]_vars
  PROVE  \/ disk' = disk
         \/ /\ 1 \in DOMAIN net /\ RecvChunk(1)
            /\ \E q \in Parts : net[1].mid = Mid[q[1]] /\ \E r : Stored(q, r) /\ Written(q, r)
<1>1. ~Receive => disk' = disk
  BY DEF Next, vars, Upload, TimerExpires, SendChunk, Lose, Duplicate, Rekey, RestartSender,
         RestartReceiver
<1>2. CASE Receive
  <2>1. 1 \in DOMAIN net /\ (RecvHeader(1) \/ RecvChunk(1))
    BY <1>2 DEF Receive, Deliverable
  <2>2. CASE RecvHeader(1)
    BY <2>2 DEF RecvHeader
  <2>3. CASE RecvChunk(1)
    <3>1. PICK q \in Parts : /\ net[1].mid = Mid[q[1]]
                             /\ Dropped(q) \/ \E r : Stored(q, r) /\ (Kept(q, r) \/ Written(q, r))
      BY <2>1, <2>3, ChunkOutcome DEF PromiseInv
    <3> QED BY <2>1, <2>3, <3>1 DEF Dropped, Kept
  <2> QED BY <2>1, <2>2, <2>3
<1> QED BY <1>1, <1>2

(* The file that was written is over: its record is gone, and the header   *)
(* that made the record was its only one.                                  *)
LEMMA OnceStep ==
  ASSUME PromiseInv, Faults \subseteq {"loss", "restart"},
         \A f, g \in Files : Mid[f] = Mid[g] => f = g, [Next]_vars
  PROVE  Once'
<1>0. "dup" \notin Faults /\ "reorder" \notin Faults /\ "rekey" \notin Faults /\ FreshInv
  BY DEF PromiseInv
<1>1. ASSUME NEW path \in DOMAIN disk, disk'[path] = disk[path]
      PROVE  \E f \in Files : Chunks[f] > 0 /\ disk'[path] = Whole(f) /\ Finished(f)'
  <2>1. PICK f \in Files : Chunks[f] > 0 /\ disk[path] = Whole(f) /\ Finished(f)
    BY DEF PromiseInv, Once
  <2>2. Finished(f)'
    BY <1>0, <2>1, FinishedStays
  <2> QED BY <1>1, <2>1, <2>2
<1>2. CASE disk' = disk
  BY <1>1, <1>2 DEF Once, Whole
<1>3. ASSUME 1 \in DOMAIN net, RecvChunk(1), NEW q \in Parts, net[1].mid = Mid[q[1]], NEW r,
             Stored(q, r), Written(q, r)
      PROVE  Once'
  <2>1. PICK f \in Files : f = q[1]
    BY DEF Parts
  <2>2. Mid[f] \in DOMAIN incoming /\ Chunks[f] > 0
    BY <1>3, <2>1 DEF Stored, Written
  <2>3. Finished(f)'
    <3>1. f \notin todo' /\ ~\E g \in Files : Upload(g)
      <4>1. f \notin todo /\ todo' = todo
        BY <1>3, <2>2 DEF RecvChunk, PromiseInv, FreshInv, TurnsInv, NotYet
      <4> QED BY <4>1 DEF Upload
    <3>2. Mid[f] \notin DOMAIN incoming'
      BY <1>3, <2>1 DEF Written
    <3>3. \A p \in UnderWay' : p \in UnderWay \/ p.kind = "chunk"
      BY <1>0, <3>1, OtherSteps
    <3>4. ASSUME NEW p \in UnderWay', p.kind = "header" PROVE p.mid # Mid[f]
      <4>1. p \in UnderWay
        BY <3>3, <3>4
      <4> QED BY <1>0, <2>2, <3>4, <4>1, HeaderIsFirst
    <3> QED BY <3>1, <3>2, <3>4 DEF Finished
  <2>4. /\ DOMAIN disk' = DOMAIN disk \cup {r.path}
        /\ disk'[r.path] = Whole(f)
        /\ \A path \in DOMAIN disk : path # r.path => disk'[path] = disk[path]
    BY <1>3, <2>1 DEF Written, Put
  <2>5. ASSUME NEW path \in DOMAIN disk'
        PROVE  \E g \in Files : Chunks[g] > 0 /\ disk'[path] = Whole(g) /\ Finished(g)'
    <3>1. CASE path = r.path
      BY <2>2, <2>3, <2>4, <3>1
    <3>2. CASE path # r.path
      BY <1>1, <2>4, <3>2
    <3> QED BY <3>1, <3>2
  <2> QED BY <2>5 DEF Once, Whole
<1> QED BY <1>0, <1>2, <1>3, DiskStep

(* An upload offers a file, the last chunk lets it arrive, and no other    *)
(* step shows.                                                             *)
LEMMA PromiseStep ==
  ASSUME PromiseInv, Faults \subseteq {"loss", "restart"},
         \A f, g \in Files : Mid[f] = Mid[g] => f = g, [Next]_vars
  PROVE  [Promise!Next]_(Promise!transfers)
<1>0. "reorder" \notin Faults /\ "rekey" \notin Faults
  OBVIOUS
<1>1. ASSUME NEW f \in Files, Upload(f) PROVE Promise!Next
  <2>1. f \in todo /\ todo' = todo \ {f} /\ disk' = disk
    BY <1>1 DEF Upload
  <2>2. f \notin Files \ todo /\ Files \ todo' = (Files \ todo) \cup {f}
    BY <2>1
  <2>3. Promise!Offer(f)
    BY <2>1, <2>2 DEF Promise!Offer
  <2> QED BY <2>3 DEF Promise!Next
<1>2. CASE ~\E f \in Files : Upload(f)
  <2>1. todo' = todo
    BY <1>2 DEF Next, vars, TimerExpires, SendChunk, Receive, RecvHeader, RecvChunk, Lose, Duplicate,
                Rekey, RestartSender, RestartReceiver
  <2>2. CASE disk' = disk
    BY <2>1, <2>2 DEF Promise!transfers
  <2>3. ASSUME 1 \in DOMAIN net, RecvChunk(1), NEW q \in Parts, net[1].mid = Mid[q[1]], NEW r,
               Stored(q, r), Written(q, r)
        PROVE  Promise!Next
    <3>1. Promise!Arrive(q[1])
      BY <2>3, WrittenArrives
    <3>2. q[1] \in Files
      BY DEF Parts
    <3> QED BY <3>1, <3>2 DEF Promise!Next
  <2> QED BY <1>0, <2>2, <2>3, DiskStep
<1> QED BY <1>1, <1>2

(* Whatever packets are lost and whenever the two programs restart, the    *)
(* uploads a user makes in turn, each with an identifier of its own, are   *)
(* offered and arrive as FriendFiles has it: at most once, whole, under    *)
(* the first free number, and none that is empty.                          *)
THEOREM RefinesFriendFiles ==
  ASSUME ~Overlap, Faults \subseteq {"loss", "restart"},
         \A f, g \in Files : Mid[f] = Mid[g] => f = g
  PROVE  Spec => ImplementsFriendFiles
<1>1. Init => PromiseInv /\ Promise!Init
  <2> SUFFICES ASSUME Init PROVE PromiseInv /\ Promise!Init
    OBVIOUS
  <2>1. todo = Files /\ disk = <<>> /\ DOMAIN disk = {} /\ DOMAIN incoming = {}
    BY DEF Init
  <2>2. Once /\ NoGap
    BY <2>1 DEF Once, NoGap
  <2>3. Promise!Init
    BY <2>1 DEF Promise!Init
  <2> QED BY <2>2, <2>3, FreshInit, SavedInit DEF PromiseInv
<1>2. PromiseInv /\ [Next]_vars => PromiseInv' /\ [Promise!Next]_(Promise!transfers)
  <2> SUFFICES ASSUME PromiseInv, [Next]_vars
               PROVE  PromiseInv' /\ [Promise!Next]_(Promise!transfers)
    OBVIOUS
  <2>1. FreshInv'
    BY FreshStep DEF PromiseInv
  <2>2. SavedInv'
    BY SavedStep DEF PromiseInv
  <2>3. Once' /\ NoGap'
    BY OnceStep, NoGapStep
  <2>4. [Promise!Next]_(Promise!transfers)
    BY PromiseStep
  <2> QED BY <2>1, <2>2, <2>3, <2>4 DEF PromiseInv
<1> QED BY <1>1, <1>2, PTL DEF Spec, ImplementsFriendFiles, Promise!Spec

----------------------------------------------------------------------------
(* A faultless transfer never stops half way.                              *)
(*                                                                         *)
(* Each chunk of an upload that is not on the disk yet is in its record,   *)
(* on the network or still to be sent, and the record is there before the  *)
(* first chunk: else the chunk would be dropped.                           *)
Landed(f) == \E path \in DOMAIN disk : disk[path] = Whole(f) /\ path[1] = Name[f]

InRecord(f, i) == Mid[f] \in DOMAIN incoming /\ i \in DOMAIN incoming[Mid[f]].chunks
InNet(f, i) == \E p \in UnderWay : p.kind = "chunk" /\ p.mid = Mid[f] /\ p.pid = i
Due(f, i) == \E q \in Armeds : q[1] = f /\ q[2] <= i

HeaderAhead(f) ==
  \E k \in DOMAIN net : HeaderAt(k, Mid[f]) /\ \A n \in 1..(k - 1) : net[n].mid # Mid[f]

OnItsWay(f) ==
  /\ Mid[f] \in DOMAIN incoming \/ HeaderAhead(f)
  /\ \A i \in 0..(Chunks[f] - 1) : InRecord(f, i) \/ InNet(f, i) \/ Due(f, i)

(* A full record would have been written.                                  *)
Unfinished ==
  \A m \in DOMAIN incoming :
    incoming[m].total = 0 \/ Cardinality(DOMAIN incoming[m].chunks) # incoming[m].total

Travelling == \A f \in Files \ todo : Chunks[f] > 0 => Landed(f) \/ OnItsWay(f)

QuietInv == FreshInv /\ SavedInv /\ Unfinished /\ Travelling

LEMMA QuietMeansSaved == QuietInv /\ (\A f, g \in Files : Mid[f] = Mid[g] => f = g) => SavedWhenQuiet
<1> SUFFICES ASSUME QuietInv, \A f, g \in Files : Mid[f] = Mid[g] => f = g,
                    wait = <<>>, ready = <<>>, net = <<>>,
                    NEW f \in Files \ todo, Chunks[f] > 0, ~Landed(f)
             PROVE  FALSE
  BY DEF SavedWhenQuiet, Idle, Landed
<1>1. Armeds = {} /\ UnderWay = {} /\ DOMAIN net = {}
  <2>1. DOMAIN wait = {} /\ DOMAIN ready = {} /\ DOMAIN net = {}
    OBVIOUS
  <2> QED BY <2>1 DEF Armeds, UnderWay
<1>2. OnItsWay(f)
  BY DEF QuietInv, Travelling
<1> DEFINE r == incoming[Mid[f]]
<1>3. Mid[f] \in DOMAIN incoming /\ \A i \in 0..(Chunks[f] - 1) : i \in DOMAIN r.chunks
  BY <1>1, <1>2 DEF OnItsWay, HeaderAhead, InRecord, InNet, Due
<1>4. Collecting(r, f)
  <2>1. PICK g \in Files : Mid[g] = Mid[f] /\ Collecting(r, g)
    BY <1>3 DEF QuietInv, SavedInv
  <2> QED BY <2>1
<1>5. Cardinality(DOMAIN r.chunks) # r.total /\ r.total = Chunks[f] /\ Chunks[f] \in Nat
  BY <1>3, <1>4, FilesAssumption DEF Collecting, QuietInv, Unfinished
<1> HIDE DEF r
<1>6. DOMAIN r.chunks = 0..(Chunks[f] - 1)
  <2>1. ASSUME NEW i \in DOMAIN r.chunks PROVE i \in 0..(Chunks[f] - 1)
    <3>1. <<f, i>> \in Parts
      BY <1>4, <2>1 DEF Collecting
    <3>2. i \in Nat /\ (i < Chunks[f] \/ Chunks[f] = 0)
      BY <3>1 DEF Parts
    <3> QED BY <1>5, <3>2
  <2> QED BY <1>3, <2>1
<1>7. Cardinality(0..(Chunks[f] - 1)) = Chunks[f]
  <2>1. PICK N \in Nat : N = Chunks[f] /\ N > 0
    BY <1>5
  <2>2. 0 \in Int /\ N - 1 \in Int /\ ~(0 > N - 1) /\ N - 1 - 0 + 1 = N
    BY <2>1
  <2>3. Cardinality(0..(N - 1)) = N
    BY <2>2, FS_Interval
  <2> QED BY <2>1, <2>3
<1> QED BY <1>5, <1>6, <1>7

(* What stays the same for an upload that a step does not touch.           *)
LEMMA StillOnItsWay ==
  ASSUME QuietInv, "reorder" \notin Faults, [Next]_vars, NEW f \in Files,
         Landed(f) \/ OnItsWay(f),
         OnItsWay(f) => Mid[f] \in DOMAIN incoming' \/ HeaderAhead(f)',
         \A i \in 0..(Chunks[f] - 1) : InRecord(f, i) => InRecord(f, i)',
         \A i \in 0..(Chunks[f] - 1) : InNet(f, i) => InNet(f, i)' \/ InRecord(f, i)',
         \A i \in 0..(Chunks[f] - 1) : Due(f, i) => Due(f, i)' \/ InNet(f, i)'
  PROVE  Landed(f)' \/ OnItsWay(f)'
<1>1. CASE Landed(f)
  <2>1. PICK path \in DOMAIN disk : disk[path] = Whole(f) /\ path[1] = Name[f]
    BY <1>1 DEF Landed
  <2>2. path \in DOMAIN disk' /\ disk'[path] = disk[path]
    BY DiskIsKept DEF QuietInv, DiskKept
  <2> QED BY <2>1, <2>2 DEF Landed, Whole
<1>2. CASE OnItsWay(f)
  BY <1>2 DEF OnItsWay
<1> QED BY <1>1, <1>2

(* The first packet is delivered and the others move up.                   *)
LEMMA FirstTaken ==
  ASSUME FileInv, 1 \in DOMAIN net, net' = RemoveAt(net, 1)
  PROVE  \A k \in DOMAIN net : k # 1 => k - 1 \in DOMAIN net' /\ net'[k - 1] = net[k]
<1>1. PICK N \in Nat : N = Len(net)
  BY NetIs
<1>2. net \in Seq(Packets) /\ DOMAIN net = 1..N /\ 1 \in 1..N
  BY <1>1, NetIs
<1>3. /\ net' \in Seq(Packets) /\ Len(net') = N - 1
      /\ \A i \in 1..(N - 1) : net'[i] = IF i < 1 THEN net[i] ELSE net[i + 1]
  BY <1>1, <1>2, RemoveAtProperties
<1>4. DOMAIN net' = 1..(N - 1)
  BY <1>3, LenProperties
<1>5. \A k \in 1..N : k # 1 => k - 1 \in 1..(N - 1) /\ ~(k - 1 < 1) /\ (k - 1) + 1 = k
  OBVIOUS
<1> QED BY <1>2, <1>3, <1>4, <1>5

LEMMA AheadWhenTaken ==
  ASSUME FileInv, 1 \in DOMAIN net, net' = RemoveAt(net, 1), NEW f \in Files, HeaderAhead(f),
         ~HeaderAt(1, Mid[f])
  PROVE  HeaderAhead(f)' /\ net[1].mid # Mid[f]
<1>1. PICK k \in DOMAIN net : HeaderAt(k, Mid[f]) /\ \A n \in 1..(k - 1) : net[n].mid # Mid[f]
  BY DEF HeaderAhead
<1>2. k # 1 /\ DOMAIN net = 1..Len(net) /\ Len(net) \in Nat
  BY <1>1, NetIs
<1>3. k \in Nat /\ 1 \in 1..(k - 1)
  BY <1>2
<1>4. k - 1 \in DOMAIN net' /\ net'[k - 1] = net[k]
  BY <1>2, FirstTaken
<1>5. HeaderAt(k - 1, Mid[f])'
  BY <1>1, <1>4 DEF HeaderAt
<1>6. ASSUME NEW n \in 1..(k - 1 - 1) PROVE net'[n].mid # Mid[f]
  <2>1. PICK l \in Nat : l = n + 1
    BY <1>3
  <2>2. l \in 1..(k - 1) /\ l \in 1..Len(net) /\ l # 1 /\ l - 1 = n
    BY <1>2, <1>3, <2>1
  <2>3. net'[n] = net[l]
    BY <1>2, <2>2, FirstTaken
  <2> QED BY <1>1, <2>2, <2>3
<1> QED BY <1>1, <1>3, <1>4, <1>5, <1>6 DEF HeaderAhead

LEMMA QuietUpload ==
  ASSUME QuietInv, ~Overlap, "reorder" \notin Faults, NEW g \in Files, Upload(g)
  PROVE  Travelling' /\ Unfinished'
<1>0. FileInv /\ [Next]_vars
  BY DEF QuietInv, FreshInv, Next
<1>1. /\ g \in todo /\ todo' = todo \ {g} /\ incoming' = incoming
      /\ wait = <<>> /\ ready = <<>> /\ wait' = <<<<g, 0>>>> /\ ready' = <<>>
      /\ net' = Append(net, Header(g))
  BY DEF Upload, Idle, Armed
<1>2. PICK N \in Nat : N = Len(net)
  BY <1>0, NetIs
<1>3. /\ DOMAIN net = 1..N /\ DOMAIN net' = 1..(N + 1)
      /\ \A i \in 1..N : net'[i] = net[i]
      /\ net'[N + 1] = Header(g) /\ UnderWay' = UnderWay \cup {Header(g)}
  BY <1>0, <1>1, <1>2, NetIs, SentPackets, NetAppended, AddedToNet
<1>4. Armeds = {} /\ <<g, 0>> \in Armeds'
  <2>1. DOMAIN wait = {} /\ DOMAIN ready = {}
    BY <1>1
  <2>2. DOMAIN wait' = {1} /\ wait'[1] = <<g, 0>>
    BY <1>1
  <2> QED BY <2>1, <2>2 DEF Armeds
<1>5. OnItsWay(g)'
  <2>1. \A n \in 1..N : net'[n].mid # Mid[g]
    BY <1>1, <1>3 DEF QuietInv, FreshInv, TurnsInv, NotYet
  <2>2. HeaderAt(N + 1, Mid[g])'
    BY <1>3 DEF HeaderAt, Header
  <2>3. HeaderAhead(g)'
    <3>1. N + 1 \in DOMAIN net' /\ (N + 1) - 1 = N
      BY <1>3
    <3> QED BY <2>1, <2>2, <3>1 DEF HeaderAhead
  <2>4. \A i \in 0..(Chunks[g] - 1) : Due(g, i)'
    <3>1. \A i \in 0..(Chunks[g] - 1) : 0 <= i
      OBVIOUS
    <3>2. <<g, 0>>[1] = g /\ <<g, 0>>[2] = 0
      OBVIOUS
    <3> QED BY <1>4, <3>1, <3>2 DEF Due
  <2> QED BY <2>3, <2>4 DEF OnItsWay
<1>6. ASSUME NEW f \in Files \ todo, Chunks[f] > 0 PROVE Landed(f)' \/ OnItsWay(f)'
  <2>1. Landed(f) \/ OnItsWay(f)
    BY <1>6 DEF QuietInv, Travelling
  <2>2. HeaderAhead(f) => HeaderAhead(f)'
    <3> SUFFICES ASSUME HeaderAhead(f) PROVE HeaderAhead(f)'
      OBVIOUS
    <3>1. PICK k \in 1..N : HeaderAt(k, Mid[f]) /\ \A n \in 1..(k - 1) : net[n].mid # Mid[f]
      BY <1>3 DEF HeaderAhead
    <3>2. k \in 1..(N + 1) /\ \A n \in 1..(k - 1) : n \in 1..N
      OBVIOUS
    <3>3. HeaderAt(k, Mid[f])' /\ \A n \in 1..(k - 1) : net'[n].mid # Mid[f]
      BY <1>3, <3>1, <3>2 DEF HeaderAt
    <3> QED BY <1>3, <3>2, <3>3 DEF HeaderAhead
  <2>3. OnItsWay(f) => Mid[f] \in DOMAIN incoming' \/ HeaderAhead(f)'
    BY <1>1, <2>2 DEF OnItsWay
  <2>4. /\ \A i \in 0..(Chunks[f] - 1) : InRecord(f, i) => InRecord(f, i)'
        /\ \A i \in 0..(Chunks[f] - 1) : InNet(f, i) => InNet(f, i)' \/ InRecord(f, i)'
        /\ \A i \in 0..(Chunks[f] - 1) : Due(f, i) => Due(f, i)' \/ InNet(f, i)'
    BY <1>1, <1>3, <1>4 DEF InRecord, InNet, Due
  <2> QED BY <1>0, <2>1, <2>3, <2>4, StillOnItsWay
<1>7. ASSUME NEW f \in Files \ todo' PROVE f = g \/ f \in Files \ todo
  BY <1>1
<1>8. Travelling'
  BY <1>5, <1>6, <1>7 DEF Travelling
<1> QED BY <1>1, <1>8 DEF QuietInv, Unfinished

LEMMA QuietTimer ==
  ASSUME QuietInv, "reorder" \notin Faults, TimerExpires \/ UNCHANGED vars
  PROVE  Travelling' /\ Unfinished'
<1>0. FileInv /\ [Next]_vars
  BY DEF QuietInv, FreshInv, Next
<1>1. UNCHANGED <<todo, net, incoming>>
  BY DEF TimerExpires, vars
<1>2. Armeds' = Armeds
  <2>1. CASE UNCHANGED vars
    BY <2>1 DEF vars, Armeds
  <2>2. CASE TimerExpires
    <3>1. wait # <<>> /\ ready = <<>> /\ wait' = <<>> /\ ready' = ready \o wait
      BY <2>2 DEF QuietInv, FreshInv, TurnsInv, OneTimer, TimerExpires
    <3>2. wait \in Seq(Files \X Nat)
      BY <1>0 DEF FileInv
    <3>3. ready' = wait /\ DOMAIN wait' = {} /\ DOMAIN ready = {}
      BY <3>1, <3>2
    <3> QED BY <3>3 DEF Armeds
  <2> QED BY <2>1, <2>2
<1>3. UnderWay' = UnderWay
  BY <1>1 DEF UnderWay
<1>4. ASSUME NEW f \in Files \ todo, Chunks[f] > 0 PROVE Landed(f)' \/ OnItsWay(f)'
  <2>1. Landed(f) \/ OnItsWay(f)
    BY <1>4 DEF QuietInv, Travelling
  <2>2. OnItsWay(f) => Mid[f] \in DOMAIN incoming' \/ HeaderAhead(f)'
    BY <1>1 DEF OnItsWay, HeaderAhead, HeaderAt
  <2>3. /\ \A i \in 0..(Chunks[f] - 1) : InRecord(f, i) => InRecord(f, i)'
        /\ \A i \in 0..(Chunks[f] - 1) : InNet(f, i) => InNet(f, i)' \/ InRecord(f, i)'
        /\ \A i \in 0..(Chunks[f] - 1) : Due(f, i) => Due(f, i)' \/ InNet(f, i)'
    BY <1>1, <1>2, <1>3 DEF InRecord, InNet, Due
  <2> QED BY <1>0, <2>1, <2>2, <2>3, StillOnItsWay
<1> QED BY <1>1, <1>4 DEF QuietInv, Travelling, Unfinished

(* The chunk that is sent was the next one due; the one after it is due    *)
(* now, if there is one.                                                   *)
LEMMA QuietSendChunk ==
  ASSUME QuietInv, "reorder" \notin Faults, "rekey" \notin Faults, SendChunk
  PROVE  Travelling' /\ Unfinished'
<1>0. FileInv /\ [Next]_vars
  BY DEF QuietInv, FreshInv, Next
<1>1. PICK q \in Files \X Nat : q = Head(ready) /\ ready = <<q>> /\ wait = <<>>
  <2>1. /\ ready # <<>> /\ wait = <<>> /\ Len(ready) <= 1 /\ ready \in Seq(Files \X Nat)
    BY <1>0 DEF SendChunk, QuietInv, FreshInv, TurnsInv, OneTimer, FileInv
  <2> QED BY <2>1
<1>2. q[1] \in Files /\ q[2] \in Nat /\ q = <<q[1], q[2]>>
  BY <1>1
<1> DEFINE g == q[1]
           j == q[2]
           p == Chunk(g, j)
<1>3. keys["sender"] # 0
  <2>1. keys["sender"] \in SealingKeys
    BY DEF QuietInv, SavedInv, Sides
  <2> QED BY <2>1 DEF SealingKeys
<1>4. /\ net' = Append(net, p) /\ wait' = IF More(g, j) THEN Armed(g, j + 1) ELSE wait
      /\ UNCHANGED <<todo, incoming>>
  BY <1>1, <1>3 DEF SendChunk
<1>5. p \in Packets /\ p.kind = "chunk" /\ p.mid = Mid[g] /\ p.pid = j
  BY <1>0, <1>2, SentPackets DEF Chunk
<1> HIDE DEF p
<1>6. PICK N \in Nat : N = Len(net)
  BY <1>0, NetIs
<1>7. /\ DOMAIN net = 1..N /\ DOMAIN net' = 1..(N + 1)
      /\ \A i \in 1..N : net'[i] = net[i]
      /\ UnderWay' = UnderWay \cup {p}
  BY <1>0, <1>4, <1>5, <1>6, NetIs, NetAppended, AddedToNet
<1>8. Armeds = {q} /\ (More(g, j) => <<g, j + 1>> \in Armeds')
  <2>1. DOMAIN wait = {} /\ DOMAIN ready = {1} /\ ready[1] = q
    BY <1>1
  <2>2. ASSUME More(g, j) PROVE <<g, j + 1>> \in Armeds'
    <3>1. DOMAIN wait' = {1} /\ wait'[1] = <<g, j + 1>>
      BY <1>4, <2>2 DEF Armed
    <3> QED BY <3>1 DEF Armeds
  <2> QED BY <2>1, <2>2 DEF Armeds
<1>9. ASSUME NEW f \in Files \ todo, Chunks[f] > 0 PROVE Landed(f)' \/ OnItsWay(f)'
  <2>1. Landed(f) \/ OnItsWay(f)
    BY <1>9 DEF QuietInv, Travelling
  <2>2. HeaderAhead(f) => HeaderAhead(f)'
    <3> SUFFICES ASSUME HeaderAhead(f) PROVE HeaderAhead(f)'
      OBVIOUS
    <3>1. PICK k \in 1..N : HeaderAt(k, Mid[f]) /\ \A n \in 1..(k - 1) : net[n].mid # Mid[f]
      BY <1>7 DEF HeaderAhead
    <3>2. k \in 1..(N + 1) /\ \A n \in 1..(k - 1) : n \in 1..N
      OBVIOUS
    <3>3. HeaderAt(k, Mid[f])' /\ \A n \in 1..(k - 1) : net'[n].mid # Mid[f]
      BY <1>7, <3>1, <3>2 DEF HeaderAt
    <3> QED BY <1>7, <3>2, <3>3 DEF HeaderAhead
  <2>3. OnItsWay(f) => Mid[f] \in DOMAIN incoming' \/ HeaderAhead(f)'
    BY <1>4, <2>2 DEF OnItsWay
  <2>4. /\ \A i \in 0..(Chunks[f] - 1) : InRecord(f, i) => InRecord(f, i)'
        /\ \A i \in 0..(Chunks[f] - 1) : InNet(f, i) => InNet(f, i)' \/ InRecord(f, i)'
    BY <1>4, <1>7 DEF InRecord, InNet
  <2>5. ASSUME NEW i \in 0..(Chunks[f] - 1), Due(f, i) PROVE Due(f, i)' \/ InNet(f, i)'
    <3>1. f = g /\ j <= i
      BY <1>8, <2>5 DEF Due
    <3>2. CASE i = j
      BY <1>5, <1>7, <3>1, <3>2 DEF InNet
    <3>3. CASE i # j
      <4>1. j + 1 <= i /\ j + 1 < Chunks[g]
        BY <1>2, <3>1, <3>3, FilesAssumption
      <4>2. <<g, j + 1>> \in Armeds'
        BY <1>8, <4>1 DEF More
      <4>3. <<g, j + 1>>[1] = g /\ <<g, j + 1>>[2] = j + 1
        OBVIOUS
      <4> QED BY <3>1, <4>1, <4>2, <4>3 DEF Due
    <3> QED BY <3>2, <3>3
  <2> QED BY <1>0, <2>1, <2>3, <2>4, <2>5, StillOnItsWay
<1> QED BY <1>4, <1>9 DEF QuietInv, Travelling, Unfinished

LEMMA QuietRecvHeader ==
  ASSUME QuietInv, "reorder" \notin Faults, 1 \in DOMAIN net, RecvHeader(1)
  PROVE  Travelling' /\ Unfinished'
<1> DEFINE h == net[1].mid
           r == [total |-> net[1].total, path |-> FreePath(net[1].name), chunks |-> <<>>]
<1>0. FileInv /\ [Next]_vars
  BY DEF QuietInv, FreshInv, Next, Receive, Deliverable
<1>1. /\ net' = RemoveAt(net, 1) /\ net[1].kind = "header" /\ HeaderAt(1, h)
      /\ incoming' = Put(incoming, h, r) /\ UNCHANGED <<todo, wait, ready>>
  BY DEF RecvHeader, HeaderAt
<1>2. r.chunks = <<>> /\ r.total \in Nat
  <2>1. PICK f \in Files : net[1] = Header(f)
    BY <1>0, <1>1, NetIs DEF Packets, SealedChunk
  <2>2. net[1].total = Chunks[f]
    BY <2>1 DEF Header
  <2> QED BY <2>2, FilesAssumption
<1>3. h \notin DOMAIN incoming
  <2>1. net[1] \in UnderWay
    BY DEF UnderWay
  <2> QED BY <1>1, <2>1, HeaderIsFirst DEF QuietInv
<1> HIDE DEF h, r
<1>4. /\ DOMAIN incoming' = DOMAIN incoming \cup {h} /\ incoming'[h] = r
      /\ \A m \in DOMAIN incoming : incoming'[m] = incoming[m]
  BY <1>1, <1>3 DEF Put
<1>5. \A p \in UnderWay : p.kind = "chunk" => p \in UnderWay'
  BY <1>0, <1>1, TakenFromNet
<1>6. ASSUME NEW f \in Files \ todo, Chunks[f] > 0 PROVE Landed(f)' \/ OnItsWay(f)'
  <2>1. Landed(f) \/ OnItsWay(f)
    BY <1>6 DEF QuietInv, Travelling
  <2>2. ASSUME OnItsWay(f) PROVE Mid[f] \in DOMAIN incoming' \/ HeaderAhead(f)'
    <3>1. CASE Mid[f] \in DOMAIN incoming
      BY <1>4, <3>1
    <3>2. CASE HeaderAt(1, Mid[f])
      BY <1>4, <3>2 DEF HeaderAt, h
    <3>3. CASE HeaderAhead(f) /\ ~HeaderAt(1, Mid[f])
      BY <1>0, <1>1, <3>3, AheadWhenTaken
    <3> QED BY <2>2, <3>1, <3>2, <3>3 DEF OnItsWay
  <2>3. /\ \A i \in 0..(Chunks[f] - 1) : InRecord(f, i) => InRecord(f, i)'
        /\ \A i \in 0..(Chunks[f] - 1) : InNet(f, i) => InNet(f, i)' \/ InRecord(f, i)'
        /\ \A i \in 0..(Chunks[f] - 1) : Due(f, i) => Due(f, i)' \/ InNet(f, i)'
    BY <1>1, <1>4, <1>5 DEF InRecord, InNet, Due, Armeds
  <2> QED BY <1>0, <2>1, <2>2, <2>3, StillOnItsWay
<1>7. Unfinished'
  <2>1. r.total = 0 \/ Cardinality(DOMAIN r.chunks) # r.total
    <3>1. DOMAIN r.chunks = {} /\ Cardinality({}) = 0
      BY <1>2, FS_EmptySet
    <3> QED BY <3>1
  <2>2. ASSUME NEW m \in DOMAIN incoming'
        PROVE  incoming'[m].total = 0 \/ Cardinality(DOMAIN incoming'[m].chunks) # incoming'[m].total
    <3>1. CASE m = h
      BY <1>4, <2>1, <3>1
    <3>2. CASE m # h
      BY <1>4, <3>2 DEF QuietInv, Unfinished
    <3> QED BY <3>1, <3>2
  <2> QED BY <2>2 DEF Unfinished
<1>8. Travelling'
  BY <1>1, <1>6 DEF Travelling
<1> QED BY <1>7, <1>8

(* A chunk finds the record of its upload: its header would still be ahead *)
(* of it, but it is the first packet.                                      *)
LEMMA QuietRecvChunk ==
  ASSUME QuietInv, "reorder" \notin Faults, "rekey" \notin Faults,
         \A f, g \in Files : Mid[f] = Mid[g] => f = g, 1 \in DOMAIN net, RecvChunk(1)
  PROVE  Travelling' /\ Unfinished'
<1>0. FileInv /\ [Next]_vars
  BY DEF QuietInv, FreshInv, Next, Receive, Deliverable
<1>1. /\ net' = RemoveAt(net, 1) /\ net[1].kind = "chunk" /\ UNCHANGED <<todo, wait, ready>>
  BY DEF RecvChunk
<1>2. PICK q \in Parts : /\ net[1].mid = Mid[q[1]] /\ net[1].pid = q[2]
                         /\ Dropped(q) \/ \E r : Stored(q, r) /\ (Kept(q, r) \/ Written(q, r))
  BY ChunkOutcome DEF QuietInv
<1>3. PICK g \in Files, j \in Nat : g = q[1] /\ j = q[2]
  BY DEF Parts
<1>4. \A p \in UnderWay : p # net[1] => p \in UnderWay'
  BY <1>0, <1>1, TakenFromNet
<1>5. \A m : m # Mid[g] => /\ m \in DOMAIN incoming <=> m \in DOMAIN incoming'
                           /\ m \in DOMAIN incoming => incoming'[m] = incoming[m]
  <2>1. CASE Dropped(q)
    BY <2>1 DEF Dropped
  <2>2. ASSUME NEW r, Kept(q, r)
        PROVE  /\ DOMAIN incoming' = DOMAIN incoming \cup {Mid[g]}
               /\ \A m \in DOMAIN incoming : m # Mid[g] => incoming'[m] = incoming[m]
    BY <1>3, <2>2 DEF Kept, Put
  <2>3. ASSUME NEW r, Written(q, r)
        PROVE  /\ DOMAIN incoming' = DOMAIN incoming \ {Mid[g]}
               /\ \A m \in DOMAIN incoming : m # Mid[g] => incoming'[m] = incoming[m]
    BY <1>3, <2>3 DEF Written
  <2> QED BY <1>2, <2>1, <2>2, <2>3
<1>6. ASSUME NEW f \in Files, f # g, Landed(f) \/ OnItsWay(f) PROVE Landed(f)' \/ OnItsWay(f)'
  <2>1. Mid[f] # Mid[g]
    BY <1>6
  <2>2. ~HeaderAt(1, Mid[f])
    BY <1>1 DEF HeaderAt
  <2>3. OnItsWay(f) => Mid[f] \in DOMAIN incoming' \/ HeaderAhead(f)'
    BY <1>0, <1>1, <1>5, <2>1, <2>2, AheadWhenTaken DEF OnItsWay
  <2>4. \A i \in 0..(Chunks[f] - 1) : InRecord(f, i) => InRecord(f, i)'
    BY <1>5, <2>1 DEF InRecord
  <2>5. \A i \in 0..(Chunks[f] - 1) : InNet(f, i) => InNet(f, i)' \/ InRecord(f, i)'
    BY <1>2, <1>3, <1>4, <2>1 DEF InNet
  <2>6. \A i \in 0..(Chunks[f] - 1) : Due(f, i) => Due(f, i)' \/ InNet(f, i)'
    BY <1>1 DEF Due, Armeds
  <2> QED BY <1>0, <1>6, <2>3, <2>4, <2>5, <2>6, StillOnItsWay
<1>7. ASSUME OnItsWay(g) PROVE Mid[g] \in DOMAIN incoming
  <2>1. ~HeaderAhead(g)
    <3> SUFFICES ASSUME HeaderAhead(g) PROVE FALSE
      OBVIOUS
    <3>1. ~HeaderAt(1, Mid[g])
      BY <1>1 DEF HeaderAt
    <3> QED BY <1>0, <1>1, <1>2, <1>3, <3>1, AheadWhenTaken
  <2> QED BY <1>7, <2>1 DEF OnItsWay
<1>8. ASSUME NEW r, Stored(q, r), Written(q, r) PROVE Landed(g)'
  <2>1. r.path[1] = Name[g] /\ disk' = Put(disk, r.path, Whole(g))
    BY <1>3, <1>8 DEF Stored, Collecting, Written
  <2>2. r.path \in DOMAIN disk' /\ disk'[r.path] = Whole(g)
    BY <2>1 DEF Put
  <2> QED BY <2>1, <2>2 DEF Landed, Whole
<1>9. ASSUME NEW r, Stored(q, r), Kept(q, r), Landed(g) \/ OnItsWay(g)
      PROVE  Landed(g)' \/ OnItsWay(g)'
  <2>1. /\ Mid[g] \in DOMAIN incoming' /\ incoming'[Mid[g]] = r
        /\ DOMAIN r.chunks = DOMAIN incoming[Mid[g]].chunks \cup {j}
    BY <1>3, <1>9 DEF Stored, Kept, Put
  <2>2. \A i \in 0..(Chunks[g] - 1) : InRecord(g, i) => InRecord(g, i)'
    BY <2>1 DEF InRecord
  <2>3. ASSUME NEW i \in 0..(Chunks[g] - 1), InNet(g, i) PROVE InNet(g, i)' \/ InRecord(g, i)'
    <3>1. PICK p \in UnderWay : p.kind = "chunk" /\ p.mid = Mid[g] /\ p.pid = i
      BY <2>3 DEF InNet
    <3>2. CASE p = net[1]
      BY <1>2, <1>3, <2>1, <3>1, <3>2 DEF InRecord
    <3>3. CASE p # net[1]
      BY <1>4, <3>1, <3>3 DEF InNet
    <3> QED BY <3>2, <3>3
  <2>4. \A i \in 0..(Chunks[g] - 1) : Due(g, i) => Due(g, i)' \/ InNet(g, i)'
    BY <1>1 DEF Due, Armeds
  <2> QED BY <1>0, <1>9, <2>1, <2>2, <2>3, <2>4, StillOnItsWay
<1>10. ASSUME Dropped(q), Landed(g) \/ OnItsWay(g) PROVE Landed(g)'
  <2>1. Landed(g) /\ disk' = disk
    BY <1>3, <1>7, <1>10 DEF Dropped
  <2> QED BY <2>1 DEF Landed, Whole
<1>11. Travelling'
  <2> SUFFICES ASSUME NEW f \in Files \ todo, Chunks[f] > 0 PROVE Landed(f)' \/ OnItsWay(f)'
    BY <1>1 DEF Travelling
  <2>1. Landed(f) \/ OnItsWay(f)
    BY DEF QuietInv, Travelling
  <2> QED BY <1>2, <1>6, <1>8, <1>9, <1>10, <2>1
<1>12. Unfinished'
  <2> SUFFICES ASSUME NEW m \in DOMAIN incoming'
               PROVE  \/ incoming'[m].total = 0
                      \/ Cardinality(DOMAIN incoming'[m].chunks) # incoming'[m].total
    BY DEF Unfinished
  <2>1. CASE m # Mid[g]
    BY <1>5, <2>1 DEF QuietInv, Unfinished
  <2>2. CASE m = Mid[g]
    <3>1. CASE Dropped(q)
      BY <1>3, <2>2, <3>1 DEF Dropped
    <3>2. ASSUME NEW r, Kept(q, r)
          PROVE  Cardinality(DOMAIN incoming'[m].chunks) # incoming'[m].total
      <4>1. incoming'[m] = r
        BY <1>3, <2>2, <3>2 DEF Kept, Put
      <4> QED BY <3>2, <4>1 DEF Kept
    <3>3. ASSUME NEW r, Written(q, r) PROVE FALSE
      BY <1>3, <2>2, <3>3 DEF Written
    <3> QED BY <1>2, <3>1, <3>2, <3>3
  <2> QED BY <2>1, <2>2
<1> QED BY <1>11, <1>12

(* On a faultless network, with uploads made in turn and no key exchanged, *)
(* every file uploaded is on the friend's disk when nothing is under way   *)
(* any more, for any files but empty ones.                                 *)
THEOREM QuietIsSaved ==
  ASSUME ~Overlap, Faults = {}, \A f, g \in Files : Mid[f] = Mid[g] => f = g
  PROVE  Spec => []SavedWhenQuiet
<1>0. "dup" \notin Faults /\ "reorder" \notin Faults /\ "rekey" \notin Faults
  OBVIOUS
<1>1. Init => QuietInv
  <2> SUFFICES ASSUME Init PROVE QuietInv
    OBVIOUS
  <2>1. todo = Files /\ DOMAIN incoming = {}
    BY DEF Init
  <2>2. Unfinished /\ Travelling
    BY <2>1 DEF Unfinished, Travelling
  <2> QED BY <2>2, FreshInit, SavedInit DEF QuietInv
<1>2. QuietInv /\ [Next]_vars => QuietInv'
  <2> SUFFICES ASSUME QuietInv, [Next]_vars PROVE QuietInv'
    OBVIOUS
  <2>1. FreshInv'
    BY <1>0, FreshStep DEF QuietInv
  <2>2. SavedInv'
    BY SavedStep DEF QuietInv
  <2>3. Travelling' /\ Unfinished'
    <3>1. ASSUME NEW f \in Files, Upload(f) PROVE Travelling' /\ Unfinished'
      BY <1>0, <3>1, QuietUpload
    <3>2. CASE TimerExpires \/ UNCHANGED vars
      BY <1>0, <3>2, QuietTimer
    <3>3. CASE SendChunk
      BY <1>0, <3>3, QuietSendChunk
    <3>4. CASE Receive
      <4>1. 1 \in DOMAIN net /\ (RecvHeader(1) \/ RecvChunk(1))
        BY <1>0, <3>4 DEF Receive, Deliverable
      <4> QED BY <1>0, <4>1, QuietRecvHeader, QuietRecvChunk
    <3> QED BY <3>1, <3>2, <3>3, <3>4
            DEF Next, Lose, Duplicate, Rekey, RestartSender, RestartReceiver
  <2> QED BY <2>1, <2>2, <2>3 DEF QuietInv
<1>3. QuietInv => SavedWhenQuiet
  BY QuietMeansSaved
<1> QED BY <1>1, <1>2, <1>3, PTL DEF Spec
=============================================================================

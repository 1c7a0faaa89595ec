---------------------------- MODULE FileTransfer ----------------------------
(***************************************************************************)
(* Files sent from one client to a friend over one udp_server connection   *)
(* (client/main.cpp): send_file sends a header and arms the connection's   *)
(* only file timer, every expiry sends one encrypted chunk and arms it     *)
(* again, and the receiver collects the chunks by message identifier until *)
(* it has as many as the header announced.                                 *)
(*                                                                         *)
(* The timer is asio's: to set a new expiry cancels the wait in progress,  *)
(* but not a handler that has already been queued.  A file is a model      *)
(* value with a name, a number of chunks and a message identifier; a name  *)
(* is the one the receiver's validation leaves.                            *)
(***************************************************************************)
EXTENDS Naturals, Sequences, FiniteSets, SequencesExt

CONSTANTS
  Files,      \* the uploads the user makes, each once
  Name,       \* Name[f]: the file name in the header
  Chunks,     \* Chunks[f]: its size in 461-byte chunks
  Mid,        \* Mid[f]: the message identifier get_messageID drew for it
  Overlap,    \* whether the user uploads while an upload is under way
  Faults,     \* what the network, the processes and key exchanges may do
  Garbage,    \* what a decryption with the wrong key may return
  MaxDups     \* bound: packets the network duplicates

ASSUME FilesAssumption ==
  /\ IsFiniteSet(Files)
  /\ Chunks \in [Files -> Nat]
ASSUME FaultsAssumption ==
  Faults \subseteq {"loss", "dup", "reorder", "restart", "rekey"}
ASSUME OverlapAssumption == Overlap \in BOOLEAN
ASSUME DupsAssumption == MaxDups \in Nat
ASSUME GarbageAssumption == Garbage \notin Files \X Nat

VARIABLES
  todo,      \* the uploads not yet made
  wait,      \* the wait on t_file_transmit: <<>> or <<next chunk to send>>
  ready,     \* the expired waits whose handlers are queued, oldest first
  net,       \* the packets on their way to the receiver, the oldest first
  incoming,  \* the receiver's incoming_files: message identifier -> record
  disk,      \* the receiver's files: path -> contents
  own,       \* the sender's copies: name -> file
  keys,      \* the AES keys in the two key files
  dups       \* the packets duplicated so far

vars == <<todo, wait, ready, net, incoming, disk, own, keys, dups>>

(* 0 is the key file without a usable key.                                 *)
Keys == 0..2
Sides == {"sender", "receiver"}
Names == {Name[f] : f \in Files}
Mids == {Mid[f] : f \in Files}

Header(f) == [kind |-> "header", mid |-> Mid[f], name |-> Name[f], total |-> Chunks[f]]
Chunk(f, i) == [kind |-> "chunk", mid |-> Mid[f], pid |-> i,
                key |-> keys["sender"], data |-> <<f, i>>]

Init ==
  /\ todo = Files
  /\ wait = <<>>
  /\ ready = <<>>
  /\ net = <<>>
  /\ incoming = <<>>
  /\ disk = <<>>
  /\ own = <<>>
  /\ keys = [s \in Sides |-> 1]
  /\ dups = 0

(* Function fn with x mapped to v.                                         *)
Put(fn, x, v) == [y \in DOMAIN fn \cup {x} |-> IF y = x THEN v ELSE fn[y]]

----------------------------------------------------------------------------
(* The sender.                                                             *)

Idle == wait = <<>> /\ ready = <<>>

(* A bug to compare with: the wait in progress goes on.                    *)
ArmedAlso(f, i) == wait \o <<<<f, i>>>>
(* expires_after and async_wait: the wait in progress ends as aborted, and *)
(* its handler then returns at once.                                       *)
Armed(f, i) == <<<<f, i>>>>

(* POST /upload: send_file, then a copy of the file is kept.               *)
Upload(f) ==
  /\ f \in todo
  /\ Overlap \/ Idle
  /\ todo' = todo \ {f}
  /\ net' = Append(net, Header(f))
  /\ wait' = Armed(f, 0)
  /\ own' = Put(own, Name[f], f)
  /\ UNCHANGED <<ready, incoming, disk, keys, dups>>

TimerExpires ==
  /\ wait # <<>>
  /\ ready' = ready \o wait
  /\ wait' = <<>>
  /\ UNCHANGED <<todo, net, incoming, disk, own, keys, dups>>

(* A bug to compare with: the chain stops one chunk early.                 *)
MoreShort(f, i) == i + 2 < Chunks[f]
(* send_file_packet goes on while chunks remain; an empty file has sent    *)
(* one chunk all the same.                                                 *)
More(f, i) == i + 1 < Chunks[f]

(* A queued handler: send_file_packet, which gives up without a key.       *)
SendChunk ==
  /\ ready # <<>>
  /\ ready' = Tail(ready)
  /\ LET f == Head(ready)[1]
         i == Head(ready)[2]
     IN  IF keys["sender"] = 0
           THEN UNCHANGED <<net, wait>>
           ELSE /\ net' = Append(net, Chunk(f, i))
                /\ wait' = IF More(f, i) THEN Armed(f, i + 1) ELSE wait
  /\ UNCHANGED <<todo, incoming, disk, own, keys, dups>>

----------------------------------------------------------------------------
(* The receiver.                                                           *)

Deliverable == {n \in DOMAIN net : n = 1 \/ "reorder" \in Faults}

(* The path a header reserves nothing on: the name, or the name with the   *)
(* smallest suffix (k) that no file has yet.                               *)
FreePath(name) ==
  IF <<name, 0>> \notin DOMAIN disk THEN <<name, 0>>
  ELSE <<name, CHOOSE k \in 1..(Cardinality(DOMAIN disk) + 1) :
                 /\ <<name, k>> \notin DOMAIN disk
                 /\ \A j \in 1..(k - 1) : <<name, j>> \in DOMAIN disk>>

(* Quantity 1: a fresh record replaces whatever the identifier had.        *)
RecvHeader(n) ==
  /\ net[n].kind = "header"
  /\ incoming' = Put(incoming, net[n].mid,
                     [total |-> net[n].total, path |-> FreePath(net[n].name), chunks |-> <<>>])
  /\ net' = RemoveAt(net, n)
  /\ UNCHANGED <<todo, wait, ready, disk, own, keys, dups>>

(* What decrypting chunk packet m may give: nothing at all, or one chunk.  *)
Decrypted(m) ==
  IF keys["receiver"] = 0 THEN {<<>>}
  ELSE IF m.key = keys["receiver"] THEN {<<m.data>>}
  ELSE {<<>>, <<Garbage>>}

(* The chunks up to the first one missing.                                 *)
Assembled(r) ==
  LET length == CHOOSE k \in 0..r.total :
                  /\ \A i \in 0..(k - 1) : i \in DOMAIN r.chunks
                  /\ k = r.total \/ k \notin DOMAIN r.chunks
  IN  [i \in 1..length |-> r.chunks[i - 1]]

(* A bug to compare with: the last chunk ends the transfer.                *)
CompleteAtLast(r, pid) == pid + 1 = r.total
(* A bug to compare with: an empty file ends with its chunk.               *)
CompleteAtLeast(r, pid) == Cardinality(DOMAIN r.chunks) >= r.total
(* chunks.size() == total_packets.                                         *)
Complete(r, pid) == Cardinality(DOMAIN r.chunks) = r.total

(* Quantity 2 or 0: a chunk of an announced file is stored, and the file   *)
(* is written once there are as many as announced.                         *)
RecvChunk(n) ==
  /\ net[n].kind = "chunk"
  /\ net' = RemoveAt(net, n)
  /\ LET m == net[n]
     IN  IF m.mid \notin DOMAIN incoming
           THEN UNCHANGED <<incoming, disk>>
           ELSE \E data \in Decrypted(m) :
                  IF data = <<>>
                    THEN UNCHANGED <<incoming, disk>>
                    ELSE LET r == [incoming[m.mid] EXCEPT !.chunks = Put(@, m.pid, data[1])]
                         IN  IF Complete(r, m.pid)
                               THEN /\ disk' = Put(disk, r.path, Assembled(r))
                                    /\ incoming' = [x \in DOMAIN incoming \ {m.mid} |-> incoming[x]]
                               ELSE /\ incoming' = Put(incoming, m.mid, r)
                                    /\ UNCHANGED disk
  /\ UNCHANGED <<todo, wait, ready, own, keys, dups>>

Receive == \E n \in Deliverable : RecvHeader(n) \/ RecvChunk(n)

----------------------------------------------------------------------------
(* The environment.                                                        *)

Lose ==
  /\ "loss" \in Faults
  /\ \E n \in DOMAIN net : net' = RemoveAt(net, n)
  /\ UNCHANGED <<todo, wait, ready, incoming, disk, own, keys, dups>>

Duplicate ==
  /\ "dup" \in Faults
  /\ dups < MaxDups
  /\ \E n \in DOMAIN net : net' = Append(net, net[n])
  /\ dups' = dups + 1
  /\ UNCHANGED <<todo, wait, ready, incoming, disk, own, keys>>

(* A key exchange on the same connection changes one of the two files.     *)
Rekey ==
  /\ "rekey" \in Faults
  /\ \E s \in Sides, k \in Keys : keys' = [keys EXCEPT ![s] = k]
  /\ UNCHANGED <<todo, wait, ready, net, incoming, disk, own, dups>>

(* The sender or the receiver starts again; the files stay.                *)
RestartSender ==
  /\ "restart" \in Faults
  /\ wait' = <<>>
  /\ ready' = <<>>
  /\ UNCHANGED <<todo, net, incoming, disk, own, keys, dups>>

(* Between two handlers: an end within the write of a finished file, which *)
(* would leave it cut short under its name, is left out.                   *)
RestartReceiver ==
  /\ "restart" \in Faults
  /\ incoming' = <<>>
  /\ UNCHANGED <<todo, wait, ready, net, disk, own, keys, dups>>

Next ==
  \/ \E f \in Files : Upload(f)
  \/ TimerExpires \/ SendChunk \/ Receive
  \/ Lose \/ Duplicate \/ Rekey \/ RestartSender \/ RestartReceiver

Spec == Init /\ [][Next]_vars

(* The io_context runs expired timers, queued handlers and receives.       *)
FairSpec ==
  Spec /\ WF_vars(TimerExpires) /\ WF_vars(SendChunk) /\ WF_vars(Receive)

----------------------------------------------------------------------------
(* Properties.                                                             *)

Datum == (Files \X Nat) \cup {Garbage}

TypeOK ==
  /\ todo \subseteq Files
  /\ wait \in Seq(Files \X Nat) /\ Len(wait) <= 1
  /\ ready \in Seq(Files \X Nat)
  /\ DOMAIN incoming \subseteq Mids
  /\ \A m \in DOMAIN incoming :
       /\ incoming[m].total \in Nat
       /\ incoming[m].path \in Names \X Nat
       /\ \A i \in DOMAIN incoming[m].chunks : incoming[m].chunks[i] \in Datum
  /\ \A path \in DOMAIN disk : path \in Names \X Nat /\ disk[path] \in Seq(Datum)
  /\ \A x \in DOMAIN own : x \in Names /\ own[x] \in Files
  /\ keys \in [Sides -> Keys]
  /\ dups \in 0..MaxDups

(* The contents of file f.                                                 *)
Whole(f) == [i \in 1..Chunks[f] |-> <<f, i - 1>>]

(* Every file the receiver has written is the whole of one upload, in      *)
(* order and under its name, whatever packets were lost, repeated or       *)
(* overtaken, provided no identifier was drawn twice and no keys were      *)
(* exchanged meanwhile.  PiecesInPlace is what is left of it otherwise.    *)
SavedWhole ==
  \A path \in DOMAIN disk : \E f \in Files :
    disk[path] = Whole(f) /\ path[1] = Name[f]

(* Whatever happens to the keys as well, a file is written with as many    *)
(* chunks as one upload has, each in its own place or garbled: a chunk     *)
(* that could not be decrypted leaves no hole and moves no other chunk.    *)
PiecesInPlace ==
  \A path \in DOMAIN disk : \E f \in Files :
    /\ path[1] = Name[f]
    /\ Len(disk[path]) = Chunks[f]
    /\ \A i \in 1..Chunks[f] : disk[path][i] \in {<<f, i - 1>>, Garbage}

(* What the comment before the suffix loop asks for: a received file takes *)
(* a free name, so it never replaces an earlier one.                       *)
NothingOverwritten ==
  [][\A path \in DOMAIN disk : path \in DOMAIN disk' /\ disk'[path] = disk[path]]_vars

(* A faultless transfer never stops half way: when no wait of the sender's *)
(* timer is left and no packet is under way, every file uploaded so far is *)
(* on the receiver's disk, but for an empty one, which is never written.   *)
SavedWhenQuiet ==
  Idle /\ net = <<>> =>
    \A f \in Files \ todo : Chunks[f] > 0 =>
      \E path \in DOMAIN disk : disk[path] = Whole(f) /\ path[1] = Name[f]

(* An upload ends with the whole file on the receiver's disk, but for an   *)
(* empty one.                                                              *)
UploadsArrive ==
  \A f \in {g \in Files : Chunks[g] > 0} :
    f \notin todo ~> \E path \in DOMAIN disk : disk[path] = Whole(f)
=============================================================================

------------------------- MODULE PeerSessionProofs -------------------------
(***************************************************************************)
(* Theorems of PeerSession, for any sizes, bounds and prior keys.          *)
(***************************************************************************)
EXTENDS MCPeerSession, QueueLemmas, TLAPS

LEMMA OtherPeer ==
  ASSUME NEW p \in Peers
  PROVE  Other(p) \in Peers /\ Other(p) # p /\ Other(Other(p)) = p
BY PeersAssumption DEF Other, Peers

LEMMA PacketTypes ==
  /\ PublicKey \in Packet
  /\ \A k \in Nat : WrappedKey(k) \in Packet
  /\ \A k \in Nat, t \in Text : TextPacket(k, t) \in Packet
<1>1. PublicKey \in Packet
  BY DEF PublicKey, Packet
<1>2. \A k \in Nat : WrappedKey(k) \in Packet
  BY DEF WrappedKey, Packet
<1>3. ASSUME NEW k \in Nat, NEW t \in Text
      PROVE  TextPacket(k, t) \in Packet
  <2>1. t.size \in Nat
    BY <1>3 DEF Text
  <2>2. BareLen(t.size) \in Nat
    BY <2>1 DEF BareLen
  <2>3. Cut(t.size) \in Nat
    BY <2>1 DEF Cut, MaxTextSize
  <2>4. EncLen(Cut(t.size)) \in Nat
    BY <2>3 DEF EncLen
  <2> QED BY <2>2, <2>4 DEF TextPacket, Packet
<1> QED BY <1>1, <1>2, <1>3

(* What a text packet is read as: nothing, or one entry, garbled or the    *)
(* text the packet carries.                                                *)
LEMMA ReadingsAre ==
  ASSUME NEW m \in Packet, m.kind = "T", NEW k \in Nat, NEW texts \in Readings(m, k)
  PROVE  \/ texts = <<>>
         \/ texts = <<Garbage>>
         \/ texts = <<m.text>> /\ m.text \in Text /\ m.key = k
BY DEF Readings, Packet

LEMMA ReceivedEntries ==
  ASSUME NEW m \in Packet, m.kind = "T", NEW k \in Nat, NEW texts \in Readings(m, k)
  PROVE  LET added == [i \in 1..Len(texts) |-> Entry("friend", texts[i])]
         IN  \/ added = <<>> /\ Len(texts) = 0
             \/ \E t \in {Garbage, m.text} \cap (Text \cup {Garbage}) :
                  added = <<Entry("friend", t)>> /\ Len(texts) = 1
<1>1. CASE texts = <<>>
  BY <1>1
<1>2. CASE texts = <<Garbage>>
  BY <1>2
<1>3. CASE texts = <<m.text>> /\ m.text \in Text
  BY <1>3
<1> QED BY <1>1, <1>2, <1>3, ReadingsAre

(* A handler finds its packet in the queue.                                *)
LEMMA DeliverableIsQueued ==
  ASSUME TypeOK, NEW p \in Peers, NEW n \in Deliverable(p)
  PROVE  n \in 1..Len(net[p]) /\ net[p][n] \in Packet /\ net[p] \in Seq(Packet)
<1>1. net[p] \in Seq(Packet)
  BY DEF TypeOK
<1>2. n \in DOMAIN net[p]
  BY DEF Deliverable
<1> QED BY <1>1, <1>2, ElementOfSeq, LenProperties

LEMMA TakenType ==
  ASSUME TypeOK, NEW p \in Peers, NEW n \in 1..Len(net[p])
  PROVE  Taken(p, n) \in [Peers -> Seq(Packet)]
<1>1. net[p] \in Seq(Packet)
  BY DEF TypeOK
<1>2. RemoveAt(net[p], n) \in Seq(Packet)
  BY <1>1, RemoveAtProperties
<1> QED BY <1>2 DEF TypeOK, Taken

(* A text packet that is handled adds to the history nothing, a garbled    *)
(* entry or the text it carries.                                           *)
LEMMA ReceivedLog ==
  ASSUME TypeOK, NEW p \in Peers, NEW n \in Deliverable(p), RecvText(p, n)
  PROVE  \E added \in Seq(LogEntry) :
           /\ log' = [log EXCEPT ![p] = log[p] \o added]
           /\ unread' = [unread EXCEPT ![p] = @ + (IF selected[p] THEN 0 ELSE Len(added))]
           /\ \/ added = <<>>
              \/ \E t \in {Garbage, net[p][n].text} : added = <<Entry("friend", t)>>
<1>1. PICK texts \in Readings(net[p][n], key[p]) :
        /\ log' = [log EXCEPT ![p] = @ \o [i \in 1..Len(texts) |-> Entry("friend", texts[i])]]
        /\ unread' = [unread EXCEPT ![p] = @ + Counted(p, texts)]
  BY DEF RecvText
<1>2. net[p][n] \in Packet /\ net[p][n].kind = "T" /\ key[p] \in Nat
  BY DeliverableIsQueued DEF RecvText, TypeOK
<1> DEFINE added == [i \in 1..Len(texts) |-> Entry("friend", texts[i])]
<1>3. \/ added = <<>> /\ Len(texts) = 0
      \/ \E t \in {Garbage, net[p][n].text} \cap (Text \cup {Garbage}) :
           added = <<Entry("friend", t)>> /\ Len(texts) = 1
  BY <1>1, <1>2, ReceivedEntries
<1>4. \A t \in Text \cup {Garbage} : Entry("friend", t) \in LogEntry
  BY DEF Entry, LogEntry
<1>5. /\ log' = [log EXCEPT ![p] = log[p] \o added]
      /\ unread' = [unread EXCEPT ![p] = @ + (IF selected[p] THEN 0 ELSE Len(texts))]
  BY <1>1 DEF Counted
<1> HIDE DEF added
<1>6. CASE added = <<>> /\ Len(texts) = 0
  <2>1. added \in Seq(LogEntry) /\ Len(added) = Len(texts)
    BY <1>6
  <2> QED BY <1>5, <1>6, <2>1
<1>7. CASE \E t \in {Garbage, net[p][n].text} \cap (Text \cup {Garbage}) :
             added = <<Entry("friend", t)>> /\ Len(texts) = 1
  <2>1. added \in Seq(LogEntry) /\ Len(added) = Len(texts)
    BY <1>4, <1>7
  <2> QED BY <1>5, <1>7, <2>1
<1> QED BY <1>3, <1>6, <1>7

THEOREM TypeInductive ==
  TypeOK /\ [Next]_vars => TypeOK'
<1> SUFFICES ASSUME TypeOK, [Next]_vars
             PROVE  TypeOK'
  OBVIOUS
<1>1. CASE UNCHANGED vars
  BY <1>1 DEF TypeOK, vars
<1>2. ASSUME NEW p \in Peers, ExchangeKeys(p)
      PROVE  TypeOK'
  <2>1. net' \in [Peers -> Seq(Packet)]
    BY <1>2, OtherPeer, PacketTypes DEF TypeOK, ExchangeKeys
  <2>2. exchanges' \in [Peers -> Nat]
    BY <1>2 DEF TypeOK, ExchangeKeys
  <2>3. UNCHANGED <<up, key, log, unread, selected, made, sent, dups>>
    BY <1>2 DEF ExchangeKeys
  <2> QED BY <2>1, <2>2, <2>3 DEF TypeOK
<1>3. ASSUME NEW p \in Peers, SendText(p)
      PROVE  TypeOK'
  <2>1. PICK s \in Sizes :
          LET t == [by |-> p, n |-> sent[p] + 1, size |-> s]
          IN  /\ log' = [log EXCEPT ![p] = Kept(p, t)]
              /\ net' = IF p \in up
                          THEN [net EXCEPT ![Other(p)] = Append(@, TextPacket(key[p], t))]
                          ELSE net
    BY <1>3 DEF SendText
  <2> DEFINE t == [by |-> p, n |-> sent[p] + 1, size |-> s]
  <2>2. t \in Text
    BY SizesAssumption DEF TypeOK, Text
  <2>3. log' \in [Peers -> Seq(LogEntry)]
    <3>1. Entry("you", t) \in LogEntry
      BY <2>2 DEF Entry, LogEntry
    <3> QED BY <2>1, <3>1 DEF TypeOK, Kept
  <2>4. net' \in [Peers -> Seq(Packet)]
    <3>1. TextPacket(key[p], t) \in Packet
      BY <2>2, PacketTypes DEF TypeOK
    <3> QED BY <2>1, <3>1, OtherPeer DEF TypeOK
  <2>5. /\ sent' = [sent EXCEPT ![p] = @ + 1]
        /\ UNCHANGED <<up, key, unread, selected, made, exchanges, dups>>
    BY <1>3 DEF SendText
  <2> HIDE DEF t
  <2> QED BY <2>3, <2>4, <2>5 DEF TypeOK
<1>4. ASSUME NEW p \in Peers, SelectPeer(p)
      PROVE  TypeOK'
  BY <1>4 DEF TypeOK, SelectPeer
<1>5. ASSUME NEW p \in Peers, SelectAnother(p)
      PROVE  TypeOK'
  BY <1>5 DEF TypeOK, SelectAnother
<1>6. ASSUME NEW p \in Peers, SelectByDefault(p)
      PROVE  TypeOK'
  BY <1>6 DEF TypeOK, SelectByDefault
<1>7. ASSUME NEW p \in Peers, Connect(p)
      PROVE  TypeOK'
  BY <1>7 DEF TypeOK, Connect
<1>8. ASSUME NEW p \in Peers, NEW n \in Deliverable(p), RecvPublicKey(p, n)
      PROVE  TypeOK'
  <2>1. Taken(p, n) \in [Peers -> Seq(Packet)]
    BY DeliverableIsQueued, TakenType
  <2>2. WrappedKey(made + 1) \in Packet
    BY PacketTypes DEF TypeOK
  <2>3. net' \in [Peers -> Seq(Packet)]
    <3> DEFINE q == Taken(p, n)
    <3>1. net' = [q EXCEPT ![Other(p)] = Append(q[Other(p)], WrappedKey(made + 1))]
      BY <1>8 DEF RecvPublicKey, Answered
    <3> HIDE DEF q
    <3>2. q \in [Peers -> Seq(Packet)]
      BY <2>1 DEF q
    <3>3. Append(q[Other(p)], WrappedKey(made + 1)) \in Seq(Packet)
      BY <2>2, <3>2, OtherPeer
    <3> QED BY <3>1, <3>2, <3>3
  <2>4. key' \in [Peers -> Nat] /\ made' \in Nat
    BY <1>8 DEF TypeOK, RecvPublicKey
  <2>5. UNCHANGED <<up, log, unread, selected, sent, exchanges, dups>>
    BY <1>8 DEF RecvPublicKey
  <2> QED BY <2>3, <2>4, <2>5 DEF TypeOK
<1>9. ASSUME NEW p \in Peers, NEW n \in Deliverable(p), RecvWrappedKey(p, n)
      PROVE  TypeOK'
  <2>1. net' \in [Peers -> Seq(Packet)]
    BY <1>9, DeliverableIsQueued, TakenType DEF RecvWrappedKey
  <2>2. net[p][n].key \in Nat
    BY <1>9, DeliverableIsQueued DEF RecvWrappedKey, Packet
  <2>3. key' \in [Peers -> Nat]
    BY <1>9, <2>2 DEF TypeOK, RecvWrappedKey, Adopted
  <2> QED BY <1>9, <2>1, <2>3 DEF TypeOK, RecvWrappedKey
<1>10. ASSUME NEW p \in Peers, NEW n \in Deliverable(p), RecvText(p, n)
       PROVE  TypeOK'
  <2>1. net' \in [Peers -> Seq(Packet)]
    BY <1>10, DeliverableIsQueued, TakenType DEF RecvText
  <2>2. PICK added \in Seq(LogEntry) :
          /\ log' = [log EXCEPT ![p] = log[p] \o added]
          /\ unread' = [unread EXCEPT ![p] = @ + (IF selected[p] THEN 0 ELSE Len(added))]
    BY <1>10, ReceivedLog
  <2>5. log' \in [Peers -> Seq(LogEntry)]
    <3>1. log[p] \o added \in Seq(LogEntry)
      BY ConcatProperties DEF TypeOK
    <3> QED BY <2>2, <3>1 DEF TypeOK
  <2>6. unread' \in [Peers -> Nat]
    BY <2>2, LenProperties DEF TypeOK
  <2> QED BY <1>10, <2>1, <2>5, <2>6 DEF TypeOK, RecvText
<1>11. ASSUME NEW p \in Peers, Lose(p)
       PROVE  TypeOK'
  <2>1. PICK n \in DOMAIN net[p] : net' = Taken(p, n)
    BY <1>11 DEF Lose
  <2>2. n \in 1..Len(net[p])
    BY LenProperties DEF TypeOK
  <2> QED BY <1>11, <2>1, <2>2, TakenType DEF TypeOK, Lose
<1>12. ASSUME NEW p \in Peers, Duplicate(p)
       PROVE  TypeOK'
  <2>1. PICK n \in DOMAIN net[p] : net' = [net EXCEPT ![p] = Append(@, @[n])]
    BY <1>12 DEF Duplicate
  <2>2. net[p][n] \in Packet
    BY ElementOfSeq, LenProperties DEF TypeOK
  <2> QED BY <1>12, <2>1, <2>2 DEF TypeOK, Duplicate
<1>13. ASSUME NEW p \in Peers, NEW queue \in Seq(Packet), Restarted(p, queue)
       PROVE  /\ up' \subseteq Peers
              /\ net' \in [Peers -> Seq(Packet)]
              /\ log' \in [Peers -> Seq(LogEntry)]
              /\ unread' \in [Peers -> Nat]
              /\ selected' \in [Peers -> BOOLEAN]
              /\ sent' \in [Peers -> Nat]
              /\ exchanges' \in [Peers -> Nat]
              /\ dups' \in Nat
  <2>1. PICK m \in 0..Len(queue) :
          net' = [net EXCEPT ![p] = SubSeq(queue, m + 1, Len(queue))]
    BY <1>13 DEF Restarted
  <2>2. SubSeq(queue, m + 1, Len(queue)) \in Seq(Packet)
    BY SuffixProperties
  <2>3. net' \in [Peers -> Seq(Packet)]
    BY <2>1, <2>2 DEF TypeOK
  <2>4. PICK b \in BOOLEAN : selected' = [selected EXCEPT ![p] = b]
    BY <1>13 DEF Restarted
  <2>5. selected' \in [Peers -> BOOLEAN]
    BY <2>4 DEF TypeOK
  <2>6. up' \subseteq Peers
    BY <1>13 DEF TypeOK, Restarted
  <2>7. unread' \in [Peers -> Nat]
    BY <1>13 DEF TypeOK, Restarted
  <2> QED BY <1>13, <2>3, <2>5, <2>6, <2>7 DEF TypeOK, Restarted
<1>14. ASSUME NEW p \in Peers, Crash(p)
       PROVE  TypeOK'
  <2>1. net[p] \in Seq(Packet)
    BY DEF TypeOK
  <2>2. Restarted(p, net[p]) /\ UNCHANGED <<key, made>>
    BY <1>14 DEF Crash
  <2> QED BY <1>13, <2>1, <2>2 DEF TypeOK
<1>15. ASSUME NEW p \in Peers, CrashWritingKey(p)
       PROVE  TypeOK'
  <2>1. PICK n \in Deliverable(p) :
          /\ Restarted(p, RemoveAt(net[p], n))
          /\ \/ key' = [key EXCEPT ![p] = NoKey] /\ made' = made
             \/ key' = [key EXCEPT ![p] = made + 1] /\ made' = made + 1
    BY <1>15 DEF CrashWritingKey
  <2>2. RemoveAt(net[p], n) \in Seq(Packet)
    BY DeliverableIsQueued, RemoveAtProperties
  <2>3. key' \in [Peers -> Nat] /\ made' \in Nat
    BY <2>1 DEF TypeOK, NoKey
  <2> QED BY <1>13, <2>1, <2>2, <2>3 DEF TypeOK
<1> QED BY <1>1, <1>2, <1>3, <1>4, <1>5, <1>6, <1>7, <1>8, <1>9, <1>10, <1>11,
           <1>12, <1>14, <1>15 DEF Next, Receive

LEMMA TypeInitially == Init => TypeOK
<1> SUFFICES ASSUME Init
             PROVE  TypeOK
  OBVIOUS
<1>1. key \in [Peers -> Nat]
  <2>1. KeysAtStart \subseteq Nat
    BY KeysAssumption DEF OldKeys
  <2> QED BY <2>1 DEF Init
<1>2. <<>> \in Seq(Packet) /\ <<>> \in Seq(LogEntry)
  OBVIOUS
<1>3. net \in [Peers -> Seq(Packet)] /\ log \in [Peers -> Seq(LogEntry)]
  BY <1>2 DEF Init
<1>4. selected \in [Peers -> BOOLEAN]
  BY DEF Init
<1> QED BY <1>1, <1>3, <1>4, UpAssumption DEF Init, TypeOK, OldKeys

(* Every reachable state is of the declared types: in particular every key *)
(* file holds nothing or a key, and the unread counters never fall below   *)
(* zero, under any fault of the network or the processes.                  *)
THEOREM TypeCorrect == Spec => []TypeOK
BY TypeInitially, TypeInductive, PTL DEF Spec

----------------------------------------------------------------------------
(* Nothing is attributed to a friend who did not write it.                 *)

(* History h holds t as a text of its owner.                               *)
SaidIn(h, t) == \E j \in DOMAIN h : h[j] = Entry("you", t)

(* Every text on its way was written by the peer it comes from.            *)
QueueGenuine ==
  \A p \in Peers : \A n \in DOMAIN net[p] :
    net[p][n].kind = "T" => SaidIn(log[Other(p)], net[p][n].text)

GenuineInv == QueueGenuine /\ HistoryGenuine

(* Histories only grow.                                                    *)
LEMMA LogGrows ==
  ASSUME TypeOK, [Next]_vars, NEW q \in Peers, NEW j \in DOMAIN log[q]
  PROVE  j \in DOMAIN log'[q] /\ log'[q][j] = log[q][j]
<1>0. log[q] \in Seq(LogEntry) /\ Len(log[q]) \in Nat /\ j \in 1..Len(log[q])
  BY LenProperties DEF TypeOK
<1>1. CASE log' = log
  BY <1>1
<1>2. ASSUME NEW p \in Peers, SendText(p)
      PROVE  j \in DOMAIN log'[q] /\ log'[q][j] = log[q][j]
  <2>1. PICK t : log' = [log EXCEPT ![p] = Append(log[p], Entry("you", t))]
    BY <1>2 DEF SendText, Kept
  <2>2. CASE q = p
    BY <1>0, <2>1, <2>2 DEF TypeOK
  <2>3. CASE q # p
    BY <2>1, <2>3 DEF TypeOK
  <2> QED BY <2>2, <2>3
<1>3. ASSUME NEW p \in Peers, NEW n \in Deliverable(p), RecvText(p, n)
      PROVE  j \in DOMAIN log'[q] /\ log'[q][j] = log[q][j]
  <2>1. PICK added \in Seq(LogEntry) : log' = [log EXCEPT ![p] = log[p] \o added]
    BY <1>3, ReceivedLog
  <2>2. CASE q = p
    <3>1. log'[q] = log[q] \o added
      BY <2>1, <2>2 DEF TypeOK
    <3>2. /\ Len(log[q] \o added) = Len(log[q]) + Len(added)
          /\ log[q] \o added \in Seq(LogEntry)
          /\ Len(added) \in Nat
          /\ \A i \in 1..(Len(log[q]) + Len(added)) :
               (log[q] \o added)[i] = IF i <= Len(log[q]) THEN log[q][i] ELSE added[i - Len(log[q])]
      BY <1>0, ConcatProperties, LenProperties
    <3> QED BY <1>0, <3>1, <3>2, LenProperties
  <2>3. CASE q # p
    BY <2>1, <2>3 DEF TypeOK
  <2> QED BY <2>2, <2>3
<1> QED BY <1>1, <1>2, <1>3 DEF Next, Receive, vars, ExchangeKeys, SelectPeer,
           SelectAnother, SelectByDefault, Connect, RecvPublicKey, RecvWrappedKey,
           Lose, Duplicate, Crash, CrashWritingKey, Restarted

(* A history entry is new only if it was sent as "you", is garbled or came *)
(* out of a queued text packet.                                            *)
LEMMA LogStep ==
  ASSUME TypeOK, [Next]_vars, NEW p \in Peers, NEW m \in DOMAIN log'[p],
         Genuine(log'[p][m])
  PROVE  \/ m \in DOMAIN log[p] /\ log'[p][m] = log[p][m]
         \/ \E n \in Deliverable(p) :
              /\ RecvText(p, n)
              /\ m = Len(log[p]) + 1
              /\ log'[p][m].text = net[p][n].text
<1> DEFINE Goal == \/ m \in DOMAIN log[p] /\ log'[p][m] = log[p][m]
                   \/ \E n \in Deliverable(p) :
                        /\ RecvText(p, n)
                        /\ m = Len(log[p]) + 1
                        /\ log'[p][m].text = net[p][n].text
<1>0. log[p] \in Seq(LogEntry) /\ Len(log[p]) \in Nat
  BY LenProperties DEF TypeOK
<1>1. CASE log' = log
  BY <1>1
<1>2. ASSUME NEW q \in Peers, SendText(q)
      PROVE  Goal
  <2>1. PICK t : log' = [log EXCEPT ![q] = Append(log[q], Entry("you", t))]
    BY <1>2 DEF SendText, Kept
  <2>2. CASE q = p
    <3>1. log'[p] = Append(log[p], Entry("you", t))
      BY <2>1, <2>2 DEF TypeOK
    <3>2. m # Len(log[p]) + 1
      BY <1>0, <3>1 DEF Genuine, Entry
    <3> QED BY <1>0, <3>1, <3>2
  <2>3. CASE q # p
    BY <2>1, <2>3 DEF TypeOK
  <2> QED BY <2>2, <2>3
<1>3. ASSUME NEW q \in Peers, NEW n \in Deliverable(q), RecvText(q, n)
      PROVE  Goal
  <2>1. PICK added \in Seq(LogEntry) :
          /\ log' = [log EXCEPT ![q] = log[q] \o added]
          /\ \/ added = <<>>
             \/ \E t \in {Garbage, net[q][n].text} : added = <<Entry("friend", t)>>
    BY <1>3, ReceivedLog
  <2>2. CASE q # p
    BY <2>1, <2>2 DEF TypeOK
  <2>3. CASE q = p /\ added = <<>>
    BY <1>0, <2>1, <2>3, ConcatEmptySeq DEF TypeOK
  <2>4. CASE q = p /\ \E t \in {Garbage, net[q][n].text} : added = <<Entry("friend", t)>>
    <3>1. PICK t \in {Garbage, net[p][n].text} : added = <<Entry("friend", t)>>
      BY <2>4
    <3>2. log'[p] = log[p] \o <<Entry("friend", t)>>
      BY <2>1, <2>4, <3>1 DEF TypeOK
    <3>3. log[p] \o <<Entry("friend", t)>> = Append(log[p], Entry("friend", t))
      BY <1>0
    <3>4. CASE m = Len(log[p]) + 1
      <4>1. log'[p][m] = Entry("friend", t)
        BY <1>0, <3>2, <3>3, <3>4
      <4>2. t = net[p][n].text
        BY <3>1, <4>1 DEF Genuine, Entry
      <4>3. log'[p][m].text = net[p][n].text
        BY <4>1, <4>2 DEF Entry
      <4> QED BY <1>3, <2>4, <3>4, <4>3
    <3>5. CASE m # Len(log[p]) + 1
      BY <1>0, <3>2, <3>3, <3>5
    <3> QED BY <3>4, <3>5
  <2> QED BY <2>1, <2>2, <2>3, <2>4
<1> QED BY <1>1, <1>2, <1>3 DEF Next, Receive, vars, ExchangeKeys, SelectPeer,
           SelectAnother, SelectByDefault, Connect, RecvPublicKey, RecvWrappedKey,
           Lose, Duplicate, Crash, CrashWritingKey, Restarted

(* A text packet in a queue was there before or was sent by this step.     *)
LEMMA QueueStep ==
  ASSUME TypeOK, [Next]_vars, NEW p \in Peers, NEW n \in DOMAIN net'[p],
         net'[p][n].kind = "T"
  PROVE  \/ \E k \in DOMAIN net[p] : net'[p][n] = net[p][k]
         \/ \E t \in Text :
              /\ t.n = sent[Other(p)] + 1
              /\ log' = [log EXCEPT ![Other(p)] = Append(@, Entry("you", t))]
              /\ net'[p][n].text = t
<1> DEFINE Old == \E k \in DOMAIN net[p] : net'[p][n] = net[p][k]
           New == \E t \in Text :
                    /\ t.n = sent[Other(p)] + 1
                    /\ log' = [log EXCEPT ![Other(p)] = Append(@, Entry("you", t))]
                    /\ net'[p][n].text = t
<1>0. net[p] \in Seq(Packet) /\ Len(net[p]) \in Nat /\ DOMAIN net[p] = 1..Len(net[p])
  BY LenProperties DEF TypeOK
<1>1. ASSUME net'[p] = net[p]
      PROVE  Old
  BY <1>1
<1>2. ASSUME NEW x \in Packet, x.kind # "T", net'[p] = Append(net[p], x)
      PROVE  Old
  BY <1>0, <1>2
<1>3. ASSUME NEW k \in 1..Len(net[p]), net'[p] = RemoveAt(net[p], k)
      PROVE  Old
  <2>1. /\ RemoveAt(net[p], k) \in Seq(Packet)
        /\ Len(RemoveAt(net[p], k)) = Len(net[p]) - 1
        /\ \A i \in 1..(Len(net[p]) - 1) :
             RemoveAt(net[p], k)[i] = IF i < k THEN net[p][i] ELSE net[p][i + 1]
    BY <1>0, RemoveAtProperties
  <2>2. n \in 1..(Len(net[p]) - 1)
    BY <1>3, <2>1, LenProperties
  <2>3. net'[p][n] = IF n < k THEN net[p][n] ELSE net[p][n + 1]
    BY <1>3, <2>1, <2>2
  <2>4. n \in DOMAIN net[p] /\ n + 1 \in DOMAIN net[p]
    BY <1>0, <2>2
  <2> QED BY <2>3, <2>4
<1>4. ASSUME NEW queue \in Seq(Packet), Restarted(p, queue),
             \A i \in 1..Len(queue) : \E k \in DOMAIN net[p] : queue[i] = net[p][k]
      PROVE  Old
  <2>1. PICK m \in 0..Len(queue) :
          net' = [net EXCEPT ![p] = SubSeq(queue, m + 1, Len(queue))]
    BY <1>4 DEF Restarted
  <2>2. net'[p] = SubSeq(queue, m + 1, Len(queue))
    BY <2>1 DEF TypeOK
  <2>3. /\ SubSeq(queue, m + 1, Len(queue)) \in Seq(Packet)
        /\ Len(SubSeq(queue, m + 1, Len(queue))) = Len(queue) - m
        /\ \A i \in 1..(Len(queue) - m) : SubSeq(queue, m + 1, Len(queue))[i] = queue[m + i]
    BY SuffixProperties
  <2>4. n \in 1..(Len(queue) - m) /\ Len(queue) \in Nat
    BY <2>2, <2>3, LenProperties
  <2>5. net'[p][n] = queue[m + n] /\ m + n \in 1..Len(queue)
    BY <2>2, <2>3, <2>4
  <2> QED BY <1>4, <2>5
<1>5. ASSUME NEW q \in Peers, ExchangeKeys(q)
      PROVE  Old
  <2>1. CASE q = p
    BY <1>1, <1>5, <2>1, OtherPeer DEF ExchangeKeys, TypeOK
  <2>2. CASE q # p
    <3>1. Other(q) = p
      BY <2>2 DEF Other, Peers
    <3>2. net'[p] = Append(net[p], PublicKey)
      BY <1>5, <3>1 DEF ExchangeKeys, TypeOK
    <3> QED BY <1>2, <3>2, PacketTypes DEF PublicKey
  <2> QED BY <2>1, <2>2
<1>6. ASSUME NEW q \in Peers, SendText(q)
      PROVE  Old \/ New
  <2>1. PICK s \in Sizes :
          LET t == [by |-> q, n |-> sent[q] + 1, size |-> s]
          IN  /\ log' = [log EXCEPT ![q] = Append(log[q], Entry("you", t))]
              /\ net' = IF q \in up
                          THEN [net EXCEPT ![Other(q)] = Append(@, TextPacket(key[q], t))]
                          ELSE net
    BY <1>6 DEF SendText, Kept
  <2> DEFINE t == [by |-> q, n |-> sent[q] + 1, size |-> s]
  <2>2. t \in Text
    BY SizesAssumption DEF TypeOK, Text
  <2>3. CASE q = p \/ q \notin up
    <3>1. net'[p] = net[p]
      BY <2>1, <2>3, OtherPeer DEF TypeOK
    <3> QED BY <1>1, <3>1
  <2>4. CASE q # p /\ q \in up
    <3>1. Other(q) = p /\ Other(p) = q
      BY <2>4 DEF Other, Peers
    <3>2. net'[p] = Append(net[p], TextPacket(key[q], t))
      BY <2>1, <2>4, <3>1 DEF TypeOK
    <3>3. TextPacket(key[q], t).text = t
      BY DEF TextPacket
    <3>4. log' = [log EXCEPT ![Other(p)] = Append(@, Entry("you", t))] /\ t.n = sent[Other(p)] + 1
      BY <2>1, <3>1
    <3> HIDE DEF t
    <3>5. CASE n = Len(net[p]) + 1
      <4>1. net'[p][n] = TextPacket(key[q], t)
        BY <1>0, <3>2, <3>5
      <4>2. New
        BY <2>2, <3>3, <3>4, <4>1
      <4> QED BY <4>2
    <3>6. CASE n # Len(net[p]) + 1
      BY <1>0, <3>2, <3>6
    <3> QED BY <3>5, <3>6
  <2> QED BY <2>3, <2>4
<1>7. ASSUME NEW q \in Peers, NEW k \in 1..Len(net[q]), net' = Taken(q, k)
      PROVE  Old
  <2>1. CASE q = p
    BY <1>3, <1>7, <2>1 DEF Taken, TypeOK
  <2>2. CASE q # p
    BY <1>1, <1>7, <2>2 DEF Taken, TypeOK
  <2> QED BY <2>1, <2>2
<1>8. ASSUME NEW q \in Peers, NEW k \in Deliverable(q), RecvPublicKey(q, k)
      PROVE  Old
  <2>1. net' = [Taken(q, k) EXCEPT ![Other(q)] = Append(@, WrappedKey(made + 1))]
    BY <1>8 DEF RecvPublicKey, Answered
  <2>2. CASE q = p
    <3>1. net'[p] = RemoveAt(net[p], k)
      BY <2>1, <2>2, OtherPeer DEF Taken, TypeOK
    <3> QED BY <1>3, <2>2, <3>1, DeliverableIsQueued
  <2>3. CASE q # p
    <3>1. Other(q) = p
      BY <2>3 DEF Other, Peers
    <3>2. net'[p] = Append(net[p], WrappedKey(made + 1))
      BY <2>1, <2>3, <3>1 DEF Taken, TypeOK
    <3>3. WrappedKey(made + 1) \in Packet
      BY PacketTypes DEF TypeOK
    <3> QED BY <1>2, <3>2, <3>3 DEF WrappedKey
  <2> QED BY <2>2, <2>3
<1>9. ASSUME NEW q \in Peers, NEW k \in Deliverable(q),
             RecvWrappedKey(q, k) \/ RecvText(q, k)
      PROVE  Old
  BY <1>7, <1>9, DeliverableIsQueued DEF RecvWrappedKey, RecvText
<1>10. ASSUME NEW q \in Peers, Lose(q)
       PROVE  Old
  <2>1. PICK k \in DOMAIN net[q] : net' = Taken(q, k)
    BY <1>10 DEF Lose
  <2>2. k \in 1..Len(net[q])
    BY LenProperties DEF TypeOK
  <2> QED BY <1>7, <2>1, <2>2
<1>11. ASSUME NEW q \in Peers, Duplicate(q)
       PROVE  Old
  <2>1. PICK k \in DOMAIN net[q] : net' = [net EXCEPT ![q] = Append(@, @[k])]
    BY <1>11 DEF Duplicate
  <2>2. CASE q = p
    <3>1. net'[p] = Append(net[p], net[p][k])
      BY <2>1, <2>2 DEF TypeOK
    <3> QED BY <1>0, <2>1, <2>2, <3>1
  <2>3. CASE q # p
    BY <1>1, <2>1, <2>3 DEF TypeOK
  <2> QED BY <2>2, <2>3
<1>12. ASSUME NEW q \in Peers, NEW queue, Restarted(q, queue), q # p
       PROVE  Old
  BY <1>1, <1>12 DEF Restarted, TypeOK
<1>13. ASSUME Crash(p)
       PROVE  Old
  BY <1>0, <1>4, <1>13 DEF Crash
<1>14. ASSUME CrashWritingKey(p)
       PROVE  Old
  <2>1. PICK k \in Deliverable(p) : Restarted(p, RemoveAt(net[p], k))
    BY <1>14 DEF CrashWritingKey
  <2>2. k \in 1..Len(net[p])
    BY <2>1, DeliverableIsQueued
  <2>3. /\ RemoveAt(net[p], k) \in Seq(Packet)
        /\ Len(RemoveAt(net[p], k)) = Len(net[p]) - 1
        /\ \A i \in 1..(Len(net[p]) - 1) :
             RemoveAt(net[p], k)[i] = IF i < k THEN net[p][i] ELSE net[p][i + 1]
    BY <1>0, <2>2, RemoveAtProperties
  <2>4. \A i \in 1..(Len(net[p]) - 1) : i \in DOMAIN net[p] /\ i + 1 \in DOMAIN net[p]
    BY <1>0
  <2>5. \A i \in 1..Len(RemoveAt(net[p], k)) :
          \E j \in DOMAIN net[p] : RemoveAt(net[p], k)[i] = net[p][j]
    BY <2>3, <2>4
  <2> QED BY <1>4, <2>1, <2>3, <2>5
<1>15. ASSUME NEW q \in Peers, Crash(q) \/ CrashWritingKey(q)
       PROVE  Old
  BY <1>12, <1>13, <1>14, <1>15 DEF Crash, CrashWritingKey
<1>16. ASSUME UNCHANGED net
       PROVE  Old
  BY <1>1, <1>16
<1> QED BY <1>5, <1>6, <1>8, <1>9, <1>10, <1>11, <1>15, <1>16 DEF Next, Receive, vars,
           SelectPeer, SelectAnother, SelectByDefault, Connect

LEMMA SaidStays ==
  ASSUME TypeOK, [Next]_vars, NEW q \in Peers, NEW t, SaidIn(log[q], t)
  PROVE  SaidIn(log'[q], t)
BY LogGrows DEF SaidIn

LEMMA GenuineInductive ==
  TypeOK /\ GenuineInv /\ [Next]_vars => GenuineInv'
<1> SUFFICES ASSUME TypeOK, GenuineInv, [Next]_vars
             PROVE  GenuineInv'
  OBVIOUS
<1>1. QueueGenuine'
  <2> SUFFICES ASSUME NEW p \in Peers, NEW n \in DOMAIN net'[p], net'[p][n].kind = "T"
               PROVE  SaidIn(log'[Other(p)], net'[p][n].text)
    BY DEF QueueGenuine
  <2>1. CASE \E k \in DOMAIN net[p] : net'[p][n] = net[p][k]
    <3>1. SaidIn(log[Other(p)], net'[p][n].text)
      BY <2>1 DEF GenuineInv, QueueGenuine
    <3> QED BY <3>1, SaidStays, OtherPeer
  <2>2. CASE \E t \in Text : /\ log' = [log EXCEPT ![Other(p)] = Append(@, Entry("you", t))]
                             /\ net'[p][n].text = t
    <3>1. PICK t \in Text : /\ log' = [log EXCEPT ![Other(p)] = Append(@, Entry("you", t))]
                            /\ net'[p][n].text = t
      BY <2>2
    <3>2. log[Other(p)] \in Seq(LogEntry)
      BY OtherPeer DEF TypeOK
    <3>3. log'[Other(p)] = Append(log[Other(p)], Entry("you", t))
      BY <3>1, OtherPeer DEF TypeOK
    <3>4. /\ Len(log[Other(p)]) + 1 \in DOMAIN log'[Other(p)]
          /\ log'[Other(p)][Len(log[Other(p)]) + 1] = Entry("you", t)
      BY <3>2, <3>3
    <3> QED BY <3>1, <3>4 DEF SaidIn
  <2> QED BY <2>1, <2>2, QueueStep
<1>2. HistoryGenuine'
  <2> SUFFICES ASSUME NEW p \in Peers, NEW m \in DOMAIN log'[p], Genuine(log'[p][m])
               PROVE  SaidIn(log'[Other(p)], log'[p][m].text)
    BY DEF HistoryGenuine, SaidIn, Genuine
  <2>1. SaidIn(log[Other(p)], log'[p][m].text)
    <3>1. CASE m \in DOMAIN log[p] /\ log'[p][m] = log[p][m]
      BY <3>1 DEF GenuineInv, HistoryGenuine, SaidIn
    <3>2. CASE \E n \in Deliverable(p) :
                 RecvText(p, n) /\ log'[p][m].text = net[p][n].text
      <4>1. PICK n \in Deliverable(p) :
              RecvText(p, n) /\ log'[p][m].text = net[p][n].text
        BY <3>2
      <4>2. n \in DOMAIN net[p] /\ net[p][n].kind = "T"
        BY <4>1 DEF Deliverable, RecvText
      <4> QED BY <4>1, <4>2 DEF GenuineInv, QueueGenuine
    <3> QED BY <3>1, <3>2, LogStep
  <2> QED BY <2>1, SaidStays, OtherPeer
<1> QED BY <1>1, <1>2 DEF GenuineInv

(* Nothing is attributed to a friend who did not write it: with lost,      *)
(* repeated and overtaking packets, wrong keys and crashes at any moment.  *)
THEOREM HistoryIsGenuine == Spec => []HistoryGenuine
<1>1. Init => GenuineInv
  BY DEF Init, GenuineInv, QueueGenuine, HistoryGenuine
<1>2. GenuineInv => HistoryGenuine
  BY DEF GenuineInv
<1> QED BY <1>1, <1>2, GenuineInductive, TypeCorrect, PTL DEF Spec

----------------------------------------------------------------------------
(* One initiator on a faultless network: the keys agree when it is quiet.  *)

Has(q, kind) == \E n \in DOMAIN q : q[n].kind = kind

(* The last answer in queue q, if there is one, carries key k.             *)
LastAnswerIs(q, k) ==
  \A n \in DOMAIN q :
    q[n].kind = "A" /\ (\A j \in DOMAIN q : j > n => q[j].kind # "A") => q[n].key = k

LEMMA HeadTaken ==
  ASSUME NEW q \in Seq(Packet), 1 \in DOMAIN q, NEW k
  PROVE  /\ \A kind : Has(RemoveAt(q, 1), kind) => Has(q, kind)
         /\ q[1].kind # "A" /\ Has(q, "A") => Has(RemoveAt(q, 1), "A")
         /\ LastAnswerIs(q, k) => LastAnswerIs(RemoveAt(q, 1), k)
         /\ LastAnswerIs(q, k) /\ q[1].kind = "A" /\ ~Has(RemoveAt(q, 1), "A")
              => q[1].key = k
<1> DEFINE rest == RemoveAt(q, 1)
<1>1. Len(q) \in Nat /\ DOMAIN q = 1..Len(q) /\ 1 \in 1..Len(q)
  BY LenProperties
<1>2. /\ rest \in Seq(Packet)
      /\ Len(rest) = Len(q) - 1
      /\ \A i \in 1..(Len(q) - 1) : rest[i] = IF i < 1 THEN q[i] ELSE q[i + 1]
  BY <1>1, RemoveAtProperties
<1>3. DOMAIN rest = 1..(Len(q) - 1)
  BY <1>2, LenProperties
<1> HIDE DEF rest
<1>4. \A i \in DOMAIN rest : i + 1 \in DOMAIN q /\ rest[i] = q[i + 1]
  BY <1>1, <1>2, <1>3
<1>5. \A j \in DOMAIN q : j # 1 => j - 1 \in DOMAIN rest /\ rest[j - 1] = q[j]
  BY <1>1, <1>2, <1>3
<1>6. \A kind : Has(rest, kind) => Has(q, kind)
  BY <1>4 DEF Has
<1>7. q[1].kind # "A" /\ Has(q, "A") => Has(rest, "A")
  BY <1>5 DEF Has
<1>8. ASSUME LastAnswerIs(q, k)
      PROVE  LastAnswerIs(rest, k)
  <2> SUFFICES ASSUME NEW n \in DOMAIN rest, rest[n].kind = "A",
                      \A j \in DOMAIN rest : j > n => rest[j].kind # "A"
               PROVE  rest[n].key = k
    BY DEF LastAnswerIs
  <2>1. \A j \in DOMAIN q : j > n + 1 => q[j].kind # "A"
    <3> SUFFICES ASSUME NEW j \in DOMAIN q, j > n + 1
                 PROVE  q[j].kind # "A"
      OBVIOUS
    <3>1. j - 1 > n /\ j # 1
      BY <1>1, <1>3
    <3> QED BY <1>5, <3>1
  <2> QED BY <1>4, <1>8, <2>1 DEF LastAnswerIs
<1>9. ASSUME LastAnswerIs(q, k), q[1].kind = "A", ~Has(rest, "A")
      PROVE  q[1].key = k
  <2>1. \A j \in DOMAIN q : j > 1 => q[j].kind # "A"
    BY <1>1, <1>5, <1>9 DEF Has
  <2> QED BY <1>9, <2>1 DEF LastAnswerIs
<1> QED BY <1>6, <1>7, <1>8, <1>9 DEF rest

LEMMA Appended ==
  ASSUME NEW q \in Seq(Packet), NEW x \in Packet, NEW k
  PROVE  /\ \A kind : Has(Append(q, x), kind) <=> Has(q, kind) \/ x.kind = kind
         /\ x.kind # "A" /\ LastAnswerIs(q, k) => LastAnswerIs(Append(q, x), k)
         /\ x.kind = "A" => LastAnswerIs(Append(q, x), x.key)
<1> DEFINE a == Append(q, x)
<1>1. /\ Len(q) \in Nat
      /\ DOMAIN q = 1..Len(q)
      /\ DOMAIN a = 1..(Len(q) + 1)
      /\ \A i \in 1..Len(q) : a[i] = q[i]
      /\ a[Len(q) + 1] = x
  BY LenProperties
<1> HIDE DEF a
<1>2. \A kind : Has(a, kind) <=> Has(q, kind) \/ x.kind = kind
  BY <1>1 DEF Has
<1>3. x.kind # "A" /\ LastAnswerIs(q, k) => LastAnswerIs(a, k)
  BY <1>1 DEF LastAnswerIs
<1>4. x.kind = "A" => LastAnswerIs(a, x.key)
  BY <1>1 DEF LastAnswerIs
<1> QED BY <1>2, <1>3, <1>4 DEF a

(* Peer i alone starts exchanges; its queue holds answers, the other's     *)
(* queue holds public keys.  The answerer holds the newest key, and the    *)
(* initiator holds it too unless the last answer on its way brings it.     *)
ExchangeInv(i) ==
  /\ ~Has(net[i], "P")
  /\ ~Has(net[Other(i)], "A")
  /\ Has(net[Other(i)], "P") \/ Has(net[i], "A") => i \in up
  /\ made >= OldKeys
  /\ made > OldKeys => key[Other(i)] = made
  /\ LastAnswerIs(net[i], made)
  /\ made > OldKeys /\ ~Has(net[i], "A") => key[i] = made

LEMMA ExchangeInit ==
  ASSUME NEW i \in Peers
  PROVE  Init => ExchangeInv(i)
<1> SUFFICES ASSUME Init
             PROVE  ExchangeInv(i)
  OBVIOUS
<1>1. net[i] = <<>> /\ net[Other(i)] = <<>> /\ made = OldKeys
  BY OtherPeer DEF Init
<1> QED BY <1>1 DEF ExchangeInv, Has, LastAnswerIs, OldKeys

LEMMA ExchangeInductive ==
  ASSUME NEW i \in Peers, Initiators \subseteq {i}, Faults = {},
         TypeOK, ExchangeInv(i), [Next]_vars
  PROVE  ExchangeInv(i)'
<1> DEFINE r == Other(i)
<1>0. /\ r \in Peers /\ r # i /\ Other(r) = i
      /\ \A q \in Peers : q = i \/ q = r
      /\ net[i] \in Seq(Packet) /\ net[r] \in Seq(Packet)
      /\ made \in Nat
  BY OtherPeer DEF Other, Peers, TypeOK
<1>a. /\ ~Has(net[i], "P") /\ ~Has(net[r], "A")
      /\ Has(net[r], "P") \/ Has(net[i], "A") => i \in up
      /\ made >= OldKeys
      /\ made > OldKeys => key[r] = made
      /\ LastAnswerIs(net[i], made)
      /\ made > OldKeys /\ ~Has(net[i], "A") => key[i] = made
  BY DEF ExchangeInv
<1>b. ASSUME \/ net'[i] = net[i]
             \/ \E x \in Packet : x.kind = "T" /\ net'[i] = Append(net[i], x)
             \/ /\ 1 \in DOMAIN net[i]
                /\ net[i][1].kind # "A"
                /\ net'[i] = RemoveAt(net[i], 1),
             \/ net'[r] = net[r]
             \/ \E x \in Packet : /\ x.kind \in {"T", "P"}
                                  /\ x.kind = "P" => i \in up
                                  /\ net'[r] = Append(net[r], x)
             \/ 1 \in DOMAIN net[r] /\ net'[r] = RemoveAt(net[r], 1),
             up \subseteq up', UNCHANGED <<key, made>>
      PROVE  ExchangeInv(i)'
  <2>1. /\ ~Has(net'[i], "P")
        /\ LastAnswerIs(net'[i], made)
        /\ Has(net'[i], "A") <=> Has(net[i], "A")
    <3>1. CASE net'[i] = net[i]
      BY <1>a, <3>1
    <3>2. CASE \E x \in Packet : x.kind = "T" /\ net'[i] = Append(net[i], x)
      BY <1>0, <1>a, <3>2, Appended
    <3>3. CASE /\ 1 \in DOMAIN net[i]
               /\ net[i][1].kind # "A"
               /\ net'[i] = RemoveAt(net[i], 1)
      BY <1>0, <1>a, <3>3, HeadTaken
    <3> QED BY <1>b, <3>1, <3>2, <3>3
  <2>2. /\ ~Has(net'[r], "A")
        /\ Has(net'[r], "P") => Has(net[r], "P") \/ i \in up
    <3>1. CASE net'[r] = net[r]
      BY <1>a, <3>1
    <3>2. CASE \E x \in Packet : /\ x.kind \in {"T", "P"}
                                 /\ x.kind = "P" => i \in up
                                 /\ net'[r] = Append(net[r], x)
      BY <1>0, <1>a, <3>2, Appended
    <3>3. CASE 1 \in DOMAIN net[r] /\ net'[r] = RemoveAt(net[r], 1)
      BY <1>0, <1>a, <3>3, HeadTaken
    <3> QED BY <1>b, <3>1, <3>2, <3>3
  <2> QED BY <1>a, <1>b, <2>1, <2>2 DEF ExchangeInv
<1>1. CASE UNCHANGED vars
  BY <1>b, <1>1 DEF vars
<1>2. ASSUME NEW p \in Peers, ExchangeKeys(p)
      PROVE  ExchangeInv(i)'
  <2>1. p = i /\ i \in up
    BY <1>2 DEF ExchangeKeys
  <2>2. net'[i] = net[i] /\ net'[r] = Append(net[r], PublicKey)
    BY <1>0, <1>2, <2>1 DEF ExchangeKeys, TypeOK
  <2>3. PublicKey \in Packet /\ PublicKey.kind = "P"
    BY PacketTypes DEF PublicKey
  <2> QED BY <1>b, <1>2, <2>1, <2>2, <2>3 DEF ExchangeKeys
<1>3. ASSUME NEW p \in Peers, SendText(p)
      PROVE  ExchangeInv(i)'
  <2>1. PICK s \in Sizes :
          LET t == [by |-> p, n |-> sent[p] + 1, size |-> s]
          IN  net' = IF p \in up
                       THEN [net EXCEPT ![Other(p)] = Append(@, TextPacket(key[p], t))]
                       ELSE net
    BY <1>3 DEF SendText
  <2> DEFINE t == [by |-> p, n |-> sent[p] + 1, size |-> s]
             x == TextPacket(key[p], t)
  <2>2. t \in Text
    BY SizesAssumption DEF TypeOK, Text
  <2>3. x \in Packet /\ x.kind = "T"
    BY <2>2, PacketTypes DEF TextPacket, TypeOK
  <2>4. net' = net \/ net' = [net EXCEPT ![Other(p)] = Append(@, x)]
    BY <2>1
  <2> HIDE DEF x, t
  <2>5. /\ net'[i] = net[i] \/ net'[i] = Append(net[i], x)
        /\ net'[r] = net[r] \/ net'[r] = Append(net[r], x)
    BY <1>0, <2>4 DEF TypeOK
  <2> QED BY <1>b, <1>3, <2>3, <2>5 DEF SendText
<1>4. ASSUME NEW p \in Peers,
             \/ SelectPeer(p) \/ SelectAnother(p) \/ SelectByDefault(p) \/ Connect(p)
      PROVE  ExchangeInv(i)'
  BY <1>b, <1>4 DEF SelectPeer, SelectAnother, SelectByDefault, Connect
<1>5. ASSUME NEW p \in Peers, NEW n \in Deliverable(p)
      PROVE  /\ n = 1
             /\ p \in up
             /\ 1 \in DOMAIN net[p]
             /\ Taken(p, n)[p] = RemoveAt(net[p], 1)
             /\ \A q \in Peers : q # p => Taken(p, n)[q] = net[q]
             /\ Taken(p, n) \in [Peers -> Seq(Packet)]
  <2>1. n = 1 /\ p \in up /\ 1 \in DOMAIN net[p]
    BY <1>5 DEF Deliverable
  <2>2. Taken(p, n)[p] = RemoveAt(net[p], 1) /\ \A q \in Peers : q # p => Taken(p, n)[q] = net[q]
    BY <2>1 DEF Taken, TypeOK
  <2>3. Taken(p, n) \in [Peers -> Seq(Packet)]
    BY DeliverableIsQueued, TakenType
  <2> QED BY <2>1, <2>2, <2>3
<1>6. ASSUME NEW p \in Peers, NEW n \in Deliverable(p), RecvPublicKey(p, n)
      PROVE  ExchangeInv(i)'
  <2>1. p = r
    BY <1>0, <1>a, <1>5, <1>6 DEF RecvPublicKey, Has
  <2>2. WrappedKey(made + 1) \in Packet /\ WrappedKey(made + 1).kind = "A"
                                        /\ WrappedKey(made + 1).key = made + 1
    BY <1>0, PacketTypes DEF WrappedKey
  <2>3. /\ net'[r] = RemoveAt(net[r], 1)
        /\ net'[i] = Append(net[i], WrappedKey(made + 1))
    <3> DEFINE q == Taken(p, n)
    <3>1. net' = [q EXCEPT ![i] = Append(q[i], WrappedKey(made + 1))]
      BY <1>0, <1>6, <2>1 DEF RecvPublicKey, Answered
    <3>2. q \in [Peers -> Seq(Packet)] /\ q[r] = RemoveAt(net[r], 1) /\ q[i] = net[i]
      BY <1>0, <1>5, <2>1
    <3> HIDE DEF q
    <3> QED BY <1>0, <3>1, <3>2
  <2>4. 1 \in DOMAIN net[r] /\ Has(net[r], "P")
    BY <1>5, <1>6, <2>1 DEF RecvPublicKey, Has
  <2>5. ~Has(net'[r], "A")
    BY <1>0, <1>a, <2>3, <2>4, HeadTaken
  <2>6. /\ ~Has(net'[i], "P")
        /\ Has(net'[i], "A")
        /\ LastAnswerIs(net'[i], made + 1)
    BY <1>0, <1>a, <2>2, <2>3, Appended
  <2>7. key'[r] = made + 1 /\ made' = made + 1 /\ up' = up
    BY <1>0, <1>6, <2>1 DEF RecvPublicKey, TypeOK
  <2> QED BY <1>0, <1>a, <2>4, <2>5, <2>6, <2>7 DEF ExchangeInv, OldKeys
<1>7. ASSUME NEW p \in Peers, NEW n \in Deliverable(p), RecvWrappedKey(p, n)
      PROVE  ExchangeInv(i)'
  <2>1. p = i
    BY <1>0, <1>a, <1>5, <1>7 DEF RecvWrappedKey, Has
  <2>2. net'[i] = RemoveAt(net[i], 1) /\ net'[r] = net[r]
    BY <1>0, <1>5, <1>7, <2>1 DEF RecvWrappedKey
  <2>3. 1 \in DOMAIN net[i] /\ net[i][1].kind = "A" /\ i \in up
    BY <1>5, <1>7, <2>1 DEF RecvWrappedKey
  <2>4. key'[i] = net[i][1].key /\ key'[r] = key[r] /\ made' = made /\ up' = up
    BY <1>0, <1>5, <1>7, <2>1 DEF RecvWrappedKey, Adopted, TypeOK
  <2>5. /\ ~Has(net'[i], "P")
        /\ LastAnswerIs(net'[i], made)
        /\ ~Has(net'[i], "A") => net[i][1].key = made
    BY <1>0, <1>a, <2>2, <2>3, HeadTaken
  <2> QED BY <1>a, <2>2, <2>3, <2>4, <2>5 DEF ExchangeInv
<1>8. ASSUME NEW p \in Peers, NEW n \in Deliverable(p), RecvText(p, n)
      PROVE  ExchangeInv(i)'
  <2>1. net[p][1].kind = "T"
    BY <1>5, <1>8 DEF RecvText
  <2>2. /\ net'[p] = RemoveAt(net[p], 1)
        /\ \A q \in Peers : q # p => net'[q] = net[q]
    BY <1>5, <1>8 DEF RecvText
  <2> QED BY <1>0, <1>b, <1>5, <1>8, <2>1, <2>2 DEF RecvText
<1>9. ASSUME NEW p \in Peers, Lose(p)
      PROVE  ExchangeInv(i)'
  <2>1. /\ 1 \in DOMAIN net[p]
        /\ p \notin up
        /\ net' = Taken(p, 1)
    BY <1>9 DEF Lose
  <2>2. /\ net'[p] = RemoveAt(net[p], 1)
        /\ \A q \in Peers : q # p => net'[q] = net[q]
    BY <2>1 DEF Taken, TypeOK
  <2>3. p = i => net[i][1].kind # "A"
    BY <1>a, <2>1 DEF Has
  <2> QED BY <1>0, <1>b, <1>9, <2>1, <2>2, <2>3 DEF Lose
<1>10. ASSUME NEW p \in Peers
       PROVE  ~Duplicate(p) /\ ~Crash(p) /\ ~CrashWritingKey(p)
  BY DEF Duplicate, Crash, CrashWritingKey
<1> QED BY <1>1, <1>2, <1>3, <1>4, <1>6, <1>7, <1>8, <1>9, <1>10 DEF Next, Receive

(* If only one of the two users starts exchanges and the network loses,    *)
(* repeats and reorders nothing, then however many exchanges overlap, both *)
(* key files hold the same key as soon as no answer is on its way.         *)
THEOREM KeysAgree ==
  ASSUME NEW i \in Peers, Initiators \subseteq {i}, Faults = {}
  PROVE  Spec => []KeysAgreeWhenQuiet
<1>1. Init => ExchangeInv(i)
  BY ExchangeInit
<1>2. TypeOK /\ ExchangeInv(i) /\ [Next]_vars => ExchangeInv(i)'
  BY ExchangeInductive
<1>3. TypeOK /\ ExchangeInv(i) => KeysAgreeWhenQuiet
  <2> SUFFICES ASSUME TypeOK, ExchangeInv(i), made > OldKeys,
                      \A p \in Peers : ~AnswerPending(p)
               PROVE  key[Alice] = key[Bob] /\ key[Alice] # NoKey
    BY DEF KeysAgreeWhenQuiet
  <2>1. ~Has(net[i], "A")
    BY DEF AnswerPending, Has
  <2>2. key[i] = made /\ key[Other(i)] = made
    BY <2>1 DEF ExchangeInv
  <2>3. made \in Nat /\ made # NoKey
    BY DEF TypeOK, OldKeys, NoKey
  <2> QED BY <2>2, <2>3 DEF Other, Peers
<1> QED BY <1>1, <1>2, <1>3, TypeCorrect, PTL DEF Spec

----------------------------------------------------------------------------
(* Nothing duplicated, nothing overtaking: texts are saved in order, once. *)

(* Queue q holds texts numbered above lo and up to hi, in rising order.    *)
Ordered(q, lo, hi) ==
  \A m \in DOMAIN q : q[m].kind = "T" =>
    /\ lo < q[m].text.n /\ q[m].text.n <= hi
    /\ \A n \in DOMAIN q : m < n /\ q[n].kind = "T" => q[m].text.n < q[n].text.n

(* No text of the friend in history h is numbered above lo.                *)
UpTo(h, lo) == \A m \in DOMAIN h : Genuine(h[m]) => h[m].text.n <= lo

(* lo separates what p has read from what is on its way to p.              *)
OrderInv ==
  \A p \in Peers :
    \E lo \in 0..sent[Other(p)] :
      UpTo(log[p], lo) /\ Ordered(net[p], lo, sent[Other(p)])

LEMMA OrderedRemove ==
  ASSUME NEW q \in Seq(Packet), NEW lo, NEW hi, Ordered(q, lo, hi), NEW k \in 1..Len(q)
  PROVE  Ordered(RemoveAt(q, k), lo, hi)
<1> DEFINE rest == RemoveAt(q, k)
           old(i) == IF i < k THEN i ELSE i + 1
<1>1. Len(q) \in Nat /\ DOMAIN q = 1..Len(q)
  BY LenProperties
<1>2. /\ rest \in Seq(Packet)
      /\ Len(rest) = Len(q) - 1
      /\ \A i \in 1..(Len(q) - 1) : rest[i] = IF i < k THEN q[i] ELSE q[i + 1]
  BY RemoveAtProperties
<1>3. DOMAIN rest = 1..(Len(q) - 1)
  BY <1>2, LenProperties
<1> HIDE DEF rest
<1>4. \A i \in DOMAIN rest : old(i) \in DOMAIN q /\ rest[i] = q[old(i)]
  BY <1>1, <1>2, <1>3
<1>5. \A i, j \in DOMAIN rest : i < j => old(i) < old(j)
  BY <1>1, <1>3
<1> HIDE DEF old
<1>6. Ordered(rest, lo, hi)
  BY <1>4, <1>5 DEF Ordered
<1> QED BY <1>6 DEF rest

LEMMA OrderedSuffix ==
  ASSUME NEW q \in Seq(Packet), NEW lo, NEW hi, Ordered(q, lo, hi), NEW m \in 0..Len(q)
  PROVE  Ordered(SubSeq(q, m + 1, Len(q)), lo, hi)
<1> DEFINE rest == SubSeq(q, m + 1, Len(q))
<1>1. Len(q) \in Nat /\ DOMAIN q = 1..Len(q)
  BY LenProperties
<1>2. /\ rest \in Seq(Packet)
      /\ Len(rest) = Len(q) - m
      /\ \A i \in 1..(Len(q) - m) : rest[i] = q[m + i]
  BY SuffixProperties
<1>3. DOMAIN rest = 1..(Len(q) - m)
  BY <1>2, LenProperties
<1> HIDE DEF rest
<1>4. \A i \in DOMAIN rest : m + i \in DOMAIN q /\ rest[i] = q[m + i]
  BY <1>1, <1>2, <1>3
<1>5. \A i, j \in DOMAIN rest : i < j => m + i < m + j
  BY <1>1, <1>3
<1>6. Ordered(rest, lo, hi)
  BY <1>4, <1>5 DEF Ordered
<1> QED BY <1>6 DEF rest

(* The head of the queue, once read, is the new separator.                 *)
LEMMA OrderedHead ==
  ASSUME NEW q \in Seq(Packet), NEW lo, NEW hi, Ordered(q, lo, hi),
         1 \in DOMAIN q, q[1].kind = "T"
  PROVE  Ordered(RemoveAt(q, 1), q[1].text.n, hi)
<1> DEFINE rest == RemoveAt(q, 1)
<1>1. Len(q) \in Nat /\ DOMAIN q = 1..Len(q) /\ 1 \in 1..Len(q)
  BY LenProperties
<1>2. /\ rest \in Seq(Packet)
      /\ Len(rest) = Len(q) - 1
      /\ \A i \in 1..(Len(q) - 1) : rest[i] = IF i < 1 THEN q[i] ELSE q[i + 1]
  BY <1>1, RemoveAtProperties
<1>3. DOMAIN rest = 1..(Len(q) - 1)
  BY <1>2, LenProperties
<1>4. Ordered(rest, lo, hi)
  BY <1>1, OrderedRemove
<1> HIDE DEF rest
<1>5. \A i \in DOMAIN rest : i + 1 \in DOMAIN q /\ 1 < i + 1 /\ rest[i] = q[i + 1]
  BY <1>1, <1>2, <1>3
<1>6. \A i \in DOMAIN rest : rest[i].kind = "T" => q[1].text.n < rest[i].text.n
  BY <1>5 DEF Ordered
<1>7. Ordered(rest, q[1].text.n, hi)
  BY <1>4, <1>6 DEF Ordered
<1> QED BY <1>7 DEF rest

LEMMA OrderedAppend ==
  ASSUME NEW q \in Seq(Packet), NEW lo \in Nat, NEW hi \in Nat, Ordered(q, lo, hi),
         lo <= hi, NEW x \in Packet
  PROVE  /\ x.kind # "T" => Ordered(Append(q, x), lo, hi)
         /\ x.kind = "T" /\ x.text.n = hi + 1 => Ordered(Append(q, x), lo, hi + 1)
<1> DEFINE a == Append(q, x)
<1>1. /\ Len(q) \in Nat
      /\ DOMAIN q = 1..Len(q)
      /\ DOMAIN a = 1..(Len(q) + 1)
      /\ \A i \in 1..Len(q) : a[i] = q[i]
      /\ a[Len(q) + 1] = x
  BY LenProperties
<1>2. \A i \in DOMAIN q : q[i].kind = "T" => q[i].text.n \in Nat
  BY <1>1, ElementOfSeq DEF Packet, Text
<1> HIDE DEF a
<1>3. x.kind # "T" => Ordered(a, lo, hi)
  BY <1>1 DEF Ordered
<1>4. ASSUME x.kind = "T", x.text.n = hi + 1
      PROVE  Ordered(a, lo, hi + 1)
  <2> SUFFICES ASSUME NEW m \in DOMAIN a, a[m].kind = "T"
               PROVE  /\ lo < a[m].text.n /\ a[m].text.n <= hi + 1
                      /\ \A n \in DOMAIN a : m < n /\ a[n].kind = "T"
                           => a[m].text.n < a[n].text.n
    BY DEF Ordered
  <2>1. CASE m = Len(q) + 1
    BY <1>1, <1>4, <2>1
  <2>2. CASE m \in DOMAIN q
    <3>1. a[m] = q[m] /\ q[m].kind = "T" /\ q[m].text.n \in Nat
      BY <1>1, <1>2, <2>2
    <3>2. lo < q[m].text.n /\ q[m].text.n <= hi
      BY <2>2, <3>1 DEF Ordered
    <3>3. ASSUME NEW n \in DOMAIN a, m < n, a[n].kind = "T"
          PROVE  a[m].text.n < a[n].text.n
      <4>1. CASE n = Len(q) + 1
        BY <1>1, <1>4, <3>1, <3>2, <4>1
      <4>2. CASE n \in DOMAIN q
        BY <1>1, <2>2, <3>1, <3>3, <4>2 DEF Ordered
      <4> QED BY <1>1, <4>1, <4>2
    <3> QED BY <3>1, <3>2, <3>3
  <2> QED BY <1>1, <2>1, <2>2
<1> QED BY <1>3, <1>4 DEF a

LEMMA OrderInductive ==
  ASSUME Faults \subseteq {"loss", "crash"}, TypeOK, OrderInv, [Next]_vars
  PROVE  OrderInv'
<1> SUFFICES ASSUME NEW p \in Peers
             PROVE  \E lo \in 0..sent'[Other(p)] :
                      UpTo(log'[p], lo) /\ Ordered(net'[p], lo, sent'[Other(p)])
  BY DEF OrderInv
<1> DEFINE o == Other(p)
           Goal == \E lo \in 0..sent'[o] :
                     UpTo(log'[p], lo) /\ Ordered(net'[p], lo, sent'[o])
<1>0. /\ o \in Peers /\ o # p /\ Other(o) = p
      /\ \A q \in Peers : q = p \/ q = o
      /\ net[p] \in Seq(Packet) /\ DOMAIN net[p] = 1..Len(net[p]) /\ Len(net[p]) \in Nat
      /\ sent[o] \in Nat
  BY OtherPeer, LenProperties DEF Other, Peers, TypeOK
<1>1. PICK lo \in 0..sent[o] : UpTo(log[p], lo) /\ Ordered(net[p], lo, sent[o])
  BY DEF OrderInv
<1>b. lo \in Nat /\ lo <= sent[o]
  BY <1>0, <1>1
<1>c. \A x \in Packet : x.kind # "T" => Ordered(Append(net[p], x), lo, sent[o])
  BY <1>0, <1>1, <1>b, OrderedAppend
<1>d. \A k \in 1..Len(net[p]) : Ordered(RemoveAt(net[p], k), lo, sent[o])
  BY <1>0, <1>1, OrderedRemove
<1>4. ASSUME NEW queue \in Seq(Packet), Ordered(queue, lo, sent[o]), Restarted(p, queue)
      PROVE  Goal
  <2>1. PICK m \in 0..Len(queue) :
          net' = [net EXCEPT ![p] = SubSeq(queue, m + 1, Len(queue))]
    BY <1>4 DEF Restarted
  <2>2. Ordered(net'[p], lo, sent[o])
    BY <1>4, <2>1, OrderedSuffix DEF TypeOK
  <2>3. log' = log /\ sent' = sent
    BY <1>4 DEF Restarted
  <2> QED BY <1>1, <2>2, <2>3
<1>5. CASE UNCHANGED vars
  BY <1>1, <1>5 DEF vars
<1>6. ASSUME NEW q \in Peers, ExchangeKeys(q)
      PROVE  Goal
  <2>1. net'[p] = net[p] \/ net'[p] = Append(net[p], PublicKey)
    BY <1>0, <1>6 DEF ExchangeKeys, TypeOK
  <2>2. PublicKey \in Packet /\ PublicKey.kind # "T"
    BY PacketTypes DEF PublicKey
  <2>3. log' = log /\ sent' = sent
    BY <1>6 DEF ExchangeKeys
  <2>4. Ordered(net'[p], lo, sent[o])
    BY <1>1, <2>1, <2>2, <1>c
  <2> QED BY <1>1, <2>3, <2>4
<1>7. ASSUME NEW q \in Peers, SendText(q)
      PROVE  Goal
  <2>1. PICK s \in Sizes :
          LET t == [by |-> q, n |-> sent[q] + 1, size |-> s]
          IN  /\ log' = [log EXCEPT ![q] = Append(log[q], Entry("you", t))]
              /\ net' = IF q \in up
                          THEN [net EXCEPT ![Other(q)] = Append(@, TextPacket(key[q], t))]
                          ELSE net
    BY <1>7 DEF SendText, Kept
  <2> DEFINE t == [by |-> q, n |-> sent[q] + 1, size |-> s]
             x == TextPacket(key[q], t)
  <2>2. t \in Text
    <3>1. sent[q] \in Nat /\ s \in Nat
      BY <2>1, SizesAssumption, Zenon DEF TypeOK
    <3>2. sent[q] + 1 \in Nat
      BY <3>1
    <3> QED BY <3>1, <3>2 DEF Text
  <2>3. x \in Packet /\ x.kind = "T" /\ x.text.n = sent[q] + 1
    <3>1. x.kind = "T" /\ x.text = t /\ t.n = sent[q] + 1
      <4>1. t.n = sent[q] + 1
        OBVIOUS
      <4> HIDE DEF t
      <4> QED BY <4>1 DEF TextPacket
    <3>2. key[q] \in Nat
      BY DEF TypeOK
    <3> HIDE DEF t
    <3> QED BY <2>2, <3>1, <3>2, PacketTypes
  <2>4. sent' = [sent EXCEPT ![q] = @ + 1]
    BY <1>7 DEF SendText
  <2>5. net' = net \/ net' = [net EXCEPT ![Other(q)] = Append(@, x)]
    BY <2>1
  <2>6. UpTo(log'[p], lo)
    <3>0. log[p] \in Seq(LogEntry)
      BY DEF TypeOK
    <3>1. log'[p] = log[p] \/ log'[p] = Append(log[p], Entry("you", t))
      BY <2>1 DEF TypeOK
    <3> HIDE DEF t
    <3>2. CASE log'[p] = Append(log[p], Entry("you", t))
      <4> SUFFICES ASSUME NEW m \in DOMAIN log'[p], Genuine(log'[p][m])
                   PROVE  log'[p][m].text.n <= lo
        BY DEF UpTo
      <4>1. m # Len(log[p]) + 1
        BY <3>0, <3>2 DEF Genuine, Entry
      <4>2. m \in DOMAIN log[p] /\ log'[p][m] = log[p][m]
        BY <3>0, <3>2, <4>1
      <4> QED BY <1>1, <4>2 DEF UpTo
    <3> QED BY <1>1, <3>1, <3>2
  <2> HIDE DEF x, t
  <2>7. CASE q = p
    <3>1. net'[p] = net[p] /\ sent'[o] = sent[o]
      BY <1>0, <2>4, <2>5, <2>7 DEF TypeOK
    <3> QED BY <1>1, <2>6, <3>1
  <2>8. CASE q = o
    <3>1. sent'[o] = sent[o] + 1
      BY <1>0, <2>4, <2>8 DEF TypeOK
    <3>2. net'[p] = net[p] \/ net'[p] = Append(net[p], x)
      BY <1>0, <2>5, <2>8 DEF TypeOK
    <3>3. Ordered(net[p], lo, sent[o] + 1)
      <4>1. \A m \in DOMAIN net[p] : net[p][m].kind = "T" => net[p][m].text.n \in Nat
        BY <1>0, ElementOfSeq DEF Packet, Text
      <4> QED BY <1>0, <1>1, <4>1 DEF Ordered
    <3>4. Ordered(Append(net[p], x), lo, sent[o] + 1)
      BY <1>0, <1>1, <1>b, <2>3, <2>8, OrderedAppend
    <3>5. lo \in 0..sent'[o] /\ Ordered(net'[p], lo, sent'[o])
      <4>1. lo \in 0..sent'[o]
        BY <1>0, <1>b, <3>1
      <4>2. Ordered(net'[p], lo, sent[o] + 1)
        BY <3>2, <3>3, <3>4
      <4> QED BY <3>1, <4>1, <4>2
    <3> QED BY <2>6, <3>5
  <2> QED BY <1>0, <2>7, <2>8
<1>8. ASSUME NEW q \in Peers,
             \/ SelectPeer(q) \/ SelectAnother(q) \/ SelectByDefault(q) \/ Connect(q)
      PROVE  Goal
  BY <1>1, <1>8 DEF SelectPeer, SelectAnother, SelectByDefault, Connect
<1>9. ASSUME NEW q \in Peers, NEW k \in 1..Len(net[q]), net' = Taken(q, k),
             log' = log, sent' = sent
      PROVE  Goal
  <2>1. net'[p] = net[p] \/ (q = p /\ net'[p] = RemoveAt(net[p], k))
    BY <1>9 DEF Taken, TypeOK
  <2>2. Ordered(net'[p], lo, sent[o])
    BY <1>0, <1>1, <1>9, <2>1, OrderedRemove
  <2> QED BY <1>1, <1>9, <2>2
<1>10. ASSUME NEW q \in Peers, NEW n \in Deliverable(q), RecvPublicKey(q, n)
       PROVE  Goal
  <2>1. net' = [Taken(q, n) EXCEPT ![Other(q)] = Append(@, WrappedKey(made + 1))]
    BY <1>10 DEF RecvPublicKey, Answered
  <2>2. \/ q = p /\ net'[p] = RemoveAt(net[p], n)
        \/ net'[p] = Append(net[p], WrappedKey(made + 1))
    BY <1>0, <2>1 DEF Taken, TypeOK
  <2>3. WrappedKey(made + 1) \in Packet /\ WrappedKey(made + 1).kind # "T"
    BY PacketTypes DEF WrappedKey, TypeOK
  <2>4. n \in 1..Len(net[q])
    BY DeliverableIsQueued
  <2>5. Ordered(net'[p], lo, sent[o])
    BY <2>2, <2>3, <2>4, <1>c, <1>d
  <2>6. log' = log /\ sent' = sent
    BY <1>10 DEF RecvPublicKey
  <2> QED BY <1>1, <2>5, <2>6
<1>11. ASSUME NEW q \in Peers, NEW n \in Deliverable(q), RecvWrappedKey(q, n)
       PROVE  Goal
  BY <1>9, <1>11, DeliverableIsQueued DEF RecvWrappedKey
<1>12. ASSUME NEW q \in Peers, NEW n \in Deliverable(q), RecvText(q, n)
       PROVE  Goal
  <2>1. n = 1 /\ 1 \in DOMAIN net[q] /\ net[q][1].kind = "T"
    BY <1>12 DEF Deliverable, RecvText
  <2>2. net' = Taken(q, 1) /\ sent' = sent
    BY <1>12, <2>1 DEF RecvText
  <2>3. CASE q = o
    <3>1. net'[p] = net[p]
      BY <1>0, <2>2, <2>3 DEF Taken, TypeOK
    <3>2. log'[p] = log[p]
      <4>1. PICK added : log' = [log EXCEPT ![q] = log[q] \o added]
        BY <1>12, ReceivedLog, Zenon
      <4> QED BY <1>0, <2>3, <4>1 DEF TypeOK
    <3> QED BY <1>1, <2>2, <3>1, <3>2
  <2>4. CASE q = p
    <3> DEFINE c == net[p][1].text.n
    <3>1. lo < c /\ c <= sent[o] /\ c \in Nat
      <4>1. c \in Nat
        BY <1>0, <2>1, <2>4, ElementOfSeq DEF Packet, Text
      <4> QED BY <1>1, <2>1, <2>4, <4>1 DEF Ordered
    <3>2. Ordered(net'[p], c, sent[o])
      <4>1. net'[p] = RemoveAt(net[p], 1)
        BY <2>2, <2>4 DEF Taken, TypeOK
      <4> QED BY <1>0, <1>1, <2>1, <2>4, <4>1, OrderedHead
    <3>3. UpTo(log'[p], c)
      <4> SUFFICES ASSUME NEW m \in DOMAIN log'[p], Genuine(log'[p][m])
                   PROVE  log'[p][m].text.n <= c
        BY DEF UpTo
      <4>1. CASE m \in DOMAIN log[p] /\ log'[p][m] = log[p][m]
        <5>1. log[p][m].text.n <= lo /\ log[p][m].text.n \in Nat
          <6>1. log[p] \in Seq(LogEntry)
            BY DEF TypeOK
          <6>2. log[p][m] \in LogEntry /\ Genuine(log[p][m])
            BY <4>1, <6>1, ElementOfSeq, LenProperties
          <6>3. log[p][m].text.n \in Nat
            BY <6>2 DEF Genuine, LogEntry, Text
          <6> QED BY <1>1, <4>1, <6>2, <6>3 DEF UpTo
        <5> QED BY <3>1, <4>1, <5>1
      <4>2. CASE \E k \in Deliverable(p) : log'[p][m].text = net[p][k].text
        <5>1. \A k \in Deliverable(p) : k = 1
          BY DEF Deliverable
        <5> QED BY <3>1, <4>2, <5>1
      <4> QED BY <4>1, <4>2, LogStep
    <3> QED BY <1>0, <2>2, <3>1, <3>2, <3>3
  <2> QED BY <1>0, <2>3, <2>4
<1>13. ASSUME NEW q \in Peers, Lose(q)
       PROVE  Goal
  <2>1. PICK k \in DOMAIN net[q] : net' = Taken(q, k)
    BY <1>13 DEF Lose
  <2>2. k \in 1..Len(net[q])
    BY LenProperties DEF TypeOK
  <2> QED BY <1>9, <1>13, <2>1, <2>2 DEF Lose
<1>14. ASSUME NEW q \in Peers, NEW queue, Restarted(q, queue), q # p
       PROVE  Goal
  <2>1. net'[p] = net[p] /\ log' = log /\ sent' = sent
    BY <1>14 DEF Restarted, TypeOK
  <2> QED BY <1>1, <2>1
<1>15. ASSUME NEW q \in Peers, Crash(q)
       PROVE  Goal
  BY <1>0, <1>1, <1>4, <1>14, <1>15 DEF Crash
<1>16. ASSUME NEW q \in Peers, CrashWritingKey(q)
       PROVE  Goal
  <2>1. PICK k \in Deliverable(q) : Restarted(q, RemoveAt(net[q], k))
    BY <1>16 DEF CrashWritingKey
  <2>2. CASE q = p
    <3>1. k \in 1..Len(net[p])
      BY <2>1, <2>2, DeliverableIsQueued
    <3>2. RemoveAt(net[p], k) \in Seq(Packet) /\ Ordered(RemoveAt(net[p], k), lo, sent[o])
      BY <1>0, <1>1, <3>1, RemoveAtProperties, OrderedRemove
    <3> QED BY <1>4, <2>1, <2>2, <3>2
  <2> QED BY <1>14, <2>1, <2>2
<1>17. \A q \in Peers : ~Duplicate(q)
  BY DEF Duplicate
<1> QED BY <1>5, <1>6, <1>7, <1>8, <1>10, <1>11, <1>12, <1>13, <1>15, <1>16, <1>17
        DEF Next, Receive

LEMMA InOrderInductive ==
  ASSUME Faults \subseteq {"loss", "crash"}, TypeOK, OrderInv, InOrder, [Next]_vars
  PROVE  InOrder'
<1> SUFFICES ASSUME NEW p \in Peers, NEW m \in DOMAIN log'[p], NEW n \in DOMAIN log'[p],
                    m < n, Genuine(log'[p][m]), Genuine(log'[p][n])
             PROVE  log'[p][m].text.n < log'[p][n].text.n
  BY DEF InOrder
<1>1. PICK lo \in 0..sent[Other(p)] :
        UpTo(log[p], lo) /\ Ordered(net[p], lo, sent[Other(p)])
  BY DEF OrderInv
<1>2. log[p] \in Seq(LogEntry) /\ DOMAIN log[p] = 1..Len(log[p]) /\ Len(log[p]) \in Nat
      /\ m \in Nat /\ n \in Nat
  <2>1. log[p] \in Seq(LogEntry) /\ log'[p] \in Seq(LogEntry)
    BY TypeInductive DEF TypeOK
  <2>2. /\ DOMAIN log[p] = 1..Len(log[p]) /\ Len(log[p]) \in Nat
        /\ DOMAIN log'[p] = 1..Len(log'[p]) /\ Len(log'[p]) \in Nat
    BY <2>1, LenProperties, Zenon
  <2> QED BY <2>1, <2>2
<1>3. CASE n \in DOMAIN log[p] /\ log'[p][n] = log[p][n]
  <2>1. m \in DOMAIN log[p] /\ log'[p][m] = log[p][m]
    <3>1. m # Len(log[p]) + 1
      BY <1>2, <1>3
    <3>2. \/ m \in DOMAIN log[p] /\ log'[p][m] = log[p][m]
          \/ \E k \in Deliverable(p) :
               /\ RecvText(p, k)
               /\ m = Len(log[p]) + 1
               /\ log'[p][m].text = net[p][k].text
      BY LogStep
    <3> QED BY <3>1, <3>2
  <2> QED BY <1>3, <2>1 DEF InOrder
<1>4. ASSUME NEW k \in Deliverable(p), RecvText(p, k), n = Len(log[p]) + 1,
             log'[p][n].text = net[p][k].text
      PROVE  log'[p][m].text.n < log'[p][n].text.n
  <2>1. m \in DOMAIN log[p] /\ log'[p][m] = log[p][m]
    <3>1. m # Len(log[p]) + 1
      BY <1>2, <1>4
    <3> QED BY <3>1, LogStep
  <2>2. log[p][m].text.n <= lo /\ log[p][m].text.n \in Nat
    <3>1. log[p][m] \in LogEntry /\ Genuine(log[p][m])
      BY <1>2, <2>1, ElementOfSeq
    <3> QED BY <1>1, <2>1, <3>1 DEF UpTo, Genuine, LogEntry, Text
  <2>3. lo < net[p][k].text.n
    <3>1. k \in DOMAIN net[p] /\ net[p][k].kind = "T"
      BY <1>4, Zenon DEF Deliverable, RecvText
    <3> QED BY <1>1, <3>1 DEF Ordered
  <2>4. net[p][k].text.n \in Nat
    <3>1. net[p][k] \in Packet /\ net[p][k].kind = "T"
      BY <1>4, DeliverableIsQueued DEF RecvText
    <3> QED BY <3>1 DEF Packet, Text
  <2>5. lo \in Nat
    BY OtherPeer DEF TypeOK
  <2> QED BY <1>4, <2>1, <2>2, <2>3, <2>4, <2>5
<1> QED BY <1>3, <1>4, LogStep

LEMMA OrderInit == Init => OrderInv
<1> SUFFICES ASSUME Init
             PROVE  OrderInv
  OBVIOUS
<1>1. \A p \in Peers : log[p] = <<>> /\ net[p] = <<>> /\ sent[Other(p)] = 0
  BY OtherPeer DEF Init
<1>2. \A p \in Peers : UpTo(log[p], 0) /\ Ordered(net[p], 0, sent[Other(p)])
  BY <1>1 DEF UpTo, Ordered
<1> QED BY <1>1, <1>2 DEF OrderInv

(* If packets are neither duplicated nor reordered, each history shows the *)
(* friend's texts in the order they were written, none twice, whatever is  *)
(* lost, whatever keys are exchanged and whenever a client restarts.       *)
THEOREM TextsInOrder ==
  ASSUME Faults \subseteq {"loss", "crash"}
  PROVE  Spec => []InOrder
<1>1. Init => OrderInv /\ InOrder
  <2>1. Init => InOrder
    BY DEF Init, InOrder
  <2> QED BY <2>1, OrderInit
<1>2. TypeOK /\ OrderInv /\ InOrder /\ [Next]_vars => OrderInv' /\ InOrder'
  BY OrderInductive, InOrderInductive
<1> QED BY <1>1, <1>2, TypeCorrect, PTL DEF Spec

----------------------------------------------------------------------------
(* One initiator on a faultless network: what is sent to it can be read.    *)

(* k is the key a file holds that held k0 when the n-th packet of queue q  *)
(* has its turn.                                                           *)
HoldsAt(q, k0, n, k) ==
  \/ k = k0 /\ \A j \in DOMAIN q : j < n => q[j].kind # "A"
  \/ \E m \in DOMAIN q :
       /\ m < n /\ q[m].kind = "A" /\ q[m].key = k
       /\ \A j \in DOMAIN q : m < j /\ j < n => q[j].kind # "A"

(* The texts in queue q were written one after the other under key k0 and  *)
(* then under the key of each answer between them, up to key last.         *)
Written(q, k0, last) ==
  /\ \A n \in DOMAIN q : q[n].kind = "T" => HoldsAt(q, k0, n, q[n].key)
  /\ HoldsAt(q, k0, Len(q) + 1, last)

LEMMA KeyAtIs ==
  ASSUME TypeOK, NEW p \in Peers, NEW n \in DOMAIN net[p], NEW k,
         HoldsAt(net[p], key[p], n, k)
  PROVE  KeyAt(p, n) = k
<1> DEFINE answers == {m \in 1..(n - 1) : net[p][m].kind = "A"}
<1>0. net[p] \in Seq(Packet) /\ Len(net[p]) \in Nat /\ DOMAIN net[p] = 1..Len(net[p])
  BY LenProperties DEF TypeOK
<1>1. \A m \in 1..(n - 1) : m \in DOMAIN net[p] /\ m < n
  BY <1>0
<1>2. KeyAt(p, n) = IF answers = {} THEN key[p] ELSE net[p][Max(answers)].key
  BY DEF KeyAt
<1>3. CASE k = key[p] /\ \A j \in DOMAIN net[p] : j < n => net[p][j].kind # "A"
  <2>1. answers = {}
    BY <1>1, <1>3
  <2> QED BY <1>2, <1>3, <2>1
<1>4. CASE \E m \in DOMAIN net[p] :
             /\ m < n /\ net[p][m].kind = "A" /\ net[p][m].key = k
             /\ \A j \in DOMAIN net[p] : m < j /\ j < n => net[p][j].kind # "A"
  <2>1. PICK m \in DOMAIN net[p] :
             /\ m < n /\ net[p][m].kind = "A" /\ net[p][m].key = k
             /\ \A j \in DOMAIN net[p] : m < j /\ j < n => net[p][j].kind # "A"
    BY <1>4
  <2>2. m \in Nat /\ m \in answers
    BY <1>0, <2>1
  <2>3. \A x \in answers : x \in 1..m
    <3> SUFFICES ASSUME NEW x \in answers PROVE x \in 1..m
      OBVIOUS
    <3>1. x \in DOMAIN net[p] /\ x < n /\ net[p][x].kind = "A"
      BY <1>1
    <3>2. ~(m < x)
      BY <2>1, <3>1
    <3> QED BY <1>0, <2>2, <3>1, <3>2
  <2> HIDE DEF answers
  <2>4. Max(answers) = m
    BY <2>2, <2>3, GreatestOf
  <2> QED BY <1>2, <2>1, <2>2, <2>4
<1> QED BY <1>3, <1>4 DEF HoldsAt

(* What one more packet, or the head taken, makes of such a queue.         *)
LEMMA WrittenAppend ==
  ASSUME NEW q \in Seq(Packet), NEW k0, NEW last, Written(q, k0, last),
         NEW x \in Packet
  PROVE  /\ x.kind = "T" /\ x.key = last => Written(Append(q, x), k0, last)
         /\ x.kind = "A" => Written(Append(q, x), k0, x.key)
<1> DEFINE a == Append(q, x)
<1>1. /\ Len(q) \in Nat
      /\ DOMAIN q = 1..Len(q)
      /\ DOMAIN a = 1..(Len(q) + 1)
      /\ Len(a) = Len(q) + 1
      /\ \A i \in 1..Len(q) : a[i] = q[i]
      /\ a[Len(q) + 1] = x
  BY LenProperties
<1> PICK N \in Nat : N = Len(q)
  BY <1>1
<1> HIDE DEF a
<1>2. ASSUME NEW n \in 1..(N + 1), NEW k, HoldsAt(q, k0, n, k)
      PROVE  HoldsAt(a, k0, n, k)
  <2>1. \A j \in DOMAIN a : j < n => j \in DOMAIN q /\ a[j] = q[j]
    BY <1>1
  <2>2. \A j \in DOMAIN q : j \in DOMAIN a /\ a[j] = q[j]
    BY <1>1
  <2> QED BY <1>2, <2>1, <2>2 DEF HoldsAt
<1>3. \A n \in DOMAIN q : n \in 1..(N + 1) /\ a[n] = q[n]
  BY <1>1
<1>4. \A n \in DOMAIN a : n = N + 1 \/ n \in DOMAIN q
  BY <1>1
<1>5. \A n \in DOMAIN q : q[n].kind = "T" => HoldsAt(a, k0, n, a[n].key)
  BY <1>2, <1>3 DEF Written
<1>6. HoldsAt(a, k0, N + 1, last)
  BY <1>2 DEF Written
<1>7. ASSUME x.kind = "T", x.key = last
      PROVE  Written(a, k0, last)
  <2>1. \A n \in DOMAIN a : a[n].kind = "T" => HoldsAt(a, k0, n, a[n].key)
    BY <1>1, <1>3, <1>4, <1>5, <1>6, <1>7
  <2>2. \A j \in DOMAIN a : j < N + 2 => j < N + 1 \/ j = N + 1
    BY <1>1
  <2>3. \A j \in DOMAIN a : j < N + 1 => j < N + 2
    BY <1>1
  <2>4. a[N + 1].kind # "A"
    BY <1>1, <1>7
  <2>5. HoldsAt(a, k0, N + 2, last)
    BY <1>6, <2>2, <2>3, <2>4 DEF HoldsAt
  <2>6. Len(a) + 1 = N + 2
    BY <1>1
  <2> QED BY <2>1, <2>5, <2>6 DEF Written
<1>8. ASSUME x.kind = "A"
      PROVE  Written(a, k0, x.key)
  <2>1. \A n \in DOMAIN a : a[n].kind = "T" => HoldsAt(a, k0, n, a[n].key)
    BY <1>1, <1>3, <1>4, <1>5, <1>8
  <2>2. N + 1 \in DOMAIN a /\ N + 1 < N + 2 /\ a[N + 1] = x
    BY <1>1
  <2>3. \A j \in DOMAIN a : ~(N + 1 < j)
    BY <1>1
  <2>4. HoldsAt(a, k0, N + 2, x.key)
    BY <1>8, <2>2, <2>3 DEF HoldsAt
  <2>6. Len(a) + 1 = N + 2
    BY <1>1
  <2> QED BY <2>1, <2>4, <2>6 DEF Written
<1> QED BY <1>7, <1>8 DEF a

LEMMA WrittenHead ==
  ASSUME NEW q \in Seq(Packet), 1 \in DOMAIN q, NEW k0, NEW last,
         Written(q, k0, last)
  PROVE  /\ q[1].kind # "A" => Written(RemoveAt(q, 1), k0, last)
         /\ q[1].kind = "A" => Written(RemoveAt(q, 1), q[1].key, last)
         /\ q[1].kind = "T" => q[1].key = k0
<1> DEFINE rest == RemoveAt(q, 1)
<1>1. Len(q) \in Nat /\ DOMAIN q = 1..Len(q) /\ 1 \in 1..Len(q)
  BY LenProperties
<1>2. /\ rest \in Seq(Packet)
      /\ Len(rest) = Len(q) - 1
      /\ \A i \in 1..(Len(q) - 1) : rest[i] = IF i < 1 THEN q[i] ELSE q[i + 1]
  BY <1>1, RemoveAtProperties
<1>3. DOMAIN rest = 1..(Len(q) - 1)
  BY <1>2, LenProperties
<1> HIDE DEF rest
<1>4. \A i \in DOMAIN rest : i \in Nat /\ i + 1 \in DOMAIN q /\ rest[i] = q[i + 1] /\ 1 < i + 1
  BY <1>1, <1>2, <1>3
<1>5. \A j \in DOMAIN q : j \in Nat /\ (j # 1 => j - 1 \in DOMAIN rest /\ rest[j - 1] = q[j] /\ 1 < j)
  BY <1>1, <1>2, <1>3
<1> DEFINE k1 == IF q[1].kind = "A" THEN q[1].key ELSE k0
<1>6. ASSUME NEW n \in Nat, 1 <= n, NEW k, HoldsAt(q, k0, n + 1, k)
      PROVE  HoldsAt(rest, k1, n, k)
  <2>0. \A j \in DOMAIN rest : j < n => j + 1 < n + 1
    BY <1>4
  <2>1. CASE k = k0 /\ \A j \in DOMAIN q : j < n + 1 => q[j].kind # "A"
    <3>1. 1 < n + 1
      BY <1>6
    <3>2. \A j \in DOMAIN rest : j < n => rest[j].kind # "A"
      BY <1>4, <2>0, <2>1
    <3> QED BY <2>1, <3>1, <3>2 DEF HoldsAt
  <2>2. CASE \E m \in DOMAIN q :
               /\ m < n + 1 /\ q[m].kind = "A" /\ q[m].key = k
               /\ \A j \in DOMAIN q : m < j /\ j < n + 1 => q[j].kind # "A"
    <3>1. PICK m \in DOMAIN q :
               /\ m < n + 1 /\ q[m].kind = "A" /\ q[m].key = k
               /\ \A j \in DOMAIN q : m < j /\ j < n + 1 => q[j].kind # "A"
      BY <2>2
    <3>2. CASE m = 1
      <4>1. \A j \in DOMAIN rest : j < n => rest[j].kind # "A"
        BY <1>4, <2>0, <3>1, <3>2
      <4> QED BY <3>1, <3>2, <4>1 DEF HoldsAt
    <3>3. CASE m # 1
      <4>1. m - 1 \in DOMAIN rest /\ rest[m - 1] = q[m] /\ m - 1 < n
        BY <1>5, <1>6, <3>1, <3>3
      <4>2. \A j \in DOMAIN rest : m - 1 < j /\ j < n => rest[j].kind # "A"
        <5> SUFFICES ASSUME NEW j \in DOMAIN rest, m - 1 < j, j < n
                     PROVE  rest[j].kind # "A"
          OBVIOUS
        <5>1. m < j + 1 /\ j + 1 < n + 1
          BY <1>4, <1>5, <1>6
        <5> QED BY <1>4, <3>1, <5>1
      <4> QED BY <3>1, <4>1, <4>2 DEF HoldsAt
    <3> QED BY <3>2, <3>3
  <2> QED BY <1>6, <2>1, <2>2 DEF HoldsAt
<1>7. \A n \in DOMAIN rest : rest[n].kind = "T" => HoldsAt(rest, k1, n, rest[n].key)
  <2> SUFFICES ASSUME NEW n \in DOMAIN rest, rest[n].kind = "T"
               PROVE  HoldsAt(rest, k1, n, rest[n].key)
    OBVIOUS
  <2>1. n \in Nat /\ 1 <= n /\ n + 1 \in DOMAIN q /\ rest[n] = q[n + 1]
    BY <1>3, <1>4
  <2>2. HoldsAt(q, k0, n + 1, rest[n].key)
    BY <2>1 DEF Written
  <2> HIDE DEF k1
  <2> QED BY <1>6, <2>1, <2>2
<1>8. HoldsAt(rest, k1, Len(rest) + 1, last)
  <2>1. Len(rest) + 1 \in Nat /\ 1 <= Len(rest) + 1 /\ Len(rest) + 1 = Len(q)
    BY <1>1, <1>2
  <2>2. HoldsAt(q, k0, Len(q) + 1, last)
    BY DEF Written
  <2> HIDE DEF k1
  <2> QED BY <1>1, <1>6, <2>1, <2>2
<1>9. Written(rest, k1, last)
  BY <1>7, <1>8 DEF Written
<1>10. q[1].kind = "T" => q[1].key = k0
  <2>1. \A j \in DOMAIN q : ~(j < 1)
    BY <1>1
  <2> QED BY <2>1 DEF Written, HoldsAt
<1> QED BY <1>9, <1>10 DEF rest

(* The texts a history shows as the friend's, those it shows as one's own, *)
(* and those on their way.                                                 *)
Heard(p) == {log[p][m].text : m \in {k \in DOMAIN log[p] : Genuine(log[p][k])}}
Said(p) == {log[p][m].text : m \in {k \in DOMAIN log[p] : log[p][k].who = "you"}}
Coming(p) == {net[p][m].text : m \in {k \in DOMAIN net[p] : net[p][k].kind = "T"}}

(* What the initiator i can see a step do: nothing; the friend writes a    *)
(* text, and sends it if it is connected; the friend answers a public key; *)
(* i takes a key, or a text, from the head of its queue; or loses it while *)
(* it is not connected.                                                    *)
KeysStay(i) == key'[i] = key[i] /\ key'[Other(i)] = key[Other(i)] /\ made' = made
TextsStay(i) == Heard(i)' = Heard(i) /\ Said(Other(i))' = Said(Other(i))
                                     /\ sent'[Other(i)] = sent[Other(i)]

NothingSeen(i) == net'[i] = net[i] /\ KeysStay(i) /\ TextsStay(i)

FriendWrites(i, t) ==
  /\ t.n = sent[Other(i)] + 1 /\ sent'[Other(i)] = sent[Other(i)] + 1
  /\ Said(Other(i))' = Said(Other(i)) \cup {t} /\ Heard(i)' = Heard(i)
  /\ net'[i] = IF Other(i) \in up THEN Append(net[i], TextPacket(key[Other(i)], t))
                                  ELSE net[i]
  /\ KeysStay(i)

FriendAnswers(i) ==
  /\ net'[i] = Append(net[i], WrappedKey(made + 1))
  /\ key'[i] = key[i] /\ key'[Other(i)] = made + 1 /\ made' = made + 1
  /\ TextsStay(i)

HeadTakenBy(i) == 1 \in DOMAIN net[i] /\ net'[i] = RemoveAt(net[i], 1)

TakesKey(i) ==
  /\ HeadTakenBy(i) /\ net[i][1].kind = "A"
  /\ key'[i] = net[i][1].key /\ key'[Other(i)] = key[Other(i)] /\ made' = made
  /\ TextsStay(i)

TakesText(i) ==
  /\ HeadTakenBy(i) /\ net[i][1].kind = "T" /\ i \in up
  /\ KeysStay(i)
  /\ Said(Other(i))' = Said(Other(i)) /\ sent'[Other(i)] = sent[Other(i)]
  /\ \E texts \in Readings(net[i][1], key[i]) :
       Heard(i)' = Heard(i) \cup ({texts[j] : j \in DOMAIN texts} \ {Garbage})

LosesHead(i) ==
  /\ HeadTakenBy(i) /\ net[i][1].kind # "A" /\ i \notin up
  /\ KeysStay(i) /\ TextsStay(i)

Seen(i) ==
  \/ NothingSeen(i) \/ (\E t \in Text : FriendWrites(i, t)) \/ FriendAnswers(i)
  \/ TakesKey(i) \/ TakesText(i) \/ LosesHead(i)

(* What is behind the head moves up.                                       *)
LEMMA BehindHead ==
  ASSUME TypeOK, NEW i \in Peers, HeadTakenBy(i)
  PROVE  /\ \A n \in DOMAIN net'[i] :
              n + 1 \in DOMAIN net[i] /\ 1 < n + 1 /\ net'[i][n] = net[i][n + 1]
         /\ \A n \in DOMAIN net[i] :
              n # 1 => n - 1 \in DOMAIN net'[i] /\ net'[i][n - 1] = net[i][n]
<1>1. /\ Len(net[i]) \in Nat
      /\ net[i] \in Seq(Packet)
      /\ DOMAIN net[i] = 1..Len(net[i])
      /\ 1 \in 1..Len(net[i])
  BY LenProperties DEF TypeOK, HeadTakenBy
<1>2. /\ net'[i] \in Seq(Packet)
      /\ Len(net'[i]) = Len(net[i]) - 1
      /\ \A n \in 1..(Len(net[i]) - 1) :
           net'[i][n] = IF n < 1 THEN net[i][n] ELSE net[i][n + 1]
  BY <1>1, RemoveAtProperties DEF HeadTakenBy
<1>3. DOMAIN net'[i] = 1..(Len(net[i]) - 1)
  BY <1>2, LenProperties
<1>4. \A n \in DOMAIN net'[i] : n \in Nat /\ ~(n < 1) /\ 1 < n + 1
  BY <1>1, <1>3
<1>5. \A n \in DOMAIN net'[i] : net'[i][n] = net[i][n + 1]
  BY <1>2, <1>3, <1>4
<1>6. \A n \in DOMAIN net'[i] : n + 1 \in DOMAIN net[i]
  BY <1>1, <1>3
<1>7. ASSUME NEW n \in DOMAIN net[i], n # 1
      PROVE  n - 1 \in DOMAIN net'[i] /\ net'[i][n - 1] = net[i][n]
  <2>1. n - 1 \in DOMAIN net'[i] /\ n - 1 + 1 = n
    BY <1>1, <1>3, <1>7
  <2>2. net'[i][n - 1] = net[i][n - 1 + 1]
    BY <1>5, <2>1
  <2> QED BY <2>1, <2>2
<1> QED BY <1>4, <1>5, <1>6, <1>7

(* One more entry in a history.                                            *)
LEMMA HistoryGrows ==
  ASSUME TypeOK, NEW p \in Peers, NEW who \in {"you", "friend"},
         NEW t \in Text \cup {Garbage}, log'[p] = Append(log[p], Entry(who, t))
  PROVE  /\ Said(p)' = IF who = "you" THEN Said(p) \cup {t} ELSE Said(p)
         /\ Heard(p)' = IF who = "friend" /\ t # Garbage THEN Heard(p) \cup {t} ELSE Heard(p)
<1>1. /\ Len(log[p]) \in Nat
      /\ DOMAIN log[p] = 1..Len(log[p])
      /\ DOMAIN log'[p] = 1..(Len(log[p]) + 1)
      /\ \A m \in 1..Len(log[p]) : log'[p][m] = log[p][m]
      /\ log'[p][Len(log[p]) + 1] = Entry(who, t)
  BY LenProperties DEF TypeOK
<1>2. PICK N \in DOMAIN log'[p] : /\ \A m \in DOMAIN log'[p] : m = N \/ m \in DOMAIN log[p]
                                  /\ \A m \in DOMAIN log[p] : m \in DOMAIN log'[p] /\ log'[p][m] = log[p][m]
                                  /\ log'[p][N] = Entry(who, t)
  <2>1. Len(log[p]) + 1 \in DOMAIN log'[p]
    BY <1>1
  <2> QED BY <1>1, <2>1
<1>3. Entry(who, t).who = who /\ Entry(who, t).text = t
  BY DEF Entry
<1>4. Genuine(Entry(who, t)) <=> who = "friend" /\ t # Garbage
  BY <1>3 DEF Genuine
<1> QED BY <1>2, <1>3, <1>4 DEF Said, Heard

LEMMA HistorySame ==
  ASSUME NEW p, log'[p] = log[p]
  PROVE  Said(p)' = Said(p) /\ Heard(p)' = Heard(p)
BY DEF Said, Heard

LEMMA SeesStep ==
  ASSUME NEW i \in Peers, Initiators \subseteq {i}, Faults = {},
         TypeOK, ExchangeInv(i), [Next]_vars
  PROVE  Seen(i)
<1> DEFINE r == Other(i)
<1>0. /\ r \in Peers /\ r # i /\ Other(r) = i
      /\ \A q \in Peers : q = i \/ q = r
      /\ net[i] \in Seq(Packet) /\ net[r] \in Seq(Packet)
      /\ made \in Nat
  BY OtherPeer DEF Other, Peers, TypeOK
<1>a. /\ ~Has(net[i], "P") /\ ~Has(net[r], "A")
      /\ Has(net[i], "A") => i \in up
  BY DEF ExchangeInv
<1>b. ASSUME net'[i] = net[i], UNCHANGED <<key, made, log, sent>>
      PROVE  Seen(i)
  <2>1. NothingSeen(i)
    BY <1>b, HistorySame DEF NothingSeen, KeysStay, TextsStay
  <2> QED BY <2>1 DEF Seen
<1>1. CASE UNCHANGED vars
  BY <1>b, <1>1 DEF vars
<1>2. ASSUME NEW p \in Peers, ExchangeKeys(p)
      PROVE  Seen(i)
  <2>1. p = i
    BY <1>2 DEF ExchangeKeys
  <2>2. net'[i] = net[i]
    BY <1>0, <1>2, <2>1 DEF ExchangeKeys, TypeOK
  <2> QED BY <1>b, <1>2, <2>2 DEF ExchangeKeys
<1>3. ASSUME NEW p \in Peers, SendText(p)
      PROVE  Seen(i)
  <2>1. PICK s \in Sizes :
          LET t == [by |-> p, n |-> sent[p] + 1, size |-> s]
          IN  /\ log' = [log EXCEPT ![p] = Append(log[p], Entry("you", t))]
              /\ net' = IF p \in up
                          THEN [net EXCEPT ![Other(p)] = Append(@, TextPacket(key[p], t))]
                          ELSE net
    BY <1>3 DEF SendText, Kept
  <2> DEFINE t == [by |-> p, n |-> sent[p] + 1, size |-> s]
  <2>2. t \in Text /\ t.n = sent[p] + 1
    BY SizesAssumption DEF TypeOK, Text
  <2>3. /\ sent' = [sent EXCEPT ![p] = @ + 1]
        /\ key' = key /\ made' = made
        /\ log' = [log EXCEPT ![p] = Append(log[p], Entry("you", t))]
        /\ net' = IF p \in up
                    THEN [net EXCEPT ![Other(p)] = Append(@, TextPacket(key[p], t))]
                    ELSE net
    BY <1>3, <2>1 DEF SendText
  <2> HIDE DEF t
  <2>4. log'[p] = Append(log[p], Entry("you", t)) /\ \A q \in Peers : q # p => log'[q] = log[q]
    BY <2>3 DEF TypeOK
  <2>5. Said(p)' = Said(p) \cup {t} /\ Heard(p)' = Heard(p)
    BY <2>2, <2>4, HistoryGrows
  <2>6. CASE p = i
    <3>1. net'[i] = net[i] /\ sent'[r] = sent[r] /\ log'[r] = log[r]
      BY <1>0, <2>3, <2>4, <2>6 DEF TypeOK
    <3>2. Said(r)' = Said(r)
      BY <3>1, HistorySame
    <3>3. NothingSeen(i)
      BY <2>3, <2>5, <2>6, <3>1, <3>2 DEF NothingSeen, KeysStay, TextsStay
    <3> QED BY <3>3 DEF Seen
  <2>7. CASE p = r
    <3>1. /\ net'[i] = IF r \in up THEN Append(net[i], TextPacket(key[r], t)) ELSE net[i]
          /\ sent'[r] = sent[r] + 1 /\ log'[i] = log[i]
      BY <1>0, <2>3, <2>4, <2>7 DEF TypeOK
    <3>2. Heard(i)' = Heard(i)
      BY <3>1, HistorySame
    <3>3. FriendWrites(i, t)
      BY <2>2, <2>3, <2>5, <2>7, <3>1, <3>2 DEF FriendWrites, KeysStay
    <3> QED BY <2>2, <3>3 DEF Seen
  <2> QED BY <1>0, <2>6, <2>7
<1>4. ASSUME NEW p \in Peers,
             \/ SelectPeer(p) \/ SelectAnother(p) \/ SelectByDefault(p) \/ Connect(p)
      PROVE  Seen(i)
  BY <1>b, <1>4 DEF SelectPeer, SelectAnother, SelectByDefault, Connect
<1>5. ASSUME NEW p \in Peers, NEW n \in Deliverable(p)
      PROVE  /\ n = 1
             /\ p \in up
             /\ 1 \in DOMAIN net[p]
             /\ Taken(p, n)[p] = RemoveAt(net[p], 1)
             /\ \A q \in Peers : q # p => Taken(p, n)[q] = net[q]
             /\ Taken(p, n) \in [Peers -> Seq(Packet)]
  <2>1. n = 1 /\ p \in up /\ 1 \in DOMAIN net[p]
    BY <1>5 DEF Deliverable
  <2>2. Taken(p, n)[p] = RemoveAt(net[p], 1) /\ \A q \in Peers : q # p => Taken(p, n)[q] = net[q]
    BY <2>1 DEF Taken, TypeOK
  <2>3. Taken(p, n) \in [Peers -> Seq(Packet)]
    BY DeliverableIsQueued, TakenType
  <2> QED BY <2>1, <2>2, <2>3
<1>6. ASSUME NEW p \in Peers, NEW n \in Deliverable(p), RecvPublicKey(p, n)
      PROVE  Seen(i)
  <2>1. p = r
    BY <1>0, <1>a, <1>5, <1>6 DEF RecvPublicKey, Has
  <2>2. WrappedKey(made + 1) \in Packet
    BY <1>0, PacketTypes
  <2>3. net'[i] = Append(net[i], WrappedKey(made + 1))
    <3> DEFINE q == Taken(p, n)
    <3>1. net' = [q EXCEPT ![i] = Append(q[i], WrappedKey(made + 1))]
      BY <1>0, <1>6, <2>1 DEF RecvPublicKey, Answered
    <3>2. q \in [Peers -> Seq(Packet)] /\ q[i] = net[i]
      BY <1>0, <1>5, <2>1
    <3> HIDE DEF q
    <3> QED BY <1>0, <3>1, <3>2
  <2>4. /\ key'[r] = made + 1 /\ key'[i] = key[i] /\ made' = made + 1
        /\ sent' = sent /\ log' = log
    BY <1>0, <1>6, <2>1 DEF RecvPublicKey, TypeOK
  <2>5. FriendAnswers(i)
    BY <2>3, <2>4, HistorySame DEF FriendAnswers, TextsStay
  <2> QED BY <2>5 DEF Seen
<1>7. ASSUME NEW p \in Peers, NEW n \in Deliverable(p), RecvWrappedKey(p, n)
      PROVE  Seen(i)
  <2>1. p = i
    BY <1>0, <1>a, <1>5, <1>7 DEF RecvWrappedKey, Has
  <2>2. net'[i] = RemoveAt(net[i], 1)
    BY <1>0, <1>5, <1>7, <2>1 DEF RecvWrappedKey
  <2>3. 1 \in DOMAIN net[i] /\ net[i][1].kind = "A"
    BY <1>5, <1>7, <2>1 DEF RecvWrappedKey
  <2>4. /\ key'[i] = net[i][1].key /\ key'[r] = key[r] /\ made' = made
        /\ sent' = sent /\ log' = log
    BY <1>0, <1>5, <1>7, <2>1 DEF RecvWrappedKey, Adopted, TypeOK
  <2>5. TakesKey(i)
    BY <2>2, <2>3, <2>4, HistorySame DEF TakesKey, HeadTakenBy, TextsStay
  <2> QED BY <2>5 DEF Seen
<1>8. ASSUME NEW p \in Peers, NEW n \in Deliverable(p), RecvText(p, n)
      PROVE  Seen(i)
  <2>1. /\ n = 1 /\ net[p][1].kind = "T" /\ p \in up /\ 1 \in DOMAIN net[p]
        /\ net'[p] = RemoveAt(net[p], 1)
        /\ \A q \in Peers : q # p => net'[q] = net[q]
        /\ key' = key /\ made' = made /\ sent' = sent
    BY <1>5, <1>8 DEF RecvText
  <2>2. PICK texts \in Readings(net[p][1], key[p]) :
          log' = [log EXCEPT ![p] = @ \o [j \in 1..Len(texts) |-> Entry("friend", texts[j])]]
    BY <1>8, <2>1 DEF RecvText
  <2> DEFINE added == [j \in 1..Len(texts) |-> Entry("friend", texts[j])]
             read == {texts[j] : j \in DOMAIN texts} \ {Garbage}
  <2>3. net[p][1] \in Packet /\ key[p] \in Nat /\ log[p] \in Seq(LogEntry)
    BY <2>1, DeliverableIsQueued, ElementOfSeq, LenProperties DEF TypeOK
  <2>4. log'[p] = log[p] \o added /\ \A q \in Peers : q # p => log'[q] = log[q]
    BY <2>2 DEF TypeOK
  <2>5. Said(p)' = Said(p) /\ Heard(p)' = Heard(p) \cup read
    <3>1. CASE texts = <<>>
      <4>1. added = <<>> /\ read = {}
        BY <3>1
      <4>2. log'[p] = log[p]
        BY <2>3, <2>4, <4>1, ConcatEmptySeq
      <4> QED BY <4>1, <4>2, HistorySame
    <3>2. ASSUME NEW t \in Text \cup {Garbage}, texts = <<t>>
          PROVE  Said(p)' = Said(p) /\ Heard(p)' = Heard(p) \cup read
      <4>1. added = <<Entry("friend", t)>> /\ read = {t} \ {Garbage}
        BY <3>2
      <4>2. log'[p] = Append(log[p], Entry("friend", t))
        <5>1. log'[p] = log[p] \o <<Entry("friend", t)>>
          BY <2>4, <4>1
        <5>2. log[p] \o <<Entry("friend", t)>> = Append(log[p], Entry("friend", t))
          BY <2>3
        <5> QED BY <5>1, <5>2
      <4>3. /\ Said(p)' = Said(p)
            /\ Heard(p)' = IF t # Garbage THEN Heard(p) \cup {t} ELSE Heard(p)
        BY <4>2, HistoryGrows
      <4> QED BY <4>1, <4>3
    <3> QED BY <2>1, <2>3, <3>1, <3>2, ReadingsAre
  <2> HIDE DEF added
  <2>6. CASE p = i
    <3>1. log'[r] = log[r]
      BY <1>0, <2>4, <2>6
    <3>2. Said(r)' = Said(r)
      BY <3>1, HistorySame
    <3>3. TakesText(i)
      BY <2>1, <2>5, <2>6, <3>2 DEF TakesText, HeadTakenBy, KeysStay
    <3> QED BY <3>3 DEF Seen
  <2>7. CASE p = r
    <3>1. log'[i] = log[i] /\ net'[i] = net[i]
      BY <1>0, <2>1, <2>4, <2>7
    <3>2. Heard(i)' = Heard(i)
      BY <3>1, HistorySame
    <3>3. NothingSeen(i)
      BY <2>1, <2>5, <2>7, <3>1, <3>2 DEF NothingSeen, KeysStay, TextsStay
    <3> QED BY <3>3 DEF Seen
  <2> QED BY <1>0, <2>6, <2>7
<1>9. ASSUME NEW p \in Peers, Lose(p)
      PROVE  Seen(i)
  <2>1. /\ 1 \in DOMAIN net[p]
        /\ p \notin up
        /\ net' = Taken(p, 1)
        /\ UNCHANGED <<key, made, log, sent>>
    BY <1>9 DEF Lose
  <2>2. /\ net'[p] = RemoveAt(net[p], 1)
        /\ \A q \in Peers : q # p => net'[q] = net[q]
    BY <2>1 DEF Taken, TypeOK
  <2>3. CASE p = i
    <3>1. net[i][1].kind # "A"
      BY <1>a, <2>1, <2>3 DEF Has
    <3>2. LosesHead(i)
      BY <2>1, <2>2, <2>3, <3>1, HistorySame
         DEF LosesHead, HeadTakenBy, KeysStay, TextsStay
    <3> QED BY <3>2 DEF Seen
  <2>4. CASE p # i
    BY <1>b, <2>1, <2>2, <2>4
  <2> QED BY <2>3, <2>4
<1>10. ASSUME NEW p \in Peers
       PROVE  ~Duplicate(p) /\ ~Crash(p) /\ ~CrashWritingKey(p)
  BY DEF Duplicate, Crash, CrashWritingKey
<1> QED BY <1>1, <1>2, <1>3, <1>4, <1>6, <1>7, <1>8, <1>9, <1>10 DEF Next, Receive

(* The texts on their way to i were written under k0 first, the key i      *)
(* holds unless k0 is a key of an earlier session; and once i has read     *)
(* one of them it is that key in any case.                                 *)
StreamInv(i) ==
  /\ key[Other(i)] <= made
  /\ \A n \in DOMAIN net[i] : net[i][n].kind = "A" => net[i][n].key > OldKeys
  /\ \E k0 \in Nat :
       /\ Written(net[i], k0, key[Other(i)])
       /\ k0 > OldKeys => k0 = key[i]
       /\ Heard(i) # {} => k0 = key[i] /\ k0 # NoKey

LEMMA StreamInductive ==
  ASSUME NEW i \in Peers, TypeOK, made >= OldKeys, StreamInv(i), Seen(i)
  PROVE  StreamInv(i)'
<1> DEFINE r == Other(i)
<1>0. /\ r \in Peers /\ net[i] \in Seq(Packet) /\ made \in Nat
      /\ key[i] \in Nat /\ key[r] \in Nat
      /\ Len(net[i]) \in Nat /\ DOMAIN net[i] = 1..Len(net[i])
  BY OtherPeer, LenProperties DEF TypeOK
<1>1. /\ key[r] <= made
      /\ \A n \in DOMAIN net[i] : net[i][n].kind = "A" => net[i][n].key > OldKeys
  BY DEF StreamInv
<1>2. PICK k0 \in Nat : /\ Written(net[i], k0, key[r])
                        /\ k0 > OldKeys => k0 = key[i]
                        /\ Heard(i) # {} => k0 = key[i] /\ k0 # NoKey
  BY DEF StreamInv
<1>3. ASSUME NEW x \in Packet, net'[i] = Append(net[i], x), x.kind # "A" \/ x.key > OldKeys
      PROVE  \A n \in DOMAIN net'[i] : net'[i][n].kind = "A" => net'[i][n].key > OldKeys
  BY <1>0, <1>1, <1>3
<1>4. ASSUME HeadTakenBy(i)
      PROVE  \A n \in DOMAIN net'[i] : net'[i][n].kind = "A" => net'[i][n].key > OldKeys
  <2>1. \A n \in DOMAIN net'[i] : n + 1 \in DOMAIN net[i] /\ net'[i][n] = net[i][n + 1]
    BY <1>4, BehindHead
  <2> QED BY <1>1, <2>1
<1>5. CASE NothingSeen(i)
  BY <1>1, <1>2, <1>5 DEF NothingSeen, KeysStay, TextsStay, StreamInv
<1>6. ASSUME NEW t \in Text, FriendWrites(i, t)
      PROVE  StreamInv(i)'
  <2> DEFINE x == TextPacket(key[r], t)
  <2>1. x \in Packet /\ x.kind = "T" /\ x.key = key[r]
    BY <1>0, PacketTypes DEF TextPacket
  <2>2. /\ net'[i] = Append(net[i], x) \/ net'[i] = net[i]
        /\ key'[r] = key[r] /\ key'[i] = key[i] /\ made' = made
        /\ Heard(i)' = Heard(i)
    BY <1>6 DEF FriendWrites, KeysStay
  <2> HIDE DEF x
  <2>3. Written(net'[i], k0, key'[r])
    BY <1>0, <1>2, <2>1, <2>2, WrittenAppend
  <2>4. \A n \in DOMAIN net'[i] : net'[i][n].kind = "A" => net'[i][n].key > OldKeys
    BY <1>1, <1>3, <2>1, <2>2
  <2> QED BY <1>1, <1>2, <2>2, <2>3, <2>4 DEF StreamInv
<1>7. CASE FriendAnswers(i)
  <2> DEFINE x == WrappedKey(made + 1)
  <2>1. x \in Packet /\ x.kind = "A" /\ x.key = made + 1
    BY <1>0, PacketTypes DEF WrappedKey
  <2>2. /\ net'[i] = Append(net[i], x)
        /\ key'[r] = made + 1 /\ key'[i] = key[i] /\ made' = made + 1
        /\ Heard(i)' = Heard(i)
    BY <1>7 DEF FriendAnswers, TextsStay
  <2> HIDE DEF x
  <2>3. Written(net'[i], k0, key'[r])
    BY <1>0, <1>2, <2>1, <2>2, WrittenAppend
  <2>4. \A n \in DOMAIN net'[i] : net'[i][n].kind = "A" => net'[i][n].key > OldKeys
    BY <1>0, <1>3, <2>1, <2>2 DEF OldKeys
  <2>5. key'[r] <= made'
    BY <1>0, <2>2
  <2> QED BY <1>2, <2>2, <2>3, <2>4, <2>5 DEF StreamInv
<1>8. CASE TakesKey(i)
  <2>1. /\ 1 \in DOMAIN net[i] /\ net[i][1].kind = "A"
        /\ net'[i] = RemoveAt(net[i], 1)
        /\ key'[i] = net[i][1].key /\ key'[r] = key[r] /\ made' = made
    BY <1>8 DEF TakesKey, HeadTakenBy
  <2>2. Written(net'[i], net[i][1].key, key'[r])
    BY <1>0, <1>2, <2>1, WrittenHead
  <2>3. net[i][1].key > OldKeys
    BY <1>1, <2>1
  <2>4. net[i][1].key \in Nat /\ net[i][1].key # NoKey
    BY <1>0, <2>1, <2>3, ElementOfSeq DEF Packet, NoKey, OldKeys
  <2>5. \A n \in DOMAIN net'[i] : net'[i][n].kind = "A" => net'[i][n].key > OldKeys
    BY <1>4, <1>8 DEF TakesKey
  <2> QED BY <1>1, <2>1, <2>2, <2>4, <2>5 DEF StreamInv
<1>9. CASE TakesText(i)
  <2>1. /\ 1 \in DOMAIN net[i] /\ net[i][1].kind = "T"
        /\ net'[i] = RemoveAt(net[i], 1)
        /\ key'[r] = key[r] /\ key'[i] = key[i] /\ made' = made
    BY <1>9 DEF TakesText, HeadTakenBy, KeysStay
  <2>2. PICK texts \in Readings(net[i][1], key[i]) :
          Heard(i)' = Heard(i) \cup ({texts[j] : j \in DOMAIN texts} \ {Garbage})
    BY <1>9 DEF TakesText
  <2>3. Written(net'[i], k0, key'[r]) /\ net[i][1].key = k0
    BY <1>0, <1>2, <2>1, WrittenHead
  <2>4. \A n \in DOMAIN net'[i] : net'[i][n].kind = "A" => net'[i][n].key > OldKeys
    BY <1>4, <1>9 DEF TakesText
  <2>5. Heard(i)' # {} => k0 = key[i] /\ k0 # NoKey
    <3>1. CASE key[i] # NoKey /\ net[i][1].key = key[i]
      BY <2>3, <3>1
    <3>2. CASE ~(key[i] # NoKey /\ net[i][1].key = key[i])
      <4>1. texts = <<>> \/ texts = <<Garbage>>
        BY <3>2 DEF Readings
      <4>2. Heard(i)' = Heard(i)
        BY <2>2, <4>1
      <4> QED BY <1>2, <4>2
    <3> QED BY <3>1, <3>2
  <2> QED BY <1>1, <1>2, <2>1, <2>3, <2>4, <2>5 DEF StreamInv
<1>10. CASE LosesHead(i)
  <2>1. /\ 1 \in DOMAIN net[i] /\ net[i][1].kind # "A"
        /\ net'[i] = RemoveAt(net[i], 1)
        /\ key'[r] = key[r] /\ key'[i] = key[i] /\ made' = made
        /\ Heard(i)' = Heard(i)
    BY <1>10 DEF LosesHead, HeadTakenBy, KeysStay, TextsStay
  <2>2. Written(net'[i], k0, key'[r])
    BY <1>0, <1>2, <2>1, WrittenHead
  <2>3. \A n \in DOMAIN net'[i] : net'[i][n].kind = "A" => net'[i][n].key > OldKeys
    BY <1>4, <1>10 DEF LosesHead
  <2> QED BY <1>1, <1>2, <2>1, <2>2, <2>3 DEF StreamInv
<1> QED BY <1>5, <1>6, <1>7, <1>8, <1>9, <1>10 DEF Seen

LEMMA StreamReadable ==
  ASSUME NEW i \in Peers, Initiators \subseteq {i}, TypeOK, StreamInv(i)
  PROVE  TextsToInitiatorReadable
<1> SUFFICES ASSUME NEW n \in DOMAIN net[i], net[i][n].kind = "T", net[i][n].key > OldKeys
             PROVE  net[i][n].key = KeyAt(i, n)
  BY DEF TextsToInitiatorReadable
<1>1. PICK k0 \in Nat : /\ Written(net[i], k0, key[Other(i)])
                        /\ k0 > OldKeys => k0 = key[i]
  BY DEF StreamInv
<1>2. HoldsAt(net[i], k0, n, net[i][n].key)
  BY <1>1 DEF Written
<1>3. HoldsAt(net[i], key[i], n, net[i][n].key)
  BY <1>1, <1>2 DEF HoldsAt
<1> QED BY <1>3, KeyAtIs

LEMMA StreamInit == ASSUME NEW i \in Peers PROVE Init => StreamInv(i)
<1> SUFFICES ASSUME Init
             PROVE  StreamInv(i)
  OBVIOUS
<1>1. /\ net[i] = <<>> /\ log[i] = <<>> /\ made = OldKeys
      /\ key[Other(i)] \in 0..OldKeys
  BY OtherPeer, KeysAssumption DEF Init
<1>2. Heard(i) = {}
  BY <1>1 DEF Heard
<1>3. Written(net[i], key[Other(i)], key[Other(i)])
  BY <1>1 DEF Written, HoldsAt
<1>4. key[Other(i)] \in Nat /\ key[Other(i)] <= made /\ ~(key[Other(i)] > OldKeys)
  BY <1>1 DEF OldKeys
<1> QED BY <1>1, <1>2, <1>3, <1>4 DEF StreamInv

(* If only one user starts exchanges and the network loses, repeats and    *)
(* reorders nothing, every text on its way to that user that was written   *)
(* under a key of this session will find that key in the user's file when  *)
(* it is read, however many exchanges are under way.                       *)
THEOREM TextsReadable ==
  ASSUME NEW i \in Peers, Initiators \subseteq {i}, Faults = {}
  PROVE  Spec => []TextsToInitiatorReadable
<1> DEFINE Inv == ExchangeInv(i) /\ StreamInv(i)
<1>1. Init => Inv
  BY ExchangeInit, StreamInit
<1>2. TypeOK /\ Inv /\ [Next]_vars => Inv'
  <2> SUFFICES ASSUME TypeOK, Inv, [Next]_vars
               PROVE  Inv'
    OBVIOUS
  <2>1. ExchangeInv(i)'
    BY ExchangeInductive
  <2>2. Seen(i)
    BY SeesStep
  <2>3. made >= OldKeys
    BY DEF ExchangeInv
  <2> QED BY <2>1, <2>2, <2>3, StreamInductive
<1>3. TypeOK /\ Inv => TextsToInitiatorReadable
  BY StreamReadable
<1> QED BY <1>1, <1>2, <1>3, TypeCorrect, PTL DEF Spec

(* Nothing the friend wrote is missing after a text that i has read or     *)
(* that is on its way, as far as it fits a packet.                         *)
GapInv(i) ==
  /\ \A n \in DOMAIN net[i] :
       net[i][n].kind = "T" => net[i][n] = TextPacket(net[i][n].key, net[i][n].text)
  /\ \A e \in Said(Other(i)) : e \in Text /\ e.n <= sent[Other(i)]
  /\ Heard(i) \cup Coming(i) # {} => Other(i) \in up
  /\ Heard(i) # {} => i \in up
  /\ \A t \in Heard(i) \cup Coming(i), e \in Said(Other(i)) :
       e.n > t.n /\ Fits(e) => e \in Heard(i) \cup Coming(i)

LEMMA UpGrows ==
  ASSUME Faults = {}, [Next]_vars
  PROVE  up \subseteq up'
<1>1. ASSUME NEW p \in Peers
      PROVE  ~Duplicate(p) /\ ~Crash(p) /\ ~CrashWritingKey(p)
  BY DEF Duplicate, Crash, CrashWritingKey
<1> QED BY <1>1 DEF Next, Receive, vars, ExchangeKeys, SendText, SelectPeer,
           SelectAnother, SelectByDefault, Connect, RecvPublicKey, RecvWrappedKey,
           RecvText, Lose

LEMMA ComingAppend ==
  ASSUME TypeOK, NEW i \in Peers, NEW x \in Packet, net'[i] = Append(net[i], x)
  PROVE  Coming(i)' = IF x.kind = "T" THEN Coming(i) \cup {x.text} ELSE Coming(i)
<1>1. /\ Len(net[i]) \in Nat
      /\ DOMAIN net[i] = 1..Len(net[i])
      /\ DOMAIN net'[i] = 1..(Len(net[i]) + 1)
      /\ \A m \in 1..Len(net[i]) : net'[i][m] = net[i][m]
      /\ net'[i][Len(net[i]) + 1] = x
  BY LenProperties DEF TypeOK
<1>2. PICK N \in DOMAIN net'[i] : /\ \A m \in DOMAIN net'[i] : m = N \/ m \in DOMAIN net[i]
                                  /\ \A m \in DOMAIN net[i] : m \in DOMAIN net'[i] /\ net'[i][m] = net[i][m]
                                  /\ net'[i][N] = x
  <2>1. Len(net[i]) + 1 \in DOMAIN net'[i]
    BY <1>1
  <2> QED BY <1>1, <2>1
<1> QED BY <1>2 DEF Coming

(* Queue q holds its texts in the order of their numbers.                  *)
Rising(q) ==
  \A m, n \in DOMAIN q : m < n /\ q[m].kind = "T" /\ q[n].kind = "T" => q[m].text.n < q[n].text.n

LEMMA ComingHead ==
  ASSUME TypeOK, NEW i \in Peers, HeadTakenBy(i), Rising(net[i])
  PROVE  /\ net[i][1].kind # "T" => Coming(i)' = Coming(i)
         /\ net[i][1].kind = "T" =>
              /\ Coming(i) = Coming(i)' \cup {net[i][1].text}
              /\ \A t \in Coming(i)' : net[i][1].text.n < t.n
<1>1. /\ Len(net[i]) \in Nat
      /\ net[i] \in Seq(Packet)
      /\ DOMAIN net[i] = 1..Len(net[i])
      /\ 1 \in 1..Len(net[i])
  BY LenProperties DEF TypeOK, HeadTakenBy
<1>4. /\ \A n \in DOMAIN net'[i] :
           n + 1 \in DOMAIN net[i] /\ 1 < n + 1 /\ net'[i][n] = net[i][n + 1]
      /\ \A n \in DOMAIN net[i] :
           n # 1 => n - 1 \in DOMAIN net'[i] /\ net'[i][n - 1] = net[i][n]
  BY BehindHead
<1>6. \A t \in Coming(i)' : \E n \in DOMAIN net[i] : 1 < n /\ net[i][n].kind = "T" /\ net[i][n].text = t
  <2> SUFFICES ASSUME NEW n \in DOMAIN net'[i], net'[i][n].kind = "T"
               PROVE  \E m \in DOMAIN net[i] : 1 < m /\ net[i][m].kind = "T" /\ net[i][m].text = net'[i][n].text
    BY DEF Coming
  <2> QED BY <1>4
<1>7. \A t \in Coming(i)' : t \in Coming(i)
  BY <1>6 DEF Coming
<1>8. ASSUME NEW n \in DOMAIN net[i], net[i][n].kind = "T", n # 1
      PROVE  net[i][n].text \in Coming(i)'
  BY <1>4, <1>8 DEF Coming
<1>9. \A t \in Coming(i) : t \in Coming(i)' \/ (net[i][1].kind = "T" /\ t = net[i][1].text)
  BY <1>8 DEF Coming
<1>10. net[i][1].kind = "T" => net[i][1].text \in Coming(i)
  BY <1>1 DEF Coming
<1>11. ASSUME net[i][1].kind = "T", NEW t \in Coming(i)'
       PROVE  net[i][1].text.n < t.n
  BY <1>1, <1>6, <1>11 DEF Rising
<1> QED BY <1>7, <1>9, <1>10, <1>11

LEMMA ReadWhenFits ==
  ASSUME NEW m \in Packet, m.kind = "T", m = TextPacket(m.key, m.text), m.key # NoKey,
         NEW texts \in Readings(m, m.key)
  PROVE  texts = <<m.text>> \/ ~Fits(m.text)
<1>1. m.len = EncLen(Cut(m.text.size))
  BY DEF TextPacket
<1>2. m.text \in Text
  BY DEF Packet
<1>3. Cut(m.text.size) \in Nat
  BY <1>2 DEF Cut, MaxTextSize, Text
<1>4. EncLen(Cut(m.text.size)) # 0
  BY <1>3 DEF EncLen
<1>5. Fits(m.text) => LengthAccepted(m.len) /\ m.text.size # 0
  BY <1>1, <1>4 DEF Fits, LengthAccepted
<1> QED BY <1>5 DEF Readings

LEMMA TextsTyped ==
  ASSUME TypeOK, NEW i \in Peers
  PROVE  \A t \in Heard(i) \cup Coming(i) : t \in Text /\ t.n \in Nat
<1>1. \A m \in DOMAIN log[i] : log[i][m] \in LogEntry
  BY ElementOfSeq, LenProperties DEF TypeOK
<1>2. \A m \in DOMAIN net[i] : net[i][m] \in Packet
  BY ElementOfSeq, LenProperties DEF TypeOK
<1>3. \A t \in Heard(i) : t \in Text
  BY <1>1 DEF Heard, LogEntry, Genuine
<1>4. \A t \in Coming(i) : t \in Text
  BY <1>2 DEF Coming, Packet
<1>5. \A t \in Text : t.n \in Nat
  BY DEF Text
<1> QED BY <1>3, <1>4, <1>5

LEMMA GapInductive ==
  ASSUME NEW i \in Peers, Faults = {}, TypeOK, TypeOK', StreamInv(i), Rising(net[i]), GapInv(i),
         Seen(i), [Next]_vars
  PROVE  GapInv(i)'
<1> DEFINE r == Other(i)
           All == Heard(i) \cup Coming(i)
<1>0. /\ r \in Peers /\ net[i] \in Seq(Packet) /\ made \in Nat
      /\ key[i] \in Nat /\ key[r] \in Nat /\ sent[r] \in Nat
      /\ Len(net[i]) \in Nat /\ DOMAIN net[i] = 1..Len(net[i])
  BY OtherPeer, LenProperties DEF TypeOK
<1>1. /\ \A n \in DOMAIN net[i] :
           net[i][n].kind = "T" => net[i][n] = TextPacket(net[i][n].key, net[i][n].text)
      /\ \A e \in Said(r) : e \in Text /\ e.n <= sent[r]
      /\ All # {} => r \in up
      /\ Heard(i) # {} => i \in up
      /\ \A t \in All, e \in Said(r) : e.n > t.n /\ Fits(e) => e \in All
  BY DEF GapInv
<1>2. up \subseteq up'
  BY UpGrows
<1>3. ASSUME HeadTakenBy(i)
      PROVE  \A n \in DOMAIN net'[i] :
               net'[i][n].kind = "T" => net'[i][n] = TextPacket(net'[i][n].key, net'[i][n].text)
  <2>4. \A n \in DOMAIN net'[i] : n + 1 \in DOMAIN net[i] /\ net'[i][n] = net[i][n + 1]
    BY <1>3, BehindHead
  <2>5. ASSUME NEW n \in DOMAIN net'[i], net'[i][n].kind = "T"
        PROVE  net'[i][n] = TextPacket(net'[i][n].key, net'[i][n].text)
    <3>1. PICK m \in DOMAIN net[i] : net'[i][n] = net[i][m]
      BY <2>4
    <3>2. net[i][m] = TextPacket(net[i][m].key, net[i][m].text)
      BY <1>1, <2>5, <3>1
    <3> QED BY <3>1, <3>2
  <2> QED BY <2>5
<1>4. CASE NothingSeen(i)
  <2>1. /\ net'[i] = net[i] /\ Heard(i)' = Heard(i) /\ Said(r)' = Said(r) /\ sent'[r] = sent[r]
    BY <1>4 DEF NothingSeen, TextsStay
  <2>2. Coming(i)' = Coming(i)
    BY <2>1 DEF Coming
  <2> QED BY <1>1, <1>2, <2>1, <2>2 DEF GapInv
<1>5. ASSUME NEW t \in Text, FriendWrites(i, t)
      PROVE  GapInv(i)'
  <2> DEFINE x == TextPacket(key[r], t)
  <2>1. x \in Packet /\ x.kind = "T" /\ x.key = key[r] /\ x.text = t
    BY <1>0, PacketTypes DEF TextPacket
  <2>2. /\ t.n = sent[r] + 1 /\ sent'[r] = sent[r] + 1
        /\ Said(r)' = Said(r) \cup {t} /\ Heard(i)' = Heard(i)
        /\ net'[i] = IF r \in up THEN Append(net[i], x) ELSE net[i]
    BY <1>5 DEF FriendWrites
  <2>3. x = TextPacket(x.key, x.text)
    BY <2>1
  <2>h. x.text.n = sent[r] + 1 /\ Said(r)' = Said(r) \cup {x.text} /\ x.text \in Text
    BY <2>1, <2>2
  <2> HIDE DEF x
  <2>4. \A e \in Said(r)' : e \in Text /\ e.n <= sent'[r]
    <3>1. \A e \in Said(r) : e.n \in Nat
      BY <1>1 DEF Text
    <3> QED BY <1>0, <1>1, <2>2, <3>1
  <2>5. CASE r \in up
    <3>1. net'[i] = Append(net[i], x)
      BY <2>2, <2>5
    <3>2. Coming(i)' = Coming(i) \cup {t}
      BY <2>1, <3>1, ComingAppend
    <3>3. \A n \in DOMAIN net'[i] :
            net'[i][n].kind = "T" => net'[i][n] = TextPacket(net'[i][n].key, net'[i][n].text)
      BY <1>0, <1>1, <2>3, <3>1
    <3>4. \A e \in Said(r) : ~(e.n > t.n)
      <4>1. \A e \in Said(r) : e.n \in Nat
        BY <1>1 DEF Text
      <4> QED BY <1>0, <1>1, <2>2, <4>1
    <3>5. \A u \in Heard(i)' \cup Coming(i)', e \in Said(r)' :
            e.n > u.n /\ Fits(e) => e \in Heard(i)' \cup Coming(i)'
      BY <1>1, <2>2, <3>2, <3>4
    <3> QED BY <1>1, <1>2, <2>2, <2>4, <2>5, <3>3, <3>5 DEF GapInv
  <2>6. CASE r \notin up
    <3>1. Heard(i)' = {} /\ Coming(i)' = {} /\ net'[i] = net[i]
      BY <1>1, <2>2, <2>6 DEF Coming
    <3> QED BY <1>1, <2>4, <3>1 DEF GapInv
  <2> QED BY <2>5, <2>6
<1>6. CASE FriendAnswers(i)
  <2> DEFINE x == WrappedKey(made + 1)
  <2>1. x \in Packet /\ x.kind # "T"
    BY <1>0, PacketTypes DEF WrappedKey
  <2>2. /\ net'[i] = Append(net[i], x)
        /\ Heard(i)' = Heard(i) /\ Said(r)' = Said(r) /\ sent'[r] = sent[r]
    BY <1>6 DEF FriendAnswers, TextsStay
  <2> HIDE DEF x
  <2>3. Coming(i)' = Coming(i)
    BY <2>1, <2>2, ComingAppend
  <2>4. \A n \in DOMAIN net'[i] :
          net'[i][n].kind = "T" => net'[i][n] = TextPacket(net'[i][n].key, net'[i][n].text)
    BY <1>0, <1>1, <2>1, <2>2
  <2> QED BY <1>1, <1>2, <2>2, <2>3, <2>4 DEF GapInv
<1>7. CASE TakesKey(i)
  <2>1. /\ HeadTakenBy(i) /\ net[i][1].kind # "T"
        /\ Heard(i)' = Heard(i) /\ Said(r)' = Said(r) /\ sent'[r] = sent[r]
    BY <1>7 DEF TakesKey, TextsStay
  <2>2. Coming(i)' = Coming(i)
    BY <2>1, ComingHead
  <2> QED BY <1>1, <1>2, <1>3, <2>1, <2>2 DEF GapInv
<1> DEFINE h == net[i][1].text
<1>8. ASSUME HeadTakenBy(i), net[i][1].kind = "T", Heard(i)' = Heard(i),
             Heard(i) # {} => ~Fits(h), Said(r)' = Said(r), sent'[r] = sent[r]
      PROVE  GapInv(i)'
  <2>1. Coming(i) = Coming(i)' \cup {h} /\ \A t \in Coming(i)' : h.n < t.n
    BY <1>8, ComingHead
  <2>2. \A t \in All : t.n \in Nat
    BY TextsTyped
  <2>3. \A e \in Said(r) : e.n \in Nat
    BY <1>1 DEF Text
  <2>4. ASSUME NEW t \in Heard(i)' \cup Coming(i)', NEW e \in Said(r)', e.n > t.n, Fits(e)
        PROVE  e \in Heard(i)' \cup Coming(i)'
    <3>1. e \in All /\ t \in All
      BY <1>1, <1>8, <2>1, <2>4
    <3>2. e # h
      <4>1. CASE Heard(i) # {}
        BY <1>8, <2>4, <4>1
      <4>2. CASE Heard(i) = {}
        <5>1. h.n < t.n /\ h \in All
          BY <1>8, <2>1, <2>4, <4>2
        <5> HIDE DEF h, All
        <5>2. h.n \in Nat /\ t.n \in Nat /\ e.n \in Nat
          BY <2>2, <3>1, <5>1
        <5> QED BY <2>4, <5>1, <5>2
      <4> QED BY <4>1, <4>2
    <3> QED BY <1>8, <2>1, <3>1, <3>2
  <2>5. Heard(i)' \cup Coming(i)' # {} => r \in up'
    BY <1>1, <1>2, <1>8, <2>1
  <2> QED BY <1>1, <1>2, <1>3, <1>8, <2>4, <2>5 DEF GapInv
<1>9. CASE TakesText(i)
  <2>1. /\ HeadTakenBy(i) /\ net[i][1].kind = "T" /\ i \in up
        /\ Said(r)' = Said(r) /\ sent'[r] = sent[r]
    BY <1>9 DEF TakesText
  <2>2. PICK texts \in Readings(net[i][1], key[i]) :
          Heard(i)' = Heard(i) \cup ({texts[j] : j \in DOMAIN texts} \ {Garbage})
    BY <1>9 DEF TakesText
  <2>3. net[i][1] \in Packet /\ 1 \in DOMAIN net[i]
    BY <1>0, <2>1, ElementOfSeq DEF HeadTakenBy
  <2>4. CASE texts = <<h>>
    <3>1. h \in Text /\ h # Garbage
      BY <2>1, <2>3, GarbageAssumption DEF Packet
    <3>2. Heard(i)' = Heard(i) \cup {h}
      BY <2>2, <2>4, <3>1
    <3>3. Coming(i) = Coming(i)' \cup {h}
      BY <2>1, ComingHead
    <3>4. Heard(i)' \cup Coming(i)' = All
      BY <3>2, <3>3
    <3>5. r \in up' /\ i \in up'
      BY <1>1, <1>2, <2>1, <3>3
    <3> QED BY <1>1, <1>3, <2>1, <3>4, <3>5 DEF GapInv
  <2>5. CASE texts # <<h>>
    <3>1. texts = <<>> \/ texts = <<Garbage>>
      BY <1>0, <2>1, <2>3, <2>5, ReadingsAre
    <3>2. Heard(i)' = Heard(i)
      BY <2>2, <3>1
    <3>3. ASSUME Heard(i) # {}
          PROVE  ~Fits(h)
      <4>1. PICK k0 \in Nat : /\ Written(net[i], k0, key[r])
                              /\ k0 = key[i] /\ k0 # NoKey
        BY <3>3 DEF StreamInv
      <4>2. net[i][1].key = k0
        BY <1>0, <2>1, <2>3, <4>1, WrittenHead
      <4>3. net[i][1] = TextPacket(net[i][1].key, h)
        BY <1>1, <2>1, <2>3
      <4> QED BY <2>1, <2>3, <2>5, <4>1, <4>2, <4>3, ReadWhenFits
    <3> QED BY <1>8, <2>1, <3>2, <3>3
  <2> QED BY <2>4, <2>5
<1>10. CASE LosesHead(i)
  <2>1. /\ HeadTakenBy(i) /\ i \notin up
        /\ Heard(i)' = Heard(i) /\ Said(r)' = Said(r) /\ sent'[r] = sent[r]
    BY <1>10 DEF LosesHead, TextsStay
  <2>2. CASE net[i][1].kind = "T"
    BY <1>1, <1>8, <2>1, <2>2
  <2>3. CASE net[i][1].kind # "T"
    <3>1. Coming(i)' = Coming(i)
      BY <2>1, <2>3, ComingHead
    <3> QED BY <1>1, <1>2, <1>3, <2>1, <3>1 DEF GapInv
  <2> QED BY <2>2, <2>3
<1> QED BY <1>4, <1>5, <1>6, <1>7, <1>9, <1>10 DEF Seen

LEMMA GapInit == ASSUME NEW i \in Peers PROVE Init => GapInv(i)
<1> SUFFICES ASSUME Init
             PROVE  GapInv(i)
  OBVIOUS
<1>1. /\ net[i] = <<>> /\ log[i] = <<>> /\ log[Other(i)] = <<>>
  BY OtherPeer DEF Init
<1> QED BY <1>1 DEF GapInv, Heard, Said, Coming

LEMMA GapFree ==
  ASSUME NEW i \in Peers, Initiators \subseteq {i}, GapInv(i)
  PROVE  NoGapForInitiator
<1>1. \A j \in DOMAIN log[Other(i)] :
        log[Other(i)][j].who = "you" => log[Other(i)][j].text \in Said(Other(i))
  BY DEF Said
<1>2. \A t \in Heard(i) : \A j \in DOMAIN log[Other(i)] :
        LET e == log[Other(i)][j]
        IN  e.who = "you" /\ e.text.n > t.n /\ Fits(e.text)
              => e.text \in Heard(i) \cup Coming(i)
  BY <1>1 DEF GapInv
<1>3. \A p \in Initiators : p = i
  OBVIOUS
<1>4. \A p \in Initiators : \A t \in Heard(p) : \A j \in DOMAIN log[Other(p)] :
        LET e == log[Other(p)][j]
        IN  e.who = "you" /\ e.text.n > t.n /\ Fits(e.text)
              => e.text \in Heard(p) \cup Coming(p)
  BY <1>2, <1>3
<1> QED BY <1>4 DEF NoGapForInitiator, Heard, Coming

(* Under the same conditions, from the first text of the friend that the   *)
(* user who starts the exchanges has read, every later one that fits a     *)
(* packet is in that user's history or on its way.                         *)
THEOREM NoGaps ==
  ASSUME NEW i \in Peers, Initiators \subseteq {i}, Faults = {}
  PROVE  Spec => []NoGapForInitiator
<1> DEFINE Inv == /\ ExchangeInv(i) /\ StreamInv(i) /\ GapInv(i)
                  /\ OrderInv
<1>1. Init => Inv
  <2>1. Init => OrderInv
    BY OrderInit
  <2> QED BY <2>1, ExchangeInit, StreamInit, GapInit
<1>2. TypeOK /\ TypeOK' /\ Inv /\ [Next]_vars => Inv'
  <2> SUFFICES ASSUME TypeOK, TypeOK', Inv, [Next]_vars
               PROVE  Inv'
    OBVIOUS
  <2>1. ExchangeInv(i)' /\ OrderInv'
    BY ExchangeInductive, OrderInductive
  <2>2. Seen(i)
    BY SeesStep
  <2>3. made >= OldKeys
    BY DEF ExchangeInv
  <2>4. Rising(net[i])
    BY DEF OrderInv, Ordered, Rising
  <2>5. StreamInv(i)'
    BY <2>2, <2>3, StreamInductive
  <2>6. GapInv(i)'
    BY <2>2, <2>4, GapInductive
  <2> QED BY <2>1, <2>5, <2>6
<1>3. Inv => NoGapForInitiator
  BY GapFree
<1> QED BY <1>1, <1>2, <1>3, TypeCorrect, PTL DEF Spec

----------------------------------------------------------------------------
(* The refinement of FriendChannel.                                        *)

(* The first N steps of the recursion that TextsBy runs through history h. *)
Picks(who, h, N, f) ==
  /\ f[0] = <<>>
  /\ \A n \in 1..N :
       f[n] = IF h[n].who = who THEN Append(f[n - 1], h[n].text) ELSE f[n - 1]

HistoryText == Text \cup {Garbage}

LEMMA PicksExist ==
  ASSUME NEW who, NEW h \in Seq(LogEntry)
  PROVE  \E f \in [0..Len(h) -> Seq(HistoryText)] : Picks(who, h, Len(h), f) /\ TextsBy(who, h) = f[Len(h)]
<1> DEFINE N == Len(h)
           Is(f) == f = [n \in 0..N |->
                           IF n = 0 THEN <<>>
                           ELSE IF h[n].who = who THEN Append(f[n - 1], h[n].text) ELSE f[n - 1]]
           S == {n \in Nat : n <= N => \E f \in [0..n -> Seq(HistoryText)] : Picks(who, h, n, f)}
<1>0. N \in Nat /\ \A n \in 1..N : h[n] \in LogEntry /\ h[n].text \in HistoryText
  <2>1. N \in Nat /\ \A n \in 1..N : h[n] \in LogEntry
    BY ElementOfSeq, LenProperties
  <2> QED BY <2>1 DEF LogEntry, HistoryText
<1>1. 0 \in S
  <2> DEFINE z == [n \in 0..0 |-> <<>>]
  <2>1. z \in [0..0 -> Seq(HistoryText)] /\ Picks(who, h, 0, z)
    BY DEF Picks
  <2> QED BY <2>1
<1>2. ASSUME NEW n \in Nat, n \in S PROVE n + 1 \in S
  <2> SUFFICES ASSUME n + 1 <= N
               PROVE  \E f \in [0..(n + 1) -> Seq(HistoryText)] : Picks(who, h, n + 1, f)
    OBVIOUS
  <2>0. n <= N
    BY <1>0
  <2>1. PICK f \in [0..n -> Seq(HistoryText)] : Picks(who, h, n, f)
    BY <1>2, <2>0
  <2> DEFINE e == IF h[n + 1].who = who THEN Append(f[n], h[n + 1].text) ELSE f[n]
             g == [m \in 0..(n + 1) |-> IF m = n + 1 THEN e ELSE f[m]]
  <2>2. e \in Seq(HistoryText)
    <3>1. f[n] \in Seq(HistoryText) /\ h[n + 1].text \in HistoryText
      BY <1>0, <2>1
    <3> QED BY <3>1, AppendProperties
  <2>3. g \in [0..(n + 1) -> Seq(HistoryText)]
    BY <2>1, <2>2
  <2>4. g[0] = <<>>
    BY <2>1 DEF Picks
  <2>5. ASSUME NEW m \in 1..(n + 1)
        PROVE  g[m] = IF h[m].who = who THEN Append(g[m - 1], h[m].text) ELSE g[m - 1]
    <3>1. CASE m = n + 1
      <4>1. g[n + 1] = e /\ g[n] = f[n] /\ m - 1 = n
        BY <3>1
      <4> QED BY <3>1, <4>1
    <3>2. CASE m # n + 1
      <4>1. m \in 1..n /\ m - 1 \in 0..n /\ m - 1 # n + 1
        BY <3>2
      <4>2. f[m] = IF h[m].who = who THEN Append(f[m - 1], h[m].text) ELSE f[m - 1]
        BY <2>1, <4>1 DEF Picks
      <4>3. g[m] = f[m] /\ g[m - 1] = f[m - 1]
        BY <3>2, <4>1
      <4> QED BY <4>2, <4>3
    <3> QED BY <3>1, <3>2
  <2> HIDE DEF g
  <2> QED BY <2>3, <2>4, <2>5 DEF Picks
<1>3. N \in S
  <2> HIDE DEF S
  <2> QED BY <1>0, <1>1, <1>2, EveryNatural
<1>4. PICK f \in [0..N -> Seq(HistoryText)] : Picks(who, h, N, f)
  BY <1>0, <1>3
<1>5. Is(f)
  <2>1. \A n \in 0..N : n = 0 \/ n \in 1..N
    BY <1>0
  <2> QED BY <1>4, <2>1, Zenon DEF Picks
<1>6. TextsBy(who, h) = (CHOOSE f0 : Is(f0))[N]
  BY Zenon DEF TextsBy
<1>7. \A g : Is(g) => g = f
  <2> SUFFICES ASSUME NEW g, Is(g) PROVE g = f
    OBVIOUS
  <2> DEFINE Q == {n \in Nat : n <= N => g[n] = f[n]}
  <2>1. g[0] = <<>> /\ \A n \in 1..N :
          g[n] = IF h[n].who = who THEN Append(g[n - 1], h[n].text) ELSE g[n - 1]
    <3>1. 0 \in 0..N /\ \A n \in 1..N : n \in 0..N /\ n # 0
      BY <1>0
    <3> QED BY <3>1, Zenon
  <2>2. 0 \in Q
    BY <1>4, <2>1 DEF Picks
  <2>3. ASSUME NEW n \in Nat, n \in Q PROVE n + 1 \in Q
    <3> SUFFICES ASSUME n + 1 <= N PROVE g[n + 1] = f[n + 1]
      OBVIOUS
    <3>0. PICK m \in 1..N : m = n + 1
      BY <1>0
    <3>1. m - 1 = n /\ g[n] = f[n]
      BY <1>0, <2>3, <3>0
    <3>2. /\ g[m] = IF h[m].who = who THEN Append(g[m - 1], h[m].text) ELSE g[m - 1]
          /\ f[m] = IF h[m].who = who THEN Append(f[m - 1], h[m].text) ELSE f[m - 1]
      BY <1>4, <2>1 DEF Picks
    <3>3. g[m] = f[m]
      BY <3>1, <3>2
    <3> QED BY <3>0, <3>3
  <2>4. \A n \in 0..N : g[n] = f[n]
    <3> HIDE DEF Q
    <3>1. \A n \in Nat : n \in Q
      BY <2>2, <2>3, EveryNatural
    <3>2. \A n \in 0..N : n \in Nat /\ n <= N
      BY <1>0
    <3> QED BY <3>1, <3>2 DEF Q
  <2>5. g = [n \in 0..N |-> g[n]] /\ f = [n \in 0..N |-> f[n]]
    <3>1. g = [n \in 0..N |-> g[n]]
      BY Zenon
    <3>2. f = [n \in 0..N |-> f[n]]
      BY <1>4
    <3> QED BY <3>1, <3>2
  <2> QED BY <2>4, <2>5
<1>8. (CHOOSE f0 : Is(f0)) = f
  <2> HIDE DEF Is
  <2> QED BY <1>5, <1>7, Zenon
<1> QED BY <1>4, <1>6, <1>8

LEMMA TextsEmpty == ASSUME NEW who PROVE TextsBy(who, <<>>) = <<>>
<1>1. <<>> \in Seq(LogEntry) /\ Len(<<>>) = 0
  BY EmptySeq
<1>2. PICK f : Picks(who, <<>>, 0, f) /\ TextsBy(who, <<>>) = f[0]
  BY <1>1, PicksExist
<1> QED BY <1>2 DEF Picks

LEMMA TextsTypes ==
  ASSUME NEW who, NEW h \in Seq(LogEntry)
  PROVE  TextsBy(who, h) \in Seq(HistoryText)
BY PicksExist, LenProperties

(* One more entry of "who" is one more text.                               *)
LEMMA TextsAppend ==
  ASSUME NEW who, NEW h \in Seq(LogEntry), NEW e \in LogEntry
  PROVE  TextsBy(who, Append(h, e)) =
           IF e.who = who THEN Append(TextsBy(who, h), e.text) ELSE TextsBy(who, h)
<1> DEFINE a == Append(h, e)
           N == Len(h)
<1>1. /\ N \in Nat
      /\ a \in Seq(LogEntry)
      /\ Len(a) = N + 1
      /\ \A n \in 1..N : a[n] = h[n]
      /\ a[N + 1] = e
  BY LenProperties
<1> HIDE DEF a
<1>2. PICK f \in [0..N -> Seq(HistoryText)] : Picks(who, h, Len(h), f) /\ TextsBy(who, h) = f[N]
  BY PicksExist
<1>3. PICK g : Picks(who, a, Len(a), g) /\ TextsBy(who, a) = g[N + 1]
  BY <1>1, PicksExist
<1> HIDE DEF N
<1> DEFINE Q == {n \in Nat : n <= N => g[n] = f[n]}
<1>4. 0 \in Q
  BY <1>2, <1>3 DEF Picks
<1>5. ASSUME NEW n \in Nat, n \in Q PROVE n + 1 \in Q
  <2> SUFFICES ASSUME n + 1 <= N PROVE g[n + 1] = f[n + 1]
    OBVIOUS
  <2>0. PICK m \in 1..N : m = n + 1
    BY <1>1
  <2>1. m - 1 = n /\ g[n] = f[n] /\ m \in 1..Len(a)
    BY <1>1, <1>5, <2>0
  <2>2. g[m] = IF a[m].who = who THEN Append(g[m - 1], a[m].text) ELSE g[m - 1]
    BY <1>3, <2>1 DEF Picks
  <2>3. f[m] = IF h[m].who = who THEN Append(f[m - 1], h[m].text) ELSE f[m - 1]
    BY <1>2 DEF Picks, N
  <2>4. a[m] = h[m]
    BY <1>1
  <2>5. g[m] = f[m]
    BY <2>1, <2>2, <2>3, <2>4
  <2> QED BY <2>0, <2>5
<1>6. g[N] = f[N]
  <2> HIDE DEF Q
  <2>1. \A n \in Nat : n \in Q
    BY <1>4, <1>5, EveryNatural
  <2> QED BY <1>1, <2>1 DEF Q
<1>7. g[N + 1] = IF e.who = who THEN Append(g[N], e.text) ELSE g[N]
  <2>1. PICK m \in 1..Len(a) : m = N + 1 /\ m - 1 = N
    BY <1>1
  <2>2. g[m] = IF a[m].who = who THEN Append(g[m - 1], a[m].text) ELSE g[m - 1]
    BY <1>3 DEF Picks
  <2>3. a[m] = e
    BY <1>1, <2>1
  <2> QED BY <2>1, <2>2, <2>3
<1> QED BY <1>2, <1>3, <1>6, <1>7 DEF a

(* What p has said, as the friend channel sees it.                         *)
SaidBy(p) == TextsBy("you", log[p])

(* The texts a peer has said are numbered in order, and what is on its way *)
(* to a peer has been said by the other one.                               *)
ChannelInv ==
  \A p \in Peers :
    /\ Len(SaidBy(p)) = sent[p]
    /\ \A n \in DOMAIN net[p] : net[p][n].kind = "T" =>
         /\ net[p][n].text.n \in 1..sent[Other(p)]
         /\ SaidBy(Other(p))[net[p][n].text.n] = net[p][n].text

(* What a step adds to the two histories: nothing, a text that was said,   *)
(* or one that was heard, or something garbled.                            *)
Says(q, t) ==
  /\ t.n = sent[q] + 1
  /\ log' = [log EXCEPT ![q] = Append(@, Entry("you", t))]
  /\ sent' = [sent EXCEPT ![q] = @ + 1]

Hears(q, t) ==
  /\ t = Garbage \/ \E n \in Deliverable(q) : net[q][n].kind = "T" /\ t = net[q][n].text
  /\ log' = [log EXCEPT ![q] = Append(@, Entry("friend", t))]
  /\ sent' = sent

LEMMA HistoryStep ==
  ASSUME TypeOK, [Next]_vars
  PROVE  \/ log' = log /\ sent' = sent
         \/ \E q \in Peers, t \in TextsInUse \cap Text : Says(q, t)
         \/ \E q \in Peers, t \in Text \cup {Garbage} : Hears(q, t)
<1> DEFINE Goal == \/ log' = log /\ sent' = sent
                   \/ \E q \in Peers, t \in TextsInUse \cap Text : Says(q, t)
                   \/ \E q \in Peers, t \in Text \cup {Garbage} : Hears(q, t)
<1>1. ASSUME NEW q \in Peers, SendText(q)
      PROVE  Goal
  <2>1. PICK s \in Sizes :
          LET t == [by |-> q, n |-> sent[q] + 1, size |-> s]
          IN  log' = [log EXCEPT ![q] = Append(log[q], Entry("you", t))]
    BY <1>1 DEF SendText, Kept
  <2> DEFINE t == [by |-> q, n |-> sent[q] + 1, size |-> s]
  <2>2. sent[q] \in Nat /\ sent[q] < MaxTexts /\ MaxTexts \in Nat /\ s \in Nat
    BY <1>1, SizesAssumption, BoundsAssumption DEF TypeOK, SendText
  <2>3. t \in Text /\ t \in TextsInUse
    <3>1. sent[q] + 1 \in Nat /\ sent[q] + 1 \in 1..MaxTexts
      BY <2>2
    <3> QED BY <2>2, <3>1 DEF Text, TextsInUse
  <2>4. Says(q, t)
    BY <1>1, <2>1 DEF Says, SendText
  <2> HIDE DEF t
  <2> QED BY <2>3, <2>4
<1>2. ASSUME NEW q \in Peers, NEW n \in Deliverable(q), RecvText(q, n)
      PROVE  Goal
  <2>1. net[q][n] \in Packet /\ net[q][n].kind = "T" /\ key[q] \in Nat /\ sent' = sent
        /\ log[q] \in Seq(LogEntry)
    BY <1>2, DeliverableIsQueued DEF RecvText, TypeOK
  <2>2. PICK texts \in Readings(net[q][n], key[q]) :
          log' = [log EXCEPT ![q] = @ \o [j \in 1..Len(texts) |-> Entry("friend", texts[j])]]
    BY <1>2 DEF RecvText
  <2>3. CASE texts = <<>>
    <3>1. [j \in 1..Len(texts) |-> Entry("friend", texts[j])] = <<>>
      BY <2>3
    <3>2. log[q] \o <<>> = log[q]
      BY <2>1, ConcatEmptySeq
    <3>3. log' = [log EXCEPT ![q] = log[q]]
      BY <2>2, <3>1, <3>2
    <3>4. log' = log
      BY <3>3 DEF TypeOK
    <3> QED BY <2>1, <3>4
  <2>4. ASSUME NEW t \in Text \cup {Garbage}, texts = <<t>>, t \in {Garbage, net[q][n].text}
        PROVE  Goal
    <3>1. [j \in 1..Len(texts) |-> Entry("friend", texts[j])] = <<Entry("friend", t)>>
      BY <2>4
    <3>2. log[q] \o <<Entry("friend", t)>> = Append(log[q], Entry("friend", t))
      BY <2>1
    <3>3. log' = [log EXCEPT ![q] = Append(@, Entry("friend", t))]
      BY <2>2, <3>1, <3>2
    <3>4. Hears(q, t)
      BY <2>1, <2>4, <3>3 DEF Hears
    <3> QED BY <3>4
  <2>5. net[q][n].text \in Text
    BY <2>1 DEF Packet
  <2> QED BY <2>1, <2>3, <2>4, <2>5, ReadingsAre
<1>3. CASE UNCHANGED <<log, sent>>
  BY <1>3
<1>4. \/ UNCHANGED <<log, sent>>
      \/ \E q \in Peers : SendText(q)
      \/ \E q \in Peers : \E n \in Deliverable(q) : RecvText(q, n)
  BY DEF Next, Receive, vars, ExchangeKeys, SelectPeer,
           SelectAnother, SelectByDefault, Connect, RecvPublicKey, RecvWrappedKey,
           Lose, Duplicate, Crash, CrashWritingKey, Restarted
<1> QED BY <1>1, <1>2, <1>3, <1>4

(* What such a step does to what was said and heard.                       *)
LEMMA SaysThen ==
  ASSUME TypeOK, NEW q \in Peers, NEW t \in Text, Says(q, t)
  PROVE  /\ \A p \in Peers : SaidBy(p)' = IF p = q THEN Append(SaidBy(p), t) ELSE SaidBy(p)
         /\ \A p \in Peers : TextsBy("friend", log'[p]) = TextsBy("friend", log[p])
         /\ \A p \in Peers : Heard(p)' = Heard(p)
         /\ \A p \in Peers : sent'[p] = IF p = q THEN sent[p] + 1 ELSE sent[p]
<1>1. \A p \in Peers : log'[p] = IF p = q THEN Append(log[p], Entry("you", t)) ELSE log[p]
  BY DEF Says, TypeOK
<1>2. Entry("you", t) \in LogEntry /\ Entry("you", t).who = "you" /\ Entry("you", t).text = t
  BY DEF Entry, LogEntry
<1>3. \A p \in Peers : log[p] \in Seq(LogEntry)
  BY DEF TypeOK
<1>4. \A p \in Peers : sent'[p] = IF p = q THEN sent[p] + 1 ELSE sent[p]
  BY DEF Says, TypeOK
<1>5. TextsBy("you", log'[q]) = Append(TextsBy("you", log[q]), t)
  BY <1>1, <1>2, <1>3, TextsAppend
<1>6. TextsBy("friend", log'[q]) = TextsBy("friend", log[q])
  BY <1>1, <1>2, <1>3, TextsAppend
<1>7. Heard(q)' = Heard(q)
  BY <1>1, HistoryGrows
<1>8. \A p \in Peers : p # q => Heard(p)' = Heard(p)
  BY <1>1, HistorySame
<1>9. \A p \in Peers : SaidBy(p)' = TextsBy("you", log'[p])
  BY DEF SaidBy
<1> QED BY <1>1, <1>4, <1>5, <1>6, <1>7, <1>8, <1>9 DEF SaidBy

LEMMA HearsThen ==
  ASSUME TypeOK, NEW q \in Peers, NEW t \in Text \cup {Garbage}, Hears(q, t)
  PROVE  /\ \A p \in Peers : SaidBy(p)' = SaidBy(p)
         /\ \A p \in Peers : TextsBy("friend", log'[p]) =
              IF p = q THEN Append(TextsBy("friend", log[p]), t) ELSE TextsBy("friend", log[p])
         /\ \A p \in Peers : Heard(p)' =
              IF p = q /\ t # Garbage THEN Heard(p) \cup {t} ELSE Heard(p)
<1>1. \A p \in Peers : log'[p] = IF p = q THEN Append(log[p], Entry("friend", t)) ELSE log[p]
  BY DEF Hears, TypeOK
<1>2. Entry("friend", t) \in LogEntry /\ Entry("friend", t).who = "friend" /\ Entry("friend", t).text = t
  BY DEF Entry, LogEntry
<1>3. \A p \in Peers : log[p] \in Seq(LogEntry)
  BY DEF TypeOK
<1>5. TextsBy("you", log'[q]) = TextsBy("you", log[q])
  BY <1>1, <1>2, <1>3, TextsAppend
<1>6. TextsBy("friend", log'[q]) = Append(TextsBy("friend", log[q]), t)
  BY <1>1, <1>2, <1>3, TextsAppend
<1>7. Heard(q)' = IF t # Garbage THEN Heard(q) \cup {t} ELSE Heard(q)
  BY <1>1, HistoryGrows
<1>8. \A p \in Peers : p # q => Heard(p)' = Heard(p)
  BY <1>1, HistorySame
<1>9. \A p \in Peers : SaidBy(p)' = TextsBy("you", log'[p])
  BY DEF SaidBy
<1> QED BY <1>1, <1>5, <1>6, <1>7, <1>8, <1>9 DEF SaidBy

LEMMA ChannelInductive ==
  ASSUME TypeOK, ChannelInv, [Next]_vars
  PROVE  ChannelInv'
<1>0. \A p \in Peers : /\ SaidBy(p) \in Seq(HistoryText) /\ sent[p] \in Nat
                       /\ Len(SaidBy(p)) = sent[p]
  BY TextsTypes DEF SaidBy, TypeOK, ChannelInv
(* What was said stays where it is, and the newest text is the last.       *)
<1>1. /\ \A p \in Peers : Len(SaidBy(p)') = sent'[p] /\ sent'[p] \in Nat
      /\ \A p \in Peers : \A m \in 1..sent[p] :
           m \in 1..sent'[p] /\ SaidBy(p)'[m] = SaidBy(p)[m]
      /\ \A q \in Peers, t \in Text : Says(q, t) =>
           t.n \in 1..sent'[q] /\ SaidBy(q)'[t.n] = t
  <2>1. CASE log' = log /\ sent' = sent
    <3>1. \A p \in Peers : SaidBy(p)' = SaidBy(p)
      BY <2>1 DEF SaidBy
    <3>2. ASSUME NEW q \in Peers, NEW t \in Text
          PROVE  ~Says(q, t)
      BY <1>0, <2>1 DEF Says, TypeOK
    <3> QED BY <1>0, <2>1, <3>1, <3>2
  <2>2. ASSUME NEW q \in Peers, NEW t \in Text, Says(q, t)
        PROVE  /\ \A p \in Peers : Len(SaidBy(p)') = sent'[p] /\ sent'[p] \in Nat
               /\ \A p \in Peers : \A m \in 1..sent[p] :
                    m \in 1..sent'[p] /\ SaidBy(p)'[m] = SaidBy(p)[m]
               /\ t.n \in 1..sent'[q] /\ SaidBy(q)'[t.n] = t
    <3>1. /\ \A p \in Peers : SaidBy(p)' = IF p = q THEN Append(SaidBy(p), t) ELSE SaidBy(p)
          /\ \A p \in Peers : sent'[p] = IF p = q THEN sent[p] + 1 ELSE sent[p]
          /\ t.n = sent[q] + 1 /\ t \in HistoryText
      BY <2>2, SaysThen DEF Says, HistoryText
    <3>2. ASSUME NEW p \in Peers, p # q
          PROVE  /\ Len(SaidBy(p)') = sent'[p] /\ sent'[p] \in Nat
                 /\ \A m \in 1..sent[p] : m \in 1..sent'[p] /\ SaidBy(p)'[m] = SaidBy(p)[m]
      BY <1>0, <3>1, <3>2
    <3>3. /\ Len(SaidBy(q)') = sent'[q] /\ sent'[q] \in Nat
          /\ \A m \in 1..sent[q] : m \in 1..sent'[q] /\ SaidBy(q)'[m] = SaidBy(q)[m]
          /\ t.n \in 1..sent'[q] /\ SaidBy(q)'[t.n] = t
      <4>1. /\ Len(Append(SaidBy(q), t)) = sent[q] + 1
            /\ \A m \in 1..sent[q] : Append(SaidBy(q), t)[m] = SaidBy(q)[m]
            /\ Append(SaidBy(q), t)[sent[q] + 1] = t
        BY <1>0, <3>1, AppendProperties
      <4>2. SaidBy(q)' = Append(SaidBy(q), t) /\ sent'[q] = sent[q] + 1
        BY <3>1
      <4> QED BY <1>0, <3>1, <4>1, <4>2
    <3> QED BY <3>2, <3>3
  <2>3. ASSUME NEW q \in Peers, NEW t \in Text \cup {Garbage}, Hears(q, t)
        PROVE  /\ \A p \in Peers : Len(SaidBy(p)') = sent'[p] /\ sent'[p] \in Nat
               /\ \A p \in Peers : \A m \in 1..sent[p] :
                    m \in 1..sent'[p] /\ SaidBy(p)'[m] = SaidBy(p)[m]
               /\ \A r \in Peers, u \in Text : ~Says(r, u)
    <3>1. \A p \in Peers : SaidBy(p)' = SaidBy(p) /\ sent' = sent
      BY <2>3, HearsThen DEF Hears
    <3>2. ASSUME NEW r \in Peers, NEW u \in Text
          PROVE  ~Says(r, u)
      BY <1>0, <3>1 DEF Says, TypeOK
    <3> QED BY <1>0, <3>1, <3>2
  <2>4. ASSUME NEW q \in Peers, NEW t \in Text, Says(q, t), NEW r \in Peers, NEW u \in Text, Says(r, u)
        PROVE  u.n \in 1..sent'[r] /\ SaidBy(r)'[u.n] = u
    BY <2>2, <2>4
  <2> QED BY <2>1, <2>2, <2>3, <2>4, HistoryStep
<1>2. ASSUME NEW p \in Peers, NEW n \in DOMAIN net'[p], net'[p][n].kind = "T"
      PROVE  /\ net'[p][n].text.n \in 1..sent'[Other(p)]
             /\ SaidBy(Other(p))'[net'[p][n].text.n] = net'[p][n].text
  <2>0. Other(p) \in Peers
    BY OtherPeer
  <2>1. CASE \E k \in DOMAIN net[p] : net'[p][n] = net[p][k]
    <3>1. PICK k \in DOMAIN net[p] : net'[p][n] = net[p][k]
      BY <2>1
    <3> DEFINE t == net[p][k].text
    <3>2. t.n \in 1..sent[Other(p)] /\ SaidBy(Other(p))[t.n] = t
      BY <1>2, <3>1 DEF ChannelInv
    <3>3. net'[p][n].text = t
      BY <3>1
    <3> HIDE DEF t
    <3> QED BY <1>1, <2>0, <3>2, <3>3
  <2>2. CASE \E t \in Text :
               /\ t.n = sent[Other(p)] + 1
               /\ log' = [log EXCEPT ![Other(p)] = Append(@, Entry("you", t))]
               /\ net'[p][n].text = t
    <3>1. PICK t \in Text :
               /\ t.n = sent[Other(p)] + 1
               /\ log' = [log EXCEPT ![Other(p)] = Append(@, Entry("you", t))]
               /\ net'[p][n].text = t
      BY <2>2
    <3>2. Says(Other(p), t)
      <4> DEFINE o == Other(p)
      <4>1. log[o] \in Seq(LogEntry) /\ log' \in [Peers -> Seq(LogEntry)]
            /\ log'[o] = Append(log[o], Entry("you", t))
        BY <2>0, <3>1, TypeInductive DEF TypeOK
      <4>2. log'[o] # log[o] /\ \A u : log'[o] = Append(log[o], Entry("friend", u)) => FALSE
        <5>1. Len(Append(log[o], Entry("you", t))) = Len(log[o]) + 1 /\ Len(log[o]) \in Nat
          BY <4>1, LenProperties
        <5>2. \A e : Append(log[o], e)[Len(log[o]) + 1] = e
          BY <4>1
        <5>3. \A u : Entry("friend", u) # Entry("you", t)
          <6>1. \A u : Entry("friend", u).who = "friend" /\ Entry("you", t).who = "you"
            BY DEF Entry
          <6> QED BY <6>1
        <5> QED BY <4>1, <5>1, <5>2, <5>3
      <4>3. ASSUME NEW q \in Peers, NEW u \in Text, Says(q, u)
            PROVE  Says(o, t)
        <5>1. q = o
          BY <2>0, <4>2, <4>3 DEF Says, TypeOK
        <5>2. sent' = [sent EXCEPT ![o] = @ + 1]
          BY <4>3, <5>1 DEF Says
        <5> QED BY <3>1, <5>2 DEF Says
      <4>4. ASSUME NEW q \in Peers, NEW u, Hears(q, u)
            PROVE  FALSE
        <5>1. CASE q = o
          BY <2>0, <4>2, <4>4, <5>1 DEF Hears, TypeOK
        <5>2. CASE q # o
          BY <2>0, <4>2, <4>4, <5>2 DEF Hears, TypeOK
        <5> QED BY <5>1, <5>2
      <4> HIDE DEF o
      <4>5. Says(o, t)
        BY <4>2, <4>3, <4>4, HistoryStep
      <4> QED BY <4>5 DEF o
    <3> QED BY <1>1, <2>0, <3>1, <3>2
  <2> QED BY <1>2, <2>1, <2>2, QueueStep
<1> QED BY <1>1, <1>2 DEF ChannelInv

(* The numbers of the texts p has heard; the greatest is its place.        *)
Numbers(p) == {0} \cup {t.n : t \in Heard(p)}

LEMMA PlaceIs ==
  /\ \A p : Place(p) = Max(Numbers(p))
  /\ \A p : Place(p)' = Max(Numbers(p)')
<1>1. ASSUME NEW p
      PROVE  {log[p][m].text.n : m \in {k \in DOMAIN log[p] : Genuine(log[p][k])}}
               = {t.n : t \in Heard(p)}
  BY DEF Heard
<1>2. ASSUME NEW p
      PROVE  {log'[p][m].text.n : m \in {k \in DOMAIN log'[p] : Genuine(log'[p][k])}}
               = {t.n : t \in Heard(p)'}
  BY DEF Heard
<1> QED BY <1>1, <1>2 DEF Place, Numbers

(* A text on its way is beyond what its receiver has heard.                *)
LEMMA Beyond ==
  ASSUME TypeOK, OrderInv, NEW p \in Peers, NEW n \in DOMAIN net[p], net[p][n].kind = "T"
  PROVE  /\ Place(p) \in Nat
         /\ Place(p) < net[p][n].text.n
         /\ \A t \in Heard(p) : t.n \in Nat /\ t.n < net[p][n].text.n
<1>0. sent[Other(p)] \in Nat
  BY OtherPeer DEF TypeOK
<1>1. PICK lo \in 0..sent[Other(p)] : UpTo(log[p], lo) /\ Ordered(net[p], lo, sent[Other(p)])
  BY DEF OrderInv
<1>2. lo \in Nat
  BY <1>0
<1>3. \A t \in Heard(p) : t.n <= lo
  BY <1>1 DEF UpTo, Heard
<1>4. \A t \in Heard(p) : t.n \in Nat
  BY TextsTyped
<1>5. lo < net[p][n].text.n
  BY <1>1 DEF Ordered
<1>6. net[p][n].text.n \in Nat
  <2>1. net[p][n] \in Packet
    BY ElementOfSeq, LenProperties DEF TypeOK
  <2> QED BY <2>1 DEF Packet, Text
<1>7. Numbers(p) \in SUBSET Nat /\ Numbers(p) # {} /\ \A x \in Numbers(p) : x <= lo
  BY <1>2, <1>3, <1>4 DEF Numbers
<1>8. Max(Numbers(p)) \in Numbers(p)
  BY <1>2, <1>7, GreatestExists
<1>9. Place(p) \in Nat /\ Place(p) <= lo
  BY <1>7, <1>8, PlaceIs
<1> QED BY <1>2, <1>3, <1>4, <1>5, <1>6, <1>9

LEMMA ChannelStep ==
  ASSUME TypeOK, ChannelInv, OrderInv, [Next]_vars
  PROVE  [Channel!Next]_(Channel!channel)
<1> DEFINE said == [p \in Peers |-> TextsBy("you", log[p])]
           heard == [p \in Peers |-> TextsBy("friend", log[p])]
           place == [p \in Peers |-> Place(p)]
<1>0. /\ \A p \in Peers : said[p] = SaidBy(p) /\ said'[p] = SaidBy(p)'
      /\ \A p \in Peers : heard[p] = TextsBy("friend", log[p]) /\ heard'[p] = TextsBy("friend", log'[p])
      /\ \A p \in Peers : place[p] = Place(p) /\ place'[p] = Place(p)'
  BY DEF SaidBy
<1>f. /\ said = [p \in Peers |-> said[p]] /\ said' = [p \in Peers |-> said'[p]]
      /\ heard = [p \in Peers |-> heard[p]] /\ heard' = [p \in Peers |-> heard'[p]]
      /\ place = [p \in Peers |-> place[p]] /\ place' = [p \in Peers |-> place'[p]]
  OBVIOUS
<1>a. \A p : (Heard(p)' = Heard(p) => Place(p)' = Place(p))
  <2>1. \A p : Place(p)' = Max(Numbers(p)')
    BY PlaceIs
  <2> QED BY <2>1, PlaceIs DEF Numbers
<1>1. CASE log' = log
  <2>1. \A p : Place(p)' = Place(p)
    BY <1>a, <1>1, HistorySame
  <2>2. said' = said /\ heard' = heard /\ place' = place
    BY <1>1, <2>1
  <2> QED BY <2>2 DEF Channel!channel
<1> HIDE DEF said, heard, place
<1>2. ASSUME NEW q \in Peers, NEW t \in TextsInUse \cap Text, Says(q, t)
      PROVE  Channel!Say(q)
  <2>1. /\ \A p \in Peers : said'[p] = IF p = q THEN Append(said[p], t) ELSE said[p]
        /\ \A p \in Peers : heard'[p] = heard[p]
        /\ \A p \in Peers : place'[p] = place[p]
    <3>1. /\ \A p \in Peers : SaidBy(p)' = IF p = q THEN Append(SaidBy(p), t) ELSE SaidBy(p)
          /\ \A p \in Peers : TextsBy("friend", log'[p]) = TextsBy("friend", log[p])
          /\ \A p \in Peers : Heard(p)' = Heard(p)
      BY <1>2, SaysThen
    <3>2. \A p \in Peers : Place(p)' = Place(p)
      BY <1>a, <3>1
    <3>3. \A p \in Peers : said'[p] = IF p = q THEN Append(said[p], t) ELSE said[p]
      BY <1>0, <3>1
    <3> QED BY <1>0, <3>1, <3>2, <3>3
  <2>2. said' = [said EXCEPT ![q] = Append(@, t)]
    BY <1>f, <2>1
  <2>3. heard' = heard /\ place' = place
    BY <1>f, <2>1, Zenon
  <2> QED BY <1>2, <2>2, <2>3 DEF Channel!Say, said, heard, place
<1>3. ASSUME NEW q \in Peers, Hears(q, Garbage)
      PROVE  Channel!HearGarbled(q)
  <2>1. /\ \A p \in Peers : said'[p] = said[p]
        /\ \A p \in Peers : heard'[p] = IF p = q THEN Append(heard[p], Garbage) ELSE heard[p]
        /\ \A p \in Peers : Heard(p)' = Heard(p)
    BY <1>0, <1>3, HearsThen
  <2>2. \A p \in Peers : place'[p] = place[p]
    BY <1>0, <1>a, <2>1
  <2>3. heard' = [heard EXCEPT ![q] = Append(@, Garbage)]
    BY <1>f, <2>1
  <2>4. said' = said /\ place' = place
    BY <1>f, <2>1, <2>2, Zenon
  <2> QED BY <2>3, <2>4 DEF Channel!HearGarbled, said, heard, place
<1>4. ASSUME NEW q \in Peers, NEW t \in Text, Hears(q, t)
      PROVE  Channel!Hear(q)
  <2>0. t # Garbage /\ Other(q) \in Peers
    BY GarbageAssumption, OtherPeer
  <2>1. PICK n \in Deliverable(q) : net[q][n].kind = "T" /\ t = net[q][n].text
    BY <1>4, <2>0 DEF Hears
  <2>2. n \in DOMAIN net[q]
    BY DEF Deliverable
  <2>3. t.n \in 1..sent[Other(q)] /\ SaidBy(Other(q))[t.n] = t /\ Len(SaidBy(Other(q))) = sent[Other(q)]
    BY <2>0, <2>1, <2>2 DEF ChannelInv
  <2>4. Place(q) \in Nat /\ Place(q) < t.n /\ \A u \in Heard(q) : u.n \in Nat /\ u.n < t.n
    BY <2>1, <2>2, Beyond
  <2>5. /\ \A p \in Peers : said'[p] = said[p]
        /\ \A p \in Peers : heard'[p] = IF p = q THEN Append(heard[p], t) ELSE heard[p]
        /\ \A p \in Peers : Heard(p)' = IF p = q THEN Heard(p) \cup {t} ELSE Heard(p)
    BY <1>0, <1>4, <2>0, HearsThen
  <2>6. Place(q)' = t.n
    <3>1. Place(q)' = Max(Numbers(q)')
      BY PlaceIs
    <3>2. Numbers(q)' = {0} \cup {u.n : u \in Heard(q) \cup {t}}
      BY <2>5 DEF Numbers
    <3>3. Max({0} \cup {u.n : u \in Heard(q) \cup {t}}) = t.n
      <4> DEFINE S == {0} \cup {u.n : u \in Heard(q) \cup {t}}
      <4>1. S \in SUBSET Nat /\ t.n \in S /\ \A x \in S : x <= t.n
        BY <2>3, <2>4
      <4>2. Max(S) = t.n
        <5> HIDE DEF S
        <5> QED BY <4>1, GreatestIs
      <4> QED BY <4>2
    <3> QED BY <3>1, <3>2, <3>3
  <2>7. \A p \in Peers : p # q => place'[p] = place[p]
    BY <1>0, <1>a, <2>5
  <2>8. said' = said
    BY <1>f, <2>5, Zenon
  <2>9. place' = [place EXCEPT ![q] = t.n]
    BY <1>0, <1>f, <2>6, <2>7
  <2>10. heard' = [heard EXCEPT ![q] = Append(@, said[Other(q)][t.n])]
    <3>1. said[Other(q)][t.n] = t
      BY <1>0, <2>0, <2>3
    <3> QED BY <1>f, <2>5, <3>1
  <2>11. t.n \in (place[q] + 1)..Len(said[Other(q)])
    BY <1>0, <2>0, <2>3, <2>4
  <2> QED BY <2>8, <2>9, <2>10, <2>11 DEF Channel!Hear, said, heard, place
<1>5. \/ log' = log
      \/ \E q \in Peers : Channel!Say(q) \/ Channel!HearGarbled(q) \/ Channel!Hear(q)
  BY <1>2, <1>3, <1>4, HistoryStep
<1> QED BY <1>1, <1>5 DEF Channel!Next

(* The two clients and the packets between them implement a friend         *)
(* channel, for any texts, keys and restarts, as long as the network       *)
(* neither repeats nor reorders packets.                                   *)
THEOREM RefinesFriendChannel ==
  ASSUME Faults \subseteq {"loss", "crash"}
  PROVE  Spec => ImplementsFriendChannel
<1>1. Init => ChannelInv /\ OrderInv /\ Channel!Init
  <2> SUFFICES ASSUME Init
               PROVE  ChannelInv /\ OrderInv /\ Channel!Init
    OBVIOUS
  <2>1. \A p \in Peers : log[p] = <<>> /\ net[p] = <<>> /\ sent[p] = 0
    BY DEF Init
  <2>2. ChannelInv
    BY <2>1, TextsEmpty DEF ChannelInv, SaidBy
  <2>3. \A p \in Peers : Heard(p) = {}
    BY <2>1 DEF Heard
  <2>4. \A p \in Peers : Numbers(p) = {0}
    BY <2>3 DEF Numbers
  <2>5. \A p \in Peers : Place(p) = 0
    <3>1. Max({0}) = 0
      BY GreatestIs
    <3> QED BY <2>4, <3>1, PlaceIs
  <2>6. Channel!Init
    BY <2>1, <2>5, TextsEmpty DEF Channel!Init
  <2> QED BY <2>2, <2>6, OrderInit
<1>2. TypeOK /\ ChannelInv /\ OrderInv /\ [Next]_vars
        => ChannelInv' /\ OrderInv' /\ [Channel!Next]_(Channel!channel)
  BY ChannelInductive, OrderInductive, ChannelStep
<1> QED BY <1>1, <1>2, TypeCorrect, PTL DEF Spec, ImplementsFriendChannel, Channel!Spec
=============================================================================

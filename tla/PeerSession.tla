---------------------------- MODULE PeerSession ----------------------------
(***************************************************************************)
(* Two friends of QChat and the two udp_server objects that face each      *)
(* other (client/main.cpp): the exchange of the session AES key, the text  *)
(* messages sent under it, and what each side keeps of them: the key file  *)
(* friends/<uuid>/AES, the history friends/<uuid>/messages.txt and the     *)
(* in-memory counter of unread messages.                                   *)
(*                                                                         *)
(* Every handler of the client runs on one io_context thread, so one       *)
(* action is one handler; what interleaves is the two peers, their users   *)
(* and the network.  Of a packet the model keeps what the handlers tell    *)
(* apart: its kind (the bytes after 'F'), the key it was made with, the    *)
(* text and its two-byte length field.  A packet the CRC rejects is a lost *)
(* packet.  The file packets ('F') and the punch packets ('N') of the same *)
(* socket are left to other modules.                                       *)
(***************************************************************************)
EXTENDS Naturals, Sequences, SequencesExt

CONSTANTS
  Alice, Bob,       \* the two clients
  Initiators,       \* the users who press the "exchange keys" button
  Faults,           \* what the network and the processes may do
  UpAtStart,        \* the clients whose connection object exists at start
  KeysAtStart,      \* the key files earlier sessions may have left
  Sizes,            \* the sizes in bytes of the texts the users write
  Garbage,          \* what a decryption with the wrong key may return
  MaxTexts,         \* bound: texts each user sends
  MaxExchanges,     \* bound: exchanges each initiator starts
  MaxDups           \* bound: packets the network duplicates

Peers == {Alice, Bob}

(* The key file holds no usable key: it is missing, empty or torn.         *)
NoKey == 0
(* Keys up to this one come from earlier sessions.                         *)
OldKeys == 2

ASSUME PeersAssumption == Alice # Bob
ASSUME InitiatorsAssumption == Initiators \subseteq Peers
ASSUME FaultsAssumption == Faults \subseteq {"loss", "dup", "reorder", "crash"}
ASSUME UpAssumption == UpAtStart \subseteq Peers
ASSUME KeysAssumption == KeysAtStart \subseteq 0..OldKeys
ASSUME SizesAssumption == Sizes \subseteq Nat
ASSUME BoundsAssumption == MaxTexts \in Nat /\ MaxExchanges \in Nat /\ MaxDups \in Nat

(* The n-th text that peer "by" wrote, "size" bytes long.                  *)
Text == [by : Peers, n : Nat, size : Nat]
ASSUME GarbageAssumption == Garbage \notin Text

VARIABLES
  up,         \* the peers whose user_connections entry is a live udp_server
  key,        \* key[p]: the key in p's file friends/<other>/AES
  net,        \* net[p]: the packets travelling to p, the oldest first
  log,        \* log[p]: p's messages.txt for the other peer
  unread,     \* unread[p]: p's notifications_count for the other peer
  selected,   \* selected[p]: whether the other peer is p's selected_user
  made,       \* the newest key number in use: RAND_bytes never repeats one
  sent,       \* sent[p]: the texts p has written
  exchanges,  \* exchanges[p]: the exchanges p has started
  dups        \* the packets duplicated so far

vars == <<up, key, net, log, unread, selected, made, sent, exchanges, dups>>

Other(p) == IF p = Alice THEN Bob ELSE Alice

----------------------------------------------------------------------------
(* Packets.                                                                *)

PublicKey == [kind |-> "P"]
WrappedKey(k) == [kind |-> "A", key |-> k]

(* aes_encrypt: a 16 byte IV, then whole blocks with at least one byte of  *)
(* padding.                                                                *)
EncLen(n) == 16 + 16 * ((n \div 16) + 1)

(* send_text cuts the message before it encrypts it.                       *)
MaxTextSize == 477
Cut(n) == IF n > MaxTextSize THEN MaxTextSize ELSE n

(* Without a key send_text puts the bare text into the payload: a receiver *)
(* takes its first two characters for the length, and the first one is at  *)
(* least a tab.                                                            *)
BareLen(n) == IF n = 0 THEN 0 ELSE 9 * 256

TextPacket(k, t) ==
  [kind |-> "T", key |-> k, text |-> t,
   len |-> IF k = NoKey THEN BareLen(t.size) ELSE EncLen(Cut(t.size))]

Packet == [kind : {"P"}] \cup [kind : {"A"}, key : Nat]
            \cup [kind : {"T"}, key : Nat, text : Text, len : Nat]

(* The 'T' branch refuses a length it could not have room for.             *)
MaxEncLen == 493
LengthAccepted(l) == l # 0 /\ l <= MaxEncLen

(* What the receiver makes of text packet m with the key k in its file:    *)
(* the texts it appends to the history, none or one.  CBC without a MAC    *)
(* lets a wrong key pass about once in 256 times, with a garbled text.  An *)
(* empty text is not saved.                                                *)
Readings(m, k) ==
  IF k = NoKey \/ ~LengthAccepted(m.len) THEN {<<>>}
  ELSE IF m.key # k THEN {<<>>, <<Garbage>>}
  ELSE IF m.text.size = 0 THEN {<<>>} ELSE {<<m.text>>}

Entry(who, t) == [who |-> who, text |-> t]
LogEntry == [who : {"you", "friend"}, text : Text \cup {Garbage}]

----------------------------------------------------------------------------
Init ==
  /\ up = UpAtStart
  /\ key \in [Peers -> KeysAtStart]
  /\ net = [p \in Peers |-> <<>>]
  /\ log = [p \in Peers |-> <<>>]
  /\ unread = [p \in Peers |-> 0]
  /\ selected \in [Peers -> BOOLEAN]
  /\ made = OldKeys
  /\ sent = [p \in Peers |-> 0]
  /\ exchanges = [p \in Peers |-> 0]
  /\ dups = 0

----------------------------------------------------------------------------
(* The users.                                                              *)

(* GET /exchange_keys with a live connection: send_ECC_public_key.         *)
ExchangeKeys(p) ==
  /\ p \in Initiators \cap up
  /\ exchanges[p] < MaxExchanges
  /\ exchanges' = [exchanges EXCEPT ![p] = @ + 1]
  /\ net' = [net EXCEPT ![Other(p)] = Append(@, PublicKey)]
  /\ UNCHANGED <<up, key, log, unread, selected, made, sent, dups>>

(* Bugs to compare with: the history is not written, or with a wrong tag.  *)
KeptNot(p, t) == log[p]
KeptUntagged(p, t) == Append(log[p], Entry("me", t))
(* save_message of a text of one's own.                                    *)
Kept(p, t) == Append(log[p], Entry("you", t))

(* POST /send: the text is saved as "you" whether or not it can be sent.   *)
SendText(p) ==
  /\ sent[p] < MaxTexts
  /\ \E s \in Sizes :
       LET t == [by |-> p, n |-> sent[p] + 1, size |-> s]
       IN  /\ log' = [log EXCEPT ![p] = Kept(p, t)]
           /\ net' = IF p \in up
                       THEN [net EXCEPT ![Other(p)] = Append(@, TextPacket(key[p], t))]
                       ELSE net
  /\ sent' = [sent EXCEPT ![p] = @ + 1]
  /\ UNCHANGED <<up, key, unread, selected, made, exchanges, dups>>

(* GET /select_user of the other peer, and of some other friend.           *)
SelectPeer(p) ==
  /\ selected' = [selected EXCEPT ![p] = TRUE]
  /\ unread' = [unread EXCEPT ![p] = 0]
  /\ UNCHANGED <<up, key, net, log, made, sent, exchanges, dups>>

SelectAnother(p) ==
  /\ selected' = [selected EXCEPT ![p] = FALSE]
  /\ UNCHANGED <<up, key, net, log, unread, made, sent, exchanges, dups>>

(* remove_friend of the selected friend picks a new one by itself and does *)
(* not reset that one's counter.                                           *)
SelectByDefault(p) ==
  /\ ~selected[p]
  /\ selected' = [selected EXCEPT ![p] = TRUE]
  /\ UNCHANGED <<up, key, net, log, unread, made, sent, exchanges, dups>>

(* A udp_server is created once the ports are known.                       *)
Connect(p) ==
  /\ p \notin up
  /\ up' = up \cup {p}
  /\ UNCHANGED <<key, net, log, unread, selected, made, sent, exchanges, dups>>

----------------------------------------------------------------------------
(* handle_receive.                                                         *)

(* The positions of net[p] the socket may hand over next.                  *)
Deliverable(p) ==
  {n \in DOMAIN net[p] : p \in up /\ (n = 1 \/ "reorder" \in Faults)}

(* A bug to compare with: a packet is handled and stays in the buffer.     *)
TakenNot(p, n) == net
(* The receive buffer is emptied and the next receive started.             *)
Taken(p, n) == [net EXCEPT ![p] = RemoveAt(@, n)]

(* A bug to compare with: the first key a file gets stays there.           *)
AdoptedOnce(p, k) == IF key[p] = NoKey THEN k ELSE key[p]
(* The key received replaces the one in the file.                          *)
Adopted(p, k) == k

(* 'A': the wrapped key is decrypted with the private key and saved.       *)
RecvWrappedKey(p, n) ==
  /\ net[p][n].kind = "A"
  /\ key' = [key EXCEPT ![p] = Adopted(p, net[p][n].key)]
  /\ net' = Taken(p, n)
  /\ UNCHANGED <<up, log, unread, selected, made, sent, exchanges, dups>>

(* A bug to compare with: the fresh key is never sent.                     *)
AnsweredNot(p, n) == Taken(p, n)
(* send_encrypted_AES_key: the fresh key, wrapped for the key received.    *)
Answered(p, n) == [Taken(p, n) EXCEPT ![Other(p)] = Append(@, WrappedKey(made + 1))]

(* 'P': a fresh key is generated, written to the file and sent back.       *)
RecvPublicKey(p, n) ==
  /\ net[p][n].kind = "P"
  /\ made' = made + 1
  /\ key' = [key EXCEPT ![p] = made + 1]
  /\ net' = Answered(p, n)
  /\ UNCHANGED <<up, log, unread, selected, sent, exchanges, dups>>

(* A saved text of a friend who is not selected is one more unread.        *)
Counted(p, texts) == IF selected[p] THEN 0 ELSE Len(texts)

(* 'T': a text that can be read is saved as "friend".                      *)
RecvText(p, n) ==
  /\ net[p][n].kind = "T"
  /\ \E texts \in Readings(net[p][n], key[p]) :
       /\ log' = [log EXCEPT ![p] = @ \o [i \in 1..Len(texts) |-> Entry("friend", texts[i])]]
       /\ unread' = [unread EXCEPT ![p] = @ + Counted(p, texts)]
  /\ net' = Taken(p, n)
  /\ UNCHANGED <<up, key, selected, made, sent, exchanges, dups>>

Receive(p) ==
  \E n \in Deliverable(p) :
    RecvPublicKey(p, n) \/ RecvWrappedKey(p, n) \/ RecvText(p, n)

----------------------------------------------------------------------------
(* The network, and clients that stop.                                     *)

(* A packet is lost on the way, or nobody listens on its port.             *)
Lose(p) ==
  /\ \E n \in DOMAIN net[p] :
       /\ "loss" \in Faults \/ (p \notin up /\ n = 1)
       /\ net' = Taken(p, n)
  /\ UNCHANGED <<up, key, log, unread, selected, made, sent, exchanges, dups>>

Duplicate(p) ==
  /\ "dup" \in Faults
  /\ dups < MaxDups
  /\ dups' = dups + 1
  /\ \E n \in DOMAIN net[p] : net' = [net EXCEPT ![p] = Append(@, @[n])]
  /\ UNCHANGED <<up, key, log, unread, selected, made, sent, exchanges>>

(* The client starts again: the counters are gone, user_selection picks a  *)
(* friend, load_connections succeeds or not, and a part of the queue that  *)
(* had reached the dead socket is lost.                                    *)
Restarted(p, queue) ==
  /\ up' \in {up \cup {p}, up \ {p}}
  /\ unread' = [unread EXCEPT ![p] = 0]
  /\ \E b \in BOOLEAN : selected' = [selected EXCEPT ![p] = b]
  /\ \E m \in 0..Len(queue) :
       net' = [net EXCEPT ![p] = SubSeq(queue, m + 1, Len(queue))]
  /\ UNCHANGED <<log, sent, exchanges, dups>>

(* GET /exchange_keys without a connection dereferences a null pointer;    *)
(* other crashes look the same.                                            *)
Crash(p) ==
  /\ "crash" \in Faults
  /\ Restarted(p, net[p])
  /\ UNCHANGED <<key, made>>

(* generate_AES or the 'A' branch has truncated the key file and the key   *)
(* was not flushed to it, or it was and the answer to 'P' was not sent.    *)
CrashWritingKey(p) ==
  /\ "crash" \in Faults
  /\ \E n \in Deliverable(p) :
       /\ Restarted(p, RemoveAt(net[p], n))
       /\ \/ /\ net[p][n].kind \in {"P", "A"}
             /\ key' = [key EXCEPT ![p] = NoKey]
             /\ made' = made
          \/ /\ net[p][n].kind = "P"
             /\ key' = [key EXCEPT ![p] = made + 1]
             /\ made' = made + 1

----------------------------------------------------------------------------
Next ==
  \E p \in Peers :
    \/ ExchangeKeys(p) \/ SendText(p)
    \/ SelectPeer(p) \/ SelectAnother(p) \/ SelectByDefault(p)
    \/ Connect(p) \/ Receive(p)
    \/ Lose(p) \/ Duplicate(p) \/ Crash(p) \/ CrashWritingKey(p)

Spec == Init /\ [][Next]_vars

(* The io_context runs every handler that is ready, so a packet that has   *)
(* arrived is handled.                                                     *)
FairSpec == Spec /\ \A p \in Peers : WF_vars(Receive(p))

----------------------------------------------------------------------------
(* Properties.                                                             *)

TypeOK ==
  /\ up \subseteq Peers
  /\ key \in [Peers -> Nat]
  /\ net \in [Peers -> Seq(Packet)]
  /\ log \in [Peers -> Seq(LogEntry)]
  /\ unread \in [Peers -> Nat]
  /\ selected \in [Peers -> BOOLEAN]
  /\ made \in Nat
  /\ sent \in [Peers -> Nat]
  /\ exchanges \in [Peers -> Nat]
  /\ dups \in Nat

(* The text of entry e came from the other peer and was decrypted well.    *)
Genuine(e) == e.who = "friend" /\ e.text # Garbage

(* Whatever the network and crashes do, a text a history shows as the      *)
(* friend's is garbled or is one the friend's own history holds as "you":  *)
(* nothing is attributed to a friend who did not write it.                 *)
HistoryGenuine ==
  \A p \in Peers : \A m \in DOMAIN log[p] :
    Genuine(log[p][m]) =>
      \E j \in DOMAIN log[Other(p)] :
        log[Other(p)][j] = Entry("you", log[p][m].text)

(* As long as packets are not duplicated or reordered, the friend's texts  *)
(* stand in the history in the order they were written, none twice: after  *)
(* lost packets, key changes and restarts too.                             *)
InOrder ==
  \A p \in Peers : \A m, n \in DOMAIN log[p] :
    m < n /\ Genuine(log[p][m]) /\ Genuine(log[p][n])
      => log[p][m].text.n < log[p][n].text.n

AnswerPending(p) == \E n \in DOMAIN net[p] : net[p][n].kind = "A"

(* Once somebody has answered an exchange and no answer is on its way any  *)
(* more, both key files hold the same key.                                 *)
KeysAgreeWhenQuiet ==
  made > OldKeys /\ (\A p \in Peers : ~AnswerPending(p))
    => key[Alice] = key[Bob] /\ key[Alice] # NoKey

(* The key p will hold when it handles the n-th packet of its queue.       *)
KeyAt(p, n) ==
  LET answers == {m \in 1..(n - 1) : net[p][m].kind = "A"}
  IN  IF answers = {} THEN key[p] ELSE net[p][Max(answers)].key

(* A text sent under a key of this session is decrypted with that key when *)
(* its turn comes, however many exchanges cross it.  It holds for texts    *)
(* towards the one who starts the exchanges: the answer goes before them.  *)
TextsToInitiatorReadable ==
  \A p \in Initiators : \A n \in DOMAIN net[p] :
    net[p][n].kind = "T" /\ net[p][n].key > OldKeys
      => net[p][n].key = KeyAt(p, n)

Fits(t) == t.size # 0 /\ EncLen(Cut(t.size)) <= MaxEncLen

(* From the first of them that the initiator reads, no text of the         *)
(* responder that fits a packet is missing: each later one is in the       *)
(* initiator's history or on its way.                                      *)
NoGapForInitiator ==
  \A p \in Initiators :
    LET heard == {log[p][m].text : m \in {k \in DOMAIN log[p] : Genuine(log[p][k])}}
        coming == {net[p][m].text : m \in {k \in DOMAIN net[p] : net[p][k].kind = "T"}}
    IN  \A t \in heard : \A j \in DOMAIN log[Other(p)] :
          LET e == log[Other(p)][j]
          IN  e.who = "you" /\ e.text.n > t.n /\ Fits(e.text)
                => e.text \in heard \cup coming

(* An exchange the user asks for ends with both files holding the same     *)
(* key.                                                                    *)
ExchangeCompletes ==
  \A p \in Initiators :
    exchanges[p] > 0 ~> key[p] = key[Other(p)] /\ key[p] # NoKey
=============================================================================

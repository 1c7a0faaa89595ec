------------------------ MODULE ClientSessionsProofs ------------------------
(***************************************************************************)
(* ClientSessions for any friends, ports and number of upsets: an entry    *)
(* and its udp_server live and die together, the chain of receives breaks  *)
(* only where it is cut, the file names no port but the socket's, the      *)
(* answer to a check-in names a port that is free, and a key that was      *)
(* asked for can be opened.                                                *)
(***************************************************************************)
EXTENDS ClientSessions, TLAPS

(* What holds of one place in memory, given the addresses in the files.    *)
Good(b, io) ==
  /\ b.use = "freed" => b.packets > 0
  /\ b.use = "object" =>
       /\ b.port = Closed \/ io[b.friend].port \in {Closed, b.port}
       /\ ~b.cut /\ ~b.stopped => b.port # Closed /\ b.reads + b.packets > 0

MemoryGood == \A s \in Slots : Good(block[s], ip_io)

Memory == NoOrphan /\ MemoryGood

(* What is known of the program while it is not up, and of the check-in.   *)
Phases ==
  /\ program = "down" => /\ \A f \in Friends : entry[f] = Absent
                         /\ \A s \in Slots : block[s].use = "blank"
  /\ program # "up" => checkin = NoCheckin
  /\ program = "loading" => \A f \in toLoad : entry[f] = Absent
  /\ checkin.asked => checkin.matches = {}

(* Every answer is wrapped for the key of this client.                     *)
Answers ==
  /\ program # "down" => identity \in Keys
  /\ identity \notin Keys => answers = {}
  /\ \A w \in answers : w = Wrap("aes", Public(identity), "once")

Inv == TypeOK /\ Memory /\ Phases /\ AnswerFits /\ Answers
-----------------------------------------------------------------------------
(* KeyWrap, for any keys: the owner of the private key, and of no other    *)
(* key, opens what was wrapped for its public half.                        *)
LEMMA OwnerUnwraps ==
  ASSUME NEW x, NEW k, NEW once
  PROVE  Unwrap(x, Wrap(k, Public(x), once)) = <<k>>
BY DEF Unwrap, Wrap, Shared, Public

LEMMA OthersDoNot ==
  ASSUME NEW x, NEW y, NEW k, NEW once, x # y
  PROVE  Unwrap(y, Wrap(k, Public(x), once)) = <<>>
BY DEF Unwrap, Wrap, Shared, Public

LEMMA UnusedBlock == Unused \in Block /\ Unused.use = "blank"
<1>1. (CHOOSE f \in Friends : TRUE) \in Friends
  BY FriendsAssumption
<1> QED BY <1>1 DEF Unused, Built, Block, Closed

LEMMA BuiltBlock ==
  ASSUME NEW f \in Friends, NEW p \in Ports
  PROVE  /\ Built(f, p) \in Block /\ Built(f, p).use = "object"
         /\ Built(f, p).friend = f /\ Built(f, p).port = p
         /\ Built(f, p).reads = 1 /\ Built(f, p).packets = 0
BY DEF Built, Block

LEMMA BuiltOverBlock ==
  ASSUME NEW f \in Friends, NEW p \in Ports, NEW d
  PROVE  /\ BuiltOver(d, f, p) \in Block /\ BuiltOver(d, f, p).use = "object"
         /\ BuiltOver(d, f, p).friend = f /\ BuiltOver(d, f, p).port = p
         /\ BuiltOver(d, f, p).reads = 1 /\ BuiltOver(d, f, p).packets \in Nat
<1> DEFINE b == Built(f, p)
           k == IF d.use = "freed" THEN 1 ELSE 0
<1>1. /\ b \in Block /\ b.use = "object" /\ b.friend = f /\ b.port = p /\ b.reads = 1
  BY BuiltBlock
<1>2. k \in Nat
  OBVIOUS
<1>3. BuiltOver(d, f, p) = [b EXCEPT !.packets = k]
  BY DEF BuiltOver
<1> HIDE DEF b, k
<1> QED BY <1>1, <1>2, <1>3 DEF Block

LEMMA HalfBuiltBlock ==
  ASSUME NEW f \in Friends
  PROVE  /\ HalfBuilt(f) \in Block /\ HalfBuilt(f).use = "freed"
         /\ HalfBuilt(f).packets = 2
BY DEF HalfBuilt, Built, Block, Closed

(* b is d with other numbers of receives and packets.                      *)
Counted(b, d, r, p) ==
  /\ b \in Block /\ b.use = d.use /\ b.friend = d.friend /\ b.port = d.port
  /\ b.reads = r /\ b.packets = p /\ b.cut = d.cut /\ b.stopped = d.stopped

LEMMA CountedBlock ==
  ASSUME NEW d \in Block, NEW r \in Nat, NEW p \in Nat
  PROVE  Counted([d EXCEPT !.reads = r, !.packets = p], d, r, p)
BY DEF Block, Counted

(* b is d with another number of receives, one packet of it cut.           *)
Shortened(b, d, r) ==
  /\ b \in Block /\ b.use = d.use /\ b.friend = d.friend /\ b.port = d.port
  /\ b.reads = r /\ b.packets = d.packets /\ b.cut

LEMMA CutBlock ==
  ASSUME NEW d \in Block, NEW r \in Nat
  PROVE  Shortened([d EXCEPT !.reads = r, !.cut = TRUE], d, r)
BY DEF Block, Shortened

LEMMA DeletedBlock ==
  ASSUME NEW d \in Block
  PROVE  Deleted(d) \in Block /\ Deleted(d).use = "freed" /\ Deleted(d).packets > 0
<1> DEFINE h == Halted(d)
           n == d.packets + d.reads + 1
<1>1. h \in Block /\ h.packets = d.packets /\ d.packets \in Nat /\ d.reads \in Nat
  BY DEF Halted, Block
<1>2. n \in Nat /\ n > 0
  BY <1>1
<1>3. Deleted(d) = [h EXCEPT !.use = "freed", !.packets = n, !.reads = 0,
                             !.port = Closed, !.cut = FALSE]
  BY <1>1 DEF Deleted, Block
<1> HIDE DEF h, n
<1>4. ASSUME NEW g \in Block
      PROVE  [g EXCEPT !.packets = n, !.reads = 0] \in Block
  BY <1>2 DEF Block
<1>5. ASSUME NEW g \in Block
      PROVE  [g EXCEPT !.use = "freed", !.port = Closed, !.cut = FALSE] \in Block
  BY DEF Block
<1>6. Deleted(d) = [[h EXCEPT !.packets = n, !.reads = 0]
                      EXCEPT !.use = "freed", !.port = Closed, !.cut = FALSE]
  BY <1>1, <1>3 DEF Block
<1>7. Deleted(d) \in Block
  BY <1>1, <1>4, <1>5, <1>6
<1>8. Deleted(d).use = "freed" /\ Deleted(d).packets = n
  BY <1>1, <1>3 DEF Block
<1> QED BY <1>2, <1>7, <1>8

LEMMA PlaceIsBlank ==
  ASSUME NEW f \in Friends, Blank # {}
  PROVE  Place(f) \in Blank
<1>1. PICK t \in Blank : t = IF f \in Blank THEN f ELSE IF Spare \in Blank THEN Spare ELSE t
  OBVIOUS
<1> QED BY <1>1 DEF Place

(* One place changes, together with the entry and the file of one friend.  *)
LEMMA Replaced ==
  ASSUME TypeOK, Memory, NEW f \in Friends, NEW s \in Slots, NEW b \in Block, NEW e,
         Good(b, ip_io'),
         block' = [block EXCEPT ![s] = b],
         entry' = [entry EXCEPT ![f] = e],
         \A g \in Friends \ {f} : ip_io'[g] = ip_io[g],
         block[s].use = "object" => block[s].friend = f,
         entry[f] \in Slots => entry[f] = s,
         b.use = "object" => b.friend = f /\ e = s,
         b.use # "object" => e \notin Slots
  PROVE  Memory' /\ block' \in [Slots -> Block]
<1>1. block \in [Slots -> Block] /\ entry \in [Friends -> Slots \cup {Absent, Null}]
  BY DEF TypeOK
<1>2. block' \in [Slots -> Block]
  BY <1>1
<1>3. ASSUME NEW t \in Slots, t # s, block[t].use = "object"
      PROVE  block[t].friend \in Friends \ {f} /\ entry[block[t].friend] = t
  <2>1. block[t].friend \in Friends
    BY <1>1, <1>3 DEF Block
  <2>2. entry[block[t].friend] = t
    BY <1>3 DEF Memory, NoOrphan, Sessions
  <2> QED BY <1>3, <2>1, <2>2
<1>4. ASSUME NEW g \in Friends, entry'[g] \in Slots
      PROVE  block'[entry'[g]].use = "object" /\ block'[entry'[g]].friend = g
  <2>1. CASE g = f
    <3>1. entry'[f] = e
      BY <1>1
    <3>2. e = s /\ b.use = "object" /\ b.friend = f
      BY <1>4, <2>1, <3>1
    <3> QED BY <1>1, <2>1, <3>1, <3>2
  <2>2. CASE g # f
    <3>1. entry'[g] = entry[g]
      BY <1>1, <2>2
    <3>2. block[entry[g]].use = "object" /\ block[entry[g]].friend = g
      BY <1>4, <3>1 DEF Memory, NoOrphan
    <3>3. entry[g] # s
      BY <2>2, <3>2
    <3> QED BY <1>1, <1>4, <3>1, <3>2, <3>3
  <2> QED BY <2>1, <2>2
<1>5. ASSUME NEW t \in Slots, block'[t].use = "object"
      PROVE  entry'[block'[t].friend] = t
  <2>1. CASE t = s
    BY <1>1, <1>5, <2>1
  <2>2. CASE t # s
    <3>1. block'[t] = block[t]
      BY <1>1, <2>2
    <3> QED BY <1>1, <1>3, <1>5, <2>2, <3>1
  <2> QED BY <2>1, <2>2
<1>6. NoOrphan'
  BY <1>4, <1>5 DEF NoOrphan, Sessions
<1>7. ASSUME NEW t \in Slots PROVE Good(block'[t], ip_io')
  <2>1. CASE t = s
    BY <1>1, <2>1
  <2>2. CASE t # s
    <3>1. block'[t] = block[t] /\ Good(block[t], ip_io)
      BY <1>1, <2>2 DEF Memory, MemoryGood
    <3>2. block[t].use = "object" => ip_io'[block[t].friend] = ip_io[block[t].friend]
      BY <1>3, <2>2
    <3> QED BY <3>1, <3>2 DEF Good
  <2> QED BY <2>1, <2>2
<1>8. MemoryGood'
  BY <1>7 DEF MemoryGood
<1> QED BY <1>2, <1>6, <1>8 DEF Memory

(* No place changes, and a friend without a session stays without one.     *)
LEMMA EntryReplaced ==
  ASSUME TypeOK, Memory, NEW f \in Friends, NEW e,
         entry[f] \notin Slots, e \notin Slots,
         block' = block,
         entry' = [entry EXCEPT ![f] = e],
         \A g \in Friends \ {f} : ip_io'[g] = ip_io[g]
  PROVE  Memory'
<1>1. block \in [Slots -> Block] /\ entry \in [Friends -> Slots \cup {Absent, Null}]
  BY DEF TypeOK
<1>2. ASSUME NEW t \in Slots, block[t].use = "object"
      PROVE  block[t].friend \in Friends \ {f} /\ entry[block[t].friend] = t
  <2>1. block[t].friend \in Friends
    BY <1>1, <1>2 DEF Block
  <2>2. entry[block[t].friend] = t
    BY <1>2 DEF Memory, NoOrphan, Sessions
  <2> QED BY <1>2, <2>1, <2>2
<1>3. NoOrphan'
  BY <1>1, <1>2 DEF Memory, NoOrphan, Sessions
<1>4. MemoryGood'
  BY <1>1, <1>2 DEF Memory, MemoryGood, Good
<1> QED BY <1>3, <1>4 DEF Memory

(* new udp_server for a friend without one.                                *)
LEMMA SessionMade ==
  ASSUME TypeOK, Memory, NEW f \in Friends, NEW a \in Target, entry[f] \notin Slots,
         NewSession(f, a), ip_io'[f].port \in {Closed, a.port},
         \A g \in Friends \ {f} : ip_io'[g] = ip_io[g]
  PROVE  /\ Memory' /\ block' \in [Slots -> Block]
         /\ \E e \in Slots \cup {Absent, Null} : entry' = [entry EXCEPT ![f] = e]
<1>1. block \in [Slots -> Block] /\ entry \in [Friends -> Slots \cup {Absent, Null}]
  BY DEF TypeOK
<1>2. Null \notin Slots
  BY EntriesAssumption
<1>3. a.port \in Ports /\ a.port # Closed
  BY PortsAssumption DEF Target, Closed
<1>4. ASSUME ~Refused(a)
      PROVE  Place(f) \in Slots /\ block[Place(f)].use = "blank"
  BY <1>4, PlaceIsBlank DEF Refused, Blank
<1>5. CASE Refused(a) /\ entry' = [entry EXCEPT ![f] = Null] /\ block' = block
  BY <1>1, <1>2, <1>5, EntryReplaced
<1>6. ASSUME ~Refused(a), NEW s \in {Place(f)} \cup Reused(f),
             entry' = [entry EXCEPT ![f] = s],
             block' = [block EXCEPT ![s] = BuiltOver(@, f, a.port)]
      PROVE  /\ Memory' /\ block' \in [Slots -> Block]
             /\ \E e \in Slots \cup {Absent, Null} : entry' = [entry EXCEPT ![f] = e]
  <2> DEFINE b == BuiltOver(block[s], f, a.port)
  <2>1. b \in Block /\ b.use = "object" /\ b.friend = f /\ b.port = a.port
        /\ b.reads = 1 /\ b.packets \in Nat
    BY <1>3, BuiltOverBlock
  <2>2. Good(b, ip_io')
    <3> HIDE DEF b
    <3> QED BY <1>3, <2>1 DEF Good
  <2>3. s \in Slots /\ block[s].use # "object"
    BY <1>4, <1>6 DEF Reused, Leftover
  <2>4. block' = [block EXCEPT ![s] = b]
    BY <1>1, <1>6, <2>3
  <2> HIDE DEF b
  <2>5. Memory' /\ block' \in [Slots -> Block]
    BY <1>6, <2>1, <2>2, <2>3, <2>4, Replaced
  <2> QED BY <1>6, <2>3, <2>5
<1>7. CASE /\ ~Refused(a) /\ entry' = [entry EXCEPT ![f] = Null]
           /\ block' = [block EXCEPT ![Place(f)] = HalfBuilt(f)]
  <2> DEFINE b == HalfBuilt(f)
             s == Place(f)
  <2>1. b \in Block /\ b.use = "freed" /\ b.packets = 2
    BY HalfBuiltBlock
  <2>2. Good(b, ip_io')
    <3> HIDE DEF b
    <3> QED BY <2>1 DEF Good
  <2>3. s \in Slots /\ block[s].use = "blank"
    BY <1>4, <1>7
  <2> HIDE DEF b, s
  <2>4. Memory' /\ block' \in [Slots -> Block]
    <3>1. block' = [block EXCEPT ![s] = b] /\ entry' = [entry EXCEPT ![f] = Null]
      BY <1>7 DEF b, s
    <3> QED BY <1>2, <2>1, <2>2, <2>3, <3>1, Replaced
  <2> QED BY <1>7, <2>4
<1>8. CASE ~Refused(a) /\ entry' = [entry EXCEPT ![f] = Null] /\ block' = block
  BY <1>1, <1>2, <1>8, EntryReplaced
<1> QED BY <1>5, <1>6, <1>7, <1>8 DEF NewSession

(* change_target leaves a session that hears, or says that it was cut.     *)
LEMMA MovedGood ==
  ASSUME TypeOK, NEW s \in Slots, NEW a \in Target, NEW io,
         block[s].use = "object", io[block[s].friend].port \in {Closed, a.port}
  PROVE  /\ Moved(s, a) \in Block /\ Moved(s, a).use = "object"
         /\ Moved(s, a).friend = block[s].friend /\ Good(Moved(s, a), io)
<1>1. block[s] \in Block
  BY DEF TypeOK
<1>2. a.port \in Ports /\ a.port # Closed
  BY PortsAssumption DEF Target, Closed
<1> DEFINE m == Moved(s, a)
<1>3. CASE Throws(s, a)
  <2>1. /\ m.use = "object" /\ m.friend = block[s].friend /\ m.cut = TRUE
        /\ m.reads = 0 /\ m.port \in {a.port, Closed} /\ m \in Block
    BY <1>1, <1>2, <1>3 DEF Moved, Block
  <2> HIDE DEF m
  <2> QED BY <2>1 DEF Good, m
<1>4. CASE ~Throws(s, a)
  <2>0. Throws(s, a) = FALSE /\ a.port \notin {block[t].port : t \in Sessions \ {s}}
    BY <1>4 DEF Throws
  <2>1. m = [block[s] EXCEPT !.reads = IF block[s].stopped THEN 0 ELSE 1,
                             !.port = a.port, !.cut = FALSE]
    BY <2>0 DEF Moved
  <2>2. /\ m.use = "object" /\ m.friend = block[s].friend
        /\ m.stopped = block[s].stopped /\ m.packets = block[s].packets
        /\ m.reads = (IF block[s].stopped THEN 0 ELSE 1) /\ m.port = a.port
        /\ m \in Block
    <3> HIDE DEF m
    <3> QED BY <1>1, <1>2, <2>1 DEF Block
  <2>3. m.packets \in Nat
    BY <1>1, <2>2 DEF Block
  <2> HIDE DEF m
  <2>4. Good(m, io)
    BY <1>2, <2>2, <2>3 DEF Good
  <2> QED BY <2>2, <2>4 DEF m
<1> QED BY <1>3, <1>4

LEMMA SessionMoved ==
  ASSUME TypeOK, Memory, NEW f \in Friends, NEW a \in Target, entry[f] \in Slots,
         MoveSession(entry[f], a), ip_io'[f].port \in {Closed, a.port},
         \A g \in Friends \ {f} : ip_io'[g] = ip_io[g]
  PROVE  Memory' /\ block' \in [Slots -> Block] /\ entry' = entry
<1> DEFINE s == entry[f]
           b == Moved(s, a)
<1>1. s \in Slots /\ block[s].use = "object" /\ block[s].friend = f
  BY DEF Memory, NoOrphan
<1>2. b \in Block /\ b.use = "object" /\ b.friend = f /\ Good(b, ip_io')
  <2> HIDE DEF s
  <2> QED BY <1>1, MovedGood
<1>3. block' = [block EXCEPT ![s] = b] /\ entry' = [entry EXCEPT ![f] = s]
  BY DEF MoveSession, TypeOK
<1> HIDE DEF b
<1>4. Memory' /\ block' \in [Slots -> Block]
  BY <1>1, <1>2, <1>3, Replaced
<1> QED BY <1>4 DEF MoveSession

(* A session stays its friend's, and its file stays as it is.              *)
LEMMA SessionChanged ==
  ASSUME TypeOK, Memory, NEW s \in Slots, NEW b \in Block, block[s].use = "object",
         b.use = "object", b.friend = block[s].friend, Good(b, ip_io),
         block' = [block EXCEPT ![s] = b], UNCHANGED <<entry, ip_io>>
  PROVE  Memory' /\ block' \in [Slots -> Block]
<1> DEFINE f == block[s].friend
<1>1. f \in Friends
  BY DEF TypeOK, Block
<1>2. entry[f] = s
  BY DEF Memory, NoOrphan, Sessions
<1>3. entry' = [entry EXCEPT ![f] = s]
  BY <1>1, <1>2 DEF TypeOK
<1>4. Good(b, ip_io')
  OBVIOUS
<1> QED BY <1>1, <1>2, <1>3, <1>4, Replaced

(* All of it is gone when the program ends.                                *)
LEMMA EndedKept ==
  ASSUME TypeOK, Ended
  PROVE  /\ Memory' /\ Phases' /\ AnswerFits' /\ program' = "down"
         /\ toLoad' = {} /\ entry' \in [Friends -> Slots \cup {Absent, Null}]
         /\ block' \in [Slots -> Block] /\ checkin' = NoCheckin
<1>1. /\ entry' = [f \in Friends |-> Absent] /\ block' = [s \in Slots |-> Unused]
      /\ program' = "down" /\ toLoad' = {} /\ checkin' = NoCheckin
  BY DEF Ended, Wiped
<1>2. Absent \notin Slots
  BY EntriesAssumption
<1>3. \A s \in Slots : block'[s] \in Block /\ block'[s].use = "blank"
  BY <1>1, UnusedBlock
<1>4. Memory'
  BY <1>1, <1>2, <1>3 DEF Memory, NoOrphan, Sessions, MemoryGood, Good
<1>5. Phases'
  BY <1>1, <1>3 DEF Phases, NoCheckin
<1>6. AnswerFits'
  BY <1>1 DEF AnswerFits, NoCheckin
<1> QED BY <1>1, <1>3, <1>4, <1>5, <1>6, UnusedBlock
-----------------------------------------------------------------------------
LEMMA SameMemory ==
  ASSUME Memory, UNCHANGED <<entry, block, ip_io>>
  PROVE  Memory'
BY DEF Memory, MemoryGood, NoOrphan, Sessions

LEMMA SameInUse ==
  ASSUME AnswerFits, UNCHANGED <<block, checkin>>
  PROVE  AnswerFits'
BY DEF AnswerFits, InUse, Sessions

(* No port comes into use when a place changes but keeps or closes its     *)
(* port, or is no session any more.                                        *)
LEMMA FewerPorts ==
  ASSUME TypeOK, AnswerFits, NEW s \in Slots, NEW b, checkin' = checkin,
         block' = [block EXCEPT ![s] = b],
         b.use = "object" => block[s].use = "object" /\ b.port \in {block[s].port, Closed}
  PROVE  AnswerFits'
<1>1. block \in [Slots -> Block]
  BY DEF TypeOK
<1>2. \A t \in Slots : block'[t] = IF t = s THEN b ELSE block[t]
  BY <1>1
<1>3. InUse' \subseteq InUse
  BY <1>2 DEF InUse, Sessions
<1> QED BY <1>3 DEF AnswerFits

(* The program starts: the steps before io.run.                            *)
LEMMA StartStep == Inv /\ Start => Inv'
<1> SUFFICES ASSUME Inv, Start PROVE Inv'
  OBVIOUS
<1>1. /\ program' = "loading" /\ identity' = KeyLoaded(identity)
      /\ toLoad' \subseteq Friends /\ program = "down" /\ identity # "torn"
      /\ UNCHANGED <<answers, book, ip_io, entry, block, checkin, upsets>>
  BY DEF Start
<1>2. identity' \in Keys
  BY <1>1 DEF Inv, TypeOK, KeyLoaded, Keys
<1>3. TypeOK'
  BY <1>1, <1>2 DEF Inv, TypeOK
<1>4. Memory'
  BY <1>1, SameMemory DEF Inv
<1>5. Phases'
  BY <1>1 DEF Inv, Phases
<1>6. AnswerFits'
  BY <1>1, SameInUse DEF Inv
<1>7. Answers'
  BY <1>1, <1>2 DEF Inv, Answers, KeyLoaded, Keys
<1> QED BY <1>3, <1>4, <1>5, <1>6, <1>7 DEF Inv

LEMMA TornStartStep == Inv /\ TornStart => Inv'
<1> SUFFICES ASSUME Inv, TornStart PROVE Inv'
  OBVIOUS
<1>1. /\ program = "down" /\ identity = "missing" /\ identity' = "torn"
      /\ UNCHANGED <<program, toLoad, answers, book, ip_io, entry, block, checkin>>
      /\ upsets' \in 0 .. MaxUpsets
  BY BoundsAssumption DEF TornStart, Inv, TypeOK
<1>2. TypeOK'
  BY <1>1 DEF Inv, TypeOK
<1>3. Memory' /\ AnswerFits'
  BY <1>1, SameMemory, SameInUse DEF Inv
<1>4. Phases'
  BY <1>1 DEF Inv, Phases
<1>5. Answers'
  BY <1>1 DEF Inv, Answers, Keys
<1> QED BY <1>2, <1>3, <1>4, <1>5 DEF Inv

LEMMA LoadStep == ASSUME NEW f \in Friends, Inv, Load(f) PROVE Inv'
<1>1. /\ program = "loading" /\ f \in toLoad /\ toLoad' = toLoad \ {f}
      /\ UNCHANGED <<program, identity, book, ip_io, answers, checkin, upsets>>
  BY DEF Load, files
<1>2. entry[f] = Absent /\ {Absent, Null} \cap Slots = {}
  BY <1>1, EntriesAssumption DEF Inv, Phases
<1>3. /\ Memory' /\ block' \in [Slots -> Block]
      /\ \E e \in Slots \cup {Absent, Null} : entry' = [entry EXCEPT ![f] = e]
  <2>1. CASE entry' = [entry EXCEPT ![f] = Null] /\ block' = block
    <3>1. Memory'
      BY <1>1, <1>2, <2>1, EntryReplaced DEF Inv
    <3> QED BY <2>1, <3>1 DEF Inv, TypeOK
  <2>2. ASSUME NEW t \in Targets(ip_io[f]), NewSession(f, t)
        PROVE  /\ Memory' /\ block' \in [Slots -> Block]
               /\ \E e \in Slots \cup {Absent, Null} : entry' = [entry EXCEPT ![f] = e]
    <3>1. t \in Target /\ ip_io'[f].port \in {Closed, t.port}
      BY <1>1, <2>2 DEF Targets
    <3> QED BY <1>1, <1>2, <2>2, <3>1, SessionMade DEF Inv
  <2> QED BY <2>1, <2>2 DEF Load
<1>4. TypeOK'
  BY <1>1, <1>3 DEF Inv, TypeOK
<1>5. Phases'
  BY <1>1, <1>3 DEF Inv, Phases, TypeOK
<1>6. AnswerFits'
  BY <1>1 DEF Inv, Phases, AnswerFits, NoCheckin
<1>7. Answers'
  BY <1>1 DEF Inv, Answers
<1> QED BY <1>3, <1>4, <1>5, <1>6, <1>7 DEF Inv

LEMMA RunStep == Inv /\ Run => Inv'
<1> SUFFICES ASSUME Inv, Run PROVE Inv'
  OBVIOUS
<1>1. /\ program = "loading" /\ program' = "up"
      /\ UNCHANGED <<toLoad, identity, book, ip_io, answers, entry, block, checkin, upsets>>
  BY DEF Run, files
<1>2. TypeOK'
  BY <1>1 DEF Inv, TypeOK
<1>3. Memory' /\ AnswerFits'
  BY <1>1, SameMemory, SameInUse DEF Inv
<1>4. Phases'
  BY <1>1 DEF Inv, Phases
<1>5. Answers'
  BY <1>1 DEF Inv, Answers
<1> QED BY <1>2, <1>3, <1>4, <1>5 DEF Inv

LEMMA CrashStep == Inv /\ Crash => Inv'
<1> SUFFICES ASSUME Inv, Crash PROVE Inv'
  OBVIOUS
<1>1. /\ Ended /\ UNCHANGED <<identity, answers, ip_io>> /\ upsets' \in 0 .. MaxUpsets
  BY BoundsAssumption DEF Crash, Inv, TypeOK
<1>2. book' \in [Friends -> {"none", "nameless", "named"}]
  BY DEF Crash, Inv, TypeOK
<1>3. /\ Memory' /\ Phases' /\ AnswerFits' /\ program' = "down"
      /\ toLoad' = {} /\ entry' \in [Friends -> Slots \cup {Absent, Null}]
      /\ block' \in [Slots -> Block] /\ checkin' = NoCheckin
  BY <1>1, EndedKept DEF Inv
<1>4. TypeOK'
  BY <1>1, <1>2, <1>3 DEF Inv, TypeOK, NoCheckin
<1>5. Answers'
  BY <1>1, <1>3 DEF Inv, Answers
<1> QED BY <1>3, <1>4, <1>5 DEF Inv

(* The steps of the user.                                                  *)
LEMMA AddFriendStep == ASSUME NEW f \in Friends, Inv, AddFriend(f) PROVE Inv'
<1>1. /\ program = "up" /\ book' = [book EXCEPT ![f] = "named"]
      /\ entry' = [entry EXCEPT ![f] = EntryAdded(f)]
      /\ UNCHANGED <<program, toLoad, identity, answers, ip_io, block, checkin, upsets>>
  BY DEF AddFriend, Ready
<1>2. TypeOK'
  BY <1>1 DEF Inv, TypeOK, EntryAdded
<1>3. Memory'
  <2>1. CASE entry[f] = Absent
    BY <1>1, <2>1, EntriesAssumption, EntryReplaced DEF EntryAdded, Inv
  <2>2. CASE entry[f] # Absent
    <3>1. entry' = entry
      BY <1>1, <2>2 DEF EntryAdded, Inv, TypeOK
    <3> QED BY <1>1, <3>1, SameMemory DEF Inv
  <2> QED BY <2>1, <2>2
<1>4. AnswerFits'
  BY <1>1, SameInUse DEF Inv
<1>5. Phases' /\ Answers'
  BY <1>1 DEF Inv, Phases, Answers
<1> QED BY <1>2, <1>3, <1>4, <1>5 DEF Inv

LEMMA RemoveFriendStep == ASSUME NEW f \in Friends, Inv, RemoveFriend(f) PROVE Inv'
<1> DEFINE s == entry[f]
<1>1. /\ program = "up"
      /\ UNCHANGED <<program, toLoad, identity, answers, checkin, upsets>>
  BY DEF RemoveFriend, Ready
<1>2. s \in Slots => block[s] \in Block /\ block[s].use = "object" /\ block[s].friend = f
  BY DEF Inv, TypeOK, Memory, NoOrphan
<1>3. CASE /\ s \in Slots /\ block[s].port = Closed
           /\ block' = [block EXCEPT ![s] = Halted(@)]
           /\ UNCHANGED <<book, ip_io, entry>>
  <2> DEFINE b == Halted(block[s])
  <2>1. /\ b \in Block /\ b.use = "object" /\ b.friend = block[s].friend
        /\ b.port = block[s].port /\ b.stopped
    BY <1>2, <1>3 DEF Halted, Block
  <2>2. block' = [block EXCEPT ![s] = b]
    BY <1>3 DEF Inv, TypeOK
  <2>3. Good(b, ip_io)
    <3>1. Good(block[s], ip_io)
      BY <1>3 DEF Inv, Memory, MemoryGood
    <3> HIDE DEF b, s
    <3> QED BY <1>2, <1>3, <2>1, <3>1 DEF Good
  <2> HIDE DEF b, s
  <2>4. Memory' /\ block' \in [Slots -> Block]
    BY <1>2, <1>3, <2>1, <2>2, <2>3, SessionChanged DEF Inv
  <2>5. AnswerFits'
    BY <1>1, <1>2, <1>3, <2>1, <2>2, FewerPorts DEF Inv
  <2>6. TypeOK'
    BY <1>1, <1>3, <2>4 DEF Inv, TypeOK
  <2>7. Phases' /\ Answers'
    BY <1>1 DEF Inv, Phases, Answers
  <2> QED BY <2>4, <2>5, <2>6, <2>7 DEF Inv
<1>4. CASE /\ block' = IF s \in Slots THEN [block EXCEPT ![s] = Deleted(@)] ELSE block
           /\ book' = [book EXCEPT ![f] = "none"]
           /\ ip_io' = [ip_io EXCEPT ![f] = NoAddress]
           /\ entry' = [entry EXCEPT ![f] = Absent]
  <2>1. Absent \notin Slots
    BY EntriesAssumption
  <2>2. \A g \in Friends \ {f} : ip_io'[g] = ip_io[g]
    BY <1>4 DEF Inv, TypeOK
  <2>3. Memory' /\ block' \in [Slots -> Block] /\ AnswerFits'
    <3>1. CASE s \notin Slots
      <4>1. block' = block
        BY <1>4, <3>1
      <4>2. Memory'
        BY <1>4, <2>1, <2>2, <3>1, <4>1, EntryReplaced DEF Inv
      <4> QED BY <1>1, <4>1, <4>2, SameInUse DEF Inv, TypeOK
    <3>2. CASE s \in Slots
      <4> DEFINE b == Deleted(block[s])
      <4>1. b \in Block /\ b.use = "freed" /\ b.packets > 0
        BY <1>2, <3>2, DeletedBlock
      <4>2. block' = [block EXCEPT ![s] = b]
        BY <1>4, <3>2 DEF Inv, TypeOK
      <4>3. Good(b, ip_io')
        <5> HIDE DEF b
        <5> QED BY <4>1 DEF Good
      <4> HIDE DEF b
      <4>4. Memory' /\ block' \in [Slots -> Block]
        BY <1>2, <1>4, <2>1, <2>2, <3>2, <4>1, <4>2, <4>3, Replaced DEF Inv
      <4>5. AnswerFits'
        BY <1>1, <3>2, <4>1, <4>2, FewerPorts DEF Inv
      <4> QED BY <4>4, <4>5
    <3> QED BY <3>1, <3>2
  <2>4. TypeOK'
    BY <1>1, <1>4, <2>3 DEF Inv, TypeOK
  <2>5. Phases' /\ Answers'
    BY <1>1 DEF Inv, Phases, Answers
  <2> QED BY <2>3, <2>4, <2>5 DEF Inv
<1> QED BY <1>3, <1>4 DEF RemoveFriend

LEMMA EditAddressStep == ASSUME NEW f \in Friends, Inv, EditAddress(f) PROVE Inv'
<1>0. PICK b \in Edited(ip_io[f]) :
        /\ \E a \in Written(ip_io[f], b) : ip_io' = [ip_io EXCEPT ![f] = a]
        /\ \E t \in Targets(b) :
             \/ entry[f] = Null /\ NewSession(f, t)
             \/ entry[f] \in Slots /\ MoveSession(entry[f], t)
             \/ entry[f] = Absent /\ UNCHANGED <<entry, block>>
  BY DEF EditAddress
<1>1. PICK a \in Written(ip_io[f], b), t \in Targets(b) :
        /\ ip_io' = [ip_io EXCEPT ![f] = a]
        /\ \/ entry[f] = Null /\ NewSession(f, t)
           \/ entry[f] \in Slots /\ MoveSession(entry[f], t)
           \/ entry[f] = Absent /\ UNCHANGED <<entry, block>>
  BY <1>0
<1>2. /\ program = "up" /\ checkin' = Outdated(checkin) /\ upsets' \in 0 .. MaxUpsets
      /\ UNCHANGED <<program, toLoad, identity, answers, book>>
  BY BoundsAssumption DEF EditAddress, Ready, Inv, TypeOK
<1>3. /\ a \in {Headless} \cup Address /\ t \in Target /\ ip_io'[f].port \in {Closed, t.port}
      /\ \A g \in Friends \ {f} : ip_io'[g] = ip_io[g]
  <2>1. b \in Address /\ a \in {b, Headless} /\ t \in Target /\ b.port \in {t.port, Closed}
    BY DEF Edited, Written, Targets
  <2>2. Headless.port = Closed
    BY DEF Headless
  <2>3. ip_io'[f] = a /\ \A g \in Friends \ {f} : ip_io'[g] = ip_io[g]
    BY <1>1 DEF Inv, TypeOK
  <2> QED BY <2>1, <2>2, <2>3
<1>4. {Absent, Null} \cap Slots = {}
  BY EntriesAssumption
<1>5. /\ Memory' /\ block' \in [Slots -> Block]
      /\ \E e \in Slots \cup {Absent, Null} : entry' = [entry EXCEPT ![f] = e]
  <2>1. CASE entry[f] = Null /\ NewSession(f, t)
    BY <1>3, <1>4, <2>1, SessionMade DEF Inv
  <2>2. CASE entry[f] \in Slots /\ MoveSession(entry[f], t)
    <3>1. Memory' /\ block' \in [Slots -> Block] /\ entry' = entry
      BY <1>3, <2>2, SessionMoved DEF Inv
    <3>2. entry' = [entry EXCEPT ![f] = entry[f]]
      BY <3>1 DEF Inv, TypeOK
    <3> QED BY <2>2, <3>1, <3>2
  <2>3. CASE entry[f] = Absent /\ UNCHANGED <<entry, block>>
    <3>1. entry' = [entry EXCEPT ![f] = Absent]
      BY <2>3 DEF Inv, TypeOK
    <3>2. Memory'
      BY <1>3, <1>4, <2>3, <3>1, EntryReplaced DEF Inv
    <3> QED BY <2>3, <3>1, <3>2 DEF Inv, TypeOK
  <2> QED BY <1>1, <2>1, <2>2, <2>3
<1>6. /\ checkin' \in [asked : BOOLEAN, busy : SUBSET Ports, targets : SUBSET Friends,
                       stale : BOOLEAN, matches : SUBSET Friends]
      /\ checkin'.asked = checkin.asked /\ checkin'.matches = checkin.matches
      /\ checkin'.stale = checkin.asked
  BY <1>2 DEF Outdated, Inv, TypeOK
<1>7. ip_io' \in [Friends -> {NoAddress, Headless} \cup Address]
  BY <1>1, <1>3 DEF Inv, TypeOK
<1>8. entry' \in [Friends -> Slots \cup {Absent, Null}]
  BY <1>5 DEF Inv, TypeOK
<1>9. TypeOK'
  BY <1>2, <1>5, <1>6, <1>7, <1>8 DEF Inv, TypeOK
<1>10. AnswerFits'
  BY <1>6 DEF AnswerFits
<1>11. Phases' /\ Answers'
  BY <1>2, <1>6 DEF Inv, Phases, Answers
<1> QED BY <1>5, <1>9, <1>10, <1>11 DEF Inv

LEMMA ExchangeKeysStep == ASSUME NEW f \in Friends, Inv, ExchangeKeys(f) PROVE Inv'
<1> DEFINE w == Wrap("aes", Public(identity), "once")
<1>1. program = "up" /\ UNCHANGED <<identity, book, ip_io, upsets>>
  BY DEF ExchangeKeys, Ready, files
<1>2. identity \in Keys
  BY <1>1 DEF Inv, Answers
<1>3. CASE /\ answers' = IF block[entry[f]].port = Closed THEN answers ELSE answers \cup {w}
           /\ UNCHANGED <<program, toLoad, entry, block, checkin>>
  <2>1. answers' \subseteq answers \cup {w}
    BY <1>3
  <2>2. TypeOK'
    BY <1>1, <1>2, <1>3, <2>1 DEF Inv, TypeOK
  <2>3. Memory' /\ AnswerFits'
    BY <1>1, <1>3, SameMemory, SameInUse DEF Inv
  <2>4. Phases' /\ Answers'
    BY <1>1, <1>2, <1>3, <2>1 DEF Inv, Phases, Answers
  <2> QED BY <2>2, <2>3, <2>4 DEF Inv
<1>4. CASE Ended /\ UNCHANGED answers
  <2>1. /\ Memory' /\ Phases' /\ AnswerFits' /\ program' = "down"
        /\ toLoad' = {} /\ entry' \in [Friends -> Slots \cup {Absent, Null}]
        /\ block' \in [Slots -> Block] /\ checkin' = NoCheckin
    BY <1>4, EndedKept DEF Inv
  <2>2. TypeOK'
    BY <1>1, <1>4, <2>1 DEF Inv, TypeOK, NoCheckin
  <2>3. Answers'
    BY <1>1, <1>4, <2>1 DEF Inv, Answers
  <2> QED BY <2>1, <2>2, <2>3 DEF Inv
<1> QED BY <1>3, <1>4 DEF ExchangeKeys

(* The steps of the sockets: one session changes and keeps its port.       *)
LEMMA SessionKept ==
  ASSUME Inv, program = "up", NEW s \in Slots, NEW b \in Block,
         block[s].use = "object", b.use = "object",
         b.friend = block[s].friend, b.port = block[s].port, Good(b, ip_io),
         block' = [block EXCEPT ![s] = b], answers' \subseteq answers,
         UNCHANGED <<program, toLoad, identity, book, ip_io, entry, checkin, upsets>>
  PROVE  Inv'
<1>1. Memory' /\ block' \in [Slots -> Block]
  BY SessionChanged DEF Inv
<1>2. AnswerFits'
  BY FewerPorts DEF Inv
<1>3. TypeOK'
  BY <1>1 DEF Inv, TypeOK
<1>4. Phases' /\ Answers'
  BY DEF Inv, Phases, Answers
<1> QED BY <1>1, <1>2, <1>3, <1>4 DEF Inv

LEMMA PacketArrivesStep == ASSUME NEW s \in Slots, Inv, PacketArrives(s) PROVE Inv'
<1>1. /\ program = "up" /\ block[s].use = "object" /\ block[s].reads > 0
      /\ UNCHANGED <<program, toLoad, identity, book, ip_io, answers, entry, checkin, upsets>>
  BY DEF PacketArrives, Ready, files
<1>2. block[s] \in Block /\ Good(block[s], ip_io)
  BY DEF Inv, TypeOK, Memory, MemoryGood
<1>3. CASE block' = [block EXCEPT ![s].reads = @ - 1, ![s].packets = @ + 1]
  <2> DEFINE b == [block[s] EXCEPT !.reads = @ - 1, !.packets = @ + 1]
  <2>1. /\ b \in Block /\ b.use = "object" /\ b.friend = block[s].friend
        /\ b.port = block[s].port /\ b.packets > 0 /\ b.reads \in Nat /\ b.packets \in Nat
        /\ b.cut = block[s].cut /\ b.stopped = block[s].stopped
    <3>1. block[s].reads - 1 \in Nat /\ block[s].packets + 1 \in Nat
          /\ block[s].packets + 1 > 0
      BY <1>1, <1>2 DEF Block
    <3>2. b = [block[s] EXCEPT !.reads = block[s].reads - 1,
                               !.packets = block[s].packets + 1]
      OBVIOUS
    <3> HIDE DEF b
    <3>3. Counted(b, block[s], block[s].reads - 1, block[s].packets + 1)
      BY <1>2, <3>1, <3>2, CountedBlock, Zenon
    <3> QED BY <1>1, <3>1, <3>3 DEF Counted
  <2>2. block' = [block EXCEPT ![s] = b]
    BY <1>3 DEF Inv, TypeOK
  <2> HIDE DEF b
  <2>3. Good(b, ip_io)
    BY <1>1, <1>2, <2>1 DEF Good
  <2> QED BY <1>1, <2>1, <2>2, <2>3, SessionKept
<1>4. CASE block' = [block EXCEPT ![s].reads = @ - 1, ![s].cut = TRUE]
  <2> DEFINE b == [block[s] EXCEPT !.reads = @ - 1, !.cut = TRUE]
  <2>1. /\ b \in Block /\ b.use = "object" /\ b.friend = block[s].friend
        /\ b.port = block[s].port /\ b.cut
    <3> DEFINE r == block[s].reads - 1
    <3>1. r \in Nat
      BY <1>1, <1>2 DEF Block
    <3>2. b = [block[s] EXCEPT !.reads = r, !.cut = TRUE]
      OBVIOUS
    <3> HIDE DEF b, r
    <3>3. Shortened(b, block[s], r)
      BY <1>2, <3>1, <3>2, CutBlock, Zenon
    <3> QED BY <1>1, <3>3 DEF Shortened
  <2>2. block' = [block EXCEPT ![s] = b]
    BY <1>4 DEF Inv, TypeOK
  <2> HIDE DEF b
  <2>3. Good(b, ip_io)
    BY <1>1, <1>2, <2>1 DEF Good
  <2> QED BY <1>1, <2>1, <2>2, <2>3, SessionKept
<1> QED BY <1>3, <1>4 DEF PacketArrives

LEMMA HandlePacketStep == ASSUME NEW s \in Slots, Inv, HandlePacket(s) PROVE Inv'
<1>1. /\ program = "up" /\ block[s].use = "object" /\ block[s].packets > 0
      /\ answers' \subseteq answers
      /\ UNCHANGED <<program, toLoad, identity, book, ip_io, entry, checkin, upsets>>
  BY DEF HandlePacket, Ready, files
<1>2. block[s] \in Block /\ Good(block[s], ip_io)
  BY DEF Inv, TypeOK, Memory, MemoryGood
<1> DEFINE d == block[s]
           b == ReadNext(d)
<1>3. /\ b \in Block /\ b.use = "object" /\ b.friend = d.friend /\ b.port = d.port
      /\ b.cut = d.cut /\ b.stopped = d.stopped
      /\ b.reads \in Nat /\ b.packets \in Nat
      /\ ~d.stopped /\ d.port # Closed => b.reads > 0
  <2> DEFINE r == IF d.stopped \/ d.port = Closed THEN d.reads ELSE d.reads + 1
  <2>1. r \in Nat /\ d.packets - 1 \in Nat /\ (~d.stopped /\ d.port # Closed => r > 0)
    BY <1>1, <1>2 DEF Block
  <2>2. b = [d EXCEPT !.reads = r, !.packets = d.packets - 1]
    BY <1>2 DEF ReadNext, Block
  <2> HIDE DEF b, r
  <2>3. Counted(b, d, r, d.packets - 1)
    BY <1>2, <2>1, <2>2, CountedBlock, Zenon
  <2> QED BY <1>1, <2>1, <2>3 DEF Counted
<1>4. block' = [block EXCEPT ![s] = b]
  BY DEF HandlePacket, Inv, TypeOK
<1> HIDE DEF b
<1>5. Good(b, ip_io)
  BY <1>1, <1>2, <1>3 DEF Good
<1> QED BY <1>1, <1>3, <1>4, <1>5, SessionKept

LEMMA FreedHandlerStep == ASSUME NEW s \in Slots, Inv, FreedHandler(s) PROVE Inv'
<1> DEFINE d == block[s]
           b == Returned(d)
<1>1. /\ program = "up" /\ d.use = "freed" /\ block' = [block EXCEPT ![s] = Returned(@)]
      /\ UNCHANGED <<program, toLoad, identity, book, ip_io, answers, entry, checkin, upsets>>
  BY DEF FreedHandler, Ready, files
<1>2. d \in Block /\ d.packets > 0
  BY <1>1 DEF Inv, TypeOK, Memory, MemoryGood, Good
<1>3. block' = [block EXCEPT ![s] = b]
  BY <1>1 DEF Inv, TypeOK
<1>4. b \in Block /\ b.use # "object" /\ (b.use = "freed" => b.packets > 0)
  <2>1. CASE d.packets = 1
    BY <2>1, UnusedBlock DEF Returned
  <2>2. CASE d.packets # 1
    <3>1. d.packets - 1 \in Nat /\ d.packets - 1 > 0 /\ d.reads \in Nat
      BY <1>2, <2>2 DEF Block
    <3>2. b = [d EXCEPT !.reads = d.reads, !.packets = d.packets - 1]
      BY <1>2, <2>2 DEF Returned, Block
    <3> HIDE DEF b, d
    <3>3. Counted(b, d, d.reads, d.packets - 1)
      BY <1>2, <3>1, <3>2, CountedBlock, Zenon
    <3> QED BY <1>1, <3>1, <3>3 DEF Counted
  <2> QED BY <2>1, <2>2
<1>5. block[s].use # "object"
  BY <1>1
<1> HIDE DEF b, d
<1>6. block \in [Slots -> Block] /\ block' \in [Slots -> Block]
  BY <1>3, <1>4 DEF Inv, TypeOK
<1>7. NoOrphan'
  BY <1>1, <1>3, <1>4, <1>5, <1>6 DEF Inv, Memory, NoOrphan, Sessions
<1>8. MemoryGood'
  BY <1>1, <1>3, <1>4, <1>5, <1>6 DEF Inv, Memory, MemoryGood, Good
<1>9. AnswerFits'
  BY <1>1, <1>3, <1>4, FewerPorts DEF Inv
<1>10. TypeOK'
  BY <1>1, <1>6 DEF Inv, TypeOK
<1>11. Phases' /\ Answers'
  BY <1>1 DEF Inv, Phases, Answers
<1> QED BY <1>7, <1>8, <1>9, <1>10, <1>11 DEF Inv, Memory

LEMMA FreedFaultStep == ASSUME NEW s \in Slots, Inv, FreedFault(s) PROVE Inv'
<1>1. Ended /\ UNCHANGED <<identity, book, ip_io, answers, upsets>>
  BY DEF FreedFault, files
<1>2. /\ Memory' /\ Phases' /\ AnswerFits' /\ program' = "down"
      /\ toLoad' = {} /\ entry' \in [Friends -> Slots \cup {Absent, Null}]
      /\ block' \in [Slots -> Block] /\ checkin' = NoCheckin
  BY <1>1, EndedKept DEF Inv
<1>3. TypeOK'
  BY <1>1, <1>2 DEF Inv, TypeOK, NoCheckin
<1>4. Answers'
  BY <1>1, <1>2 DEF Inv, Answers
<1> QED BY <1>2, <1>3, <1>4 DEF Inv

(* The steps of the check-in.                                              *)
LEMMA CheckInStep == Inv /\ CheckIn => Inv'
<1> SUFFICES ASSUME Inv, CheckIn PROVE Inv'
  OBVIOUS
<1>1. PICK T \in SUBSET {f \in Friends : entry[f] # Absent} :
        checkin' = [asked |-> TRUE, busy |-> Busy(T), targets |-> T,
                    stale |-> FALSE, matches |-> {}]
  BY DEF CheckIn
<1>2. /\ program = "up"
      /\ UNCHANGED <<program, toLoad, identity, book, ip_io, answers, entry, block, upsets>>
  BY DEF CheckIn, Ready, files
<1>3. InUse \subseteq Ports
  BY DEF InUse, Sessions, Inv, TypeOK, Block
<1>4. TypeOK'
  BY <1>1, <1>2, <1>3 DEF Inv, TypeOK, Busy
<1>5. Memory'
  BY <1>2, SameMemory DEF Inv
<1>6. AnswerFits'
  BY <1>1, <1>2 DEF AnswerFits, Busy, InUse, Sessions
<1>7. Phases' /\ Answers'
  BY <1>1, <1>2 DEF Inv, Phases, Answers
<1> QED BY <1>4, <1>5, <1>6, <1>7 DEF Inv

LEMMA AnswerStep == Inv /\ Answer => Inv'
<1> SUFFICES ASSUME Inv, Answer PROVE Inv'
  OBVIOUS
<1>1. PICK M \in SUBSET checkin.targets :
        checkin' = [NoCheckin EXCEPT !.matches = M, !.busy = checkin.busy]
  BY DEF Answer
<1>2. /\ program = "up"
      /\ checkin' = [NoCheckin EXCEPT !.matches = M, !.busy = checkin.busy]
      /\ UNCHANGED <<program, toLoad, identity, book, ip_io, answers, entry, block, upsets>>
  BY <1>1 DEF Answer, Ready, files
<1>3. checkin' = [asked |-> FALSE, busy |-> checkin.busy, targets |-> {},
                  stale |-> FALSE, matches |-> M]
  BY <1>2 DEF NoCheckin
<1>4. TypeOK'
  <2>1. M \in SUBSET Friends /\ checkin.busy \in SUBSET Ports
    BY DEF Inv, TypeOK
  <2>2. checkin' \in [asked : BOOLEAN, busy : SUBSET Ports, targets : SUBSET Friends,
                      stale : BOOLEAN, matches : SUBSET Friends]
    BY <1>3, <2>1
  <2> QED BY <1>2, <2>2 DEF Inv, TypeOK
<1>5. Memory'
  BY <1>2, SameMemory DEF Inv
<1>6. ~checkin'.asked
  BY <1>3
<1>7. AnswerFits' /\ Phases' /\ Answers'
  BY <1>2, <1>6 DEF Inv, AnswerFits, Phases, Answers
<1> QED BY <1>4, <1>5, <1>7 DEF Inv

LEMMA FollowMatchStep == ASSUME NEW f \in Friends, Inv, FollowMatch(f) PROVE Inv'
<1>1. /\ program = "up" /\ f \in checkin.matches
      /\ UNCHANGED <<identity, answers, book, upsets>>
  BY DEF FollowMatch
<1>2. PICK p \in Ports \ checkin.busy :
        LET a == [port |-> p, ip |-> "good"]
            t == [port |-> p, resolves |-> TRUE]
        IN  /\ ip_io' = IF entry[f] = Absent THEN ip_io ELSE [ip_io EXCEPT ![f] = a]
            /\ \/ /\ entry[f] \in Slots /\ Throws(entry[f], t)
                  /\ Ended
               \/ /\ \/ entry[f] \in Slots /\ ~Throws(entry[f], t) /\ MoveSession(entry[f], t)
                     \/ entry[f] = Null /\ NewSession(f, t)
                     \/ entry[f] = Absent /\ UNCHANGED <<entry, block>>
                  /\ checkin' = IF checkin.matches = {f} THEN NoCheckin
                                ELSE [checkin EXCEPT !.matches = @ \ {f}]
                  /\ UNCHANGED <<program, toLoad>>
  BY DEF FollowMatch
<1> DEFINE a == [port |-> p, ip |-> "good"]
           t == [port |-> p, resolves |-> TRUE]
<1>3. a \in Address /\ t \in Target /\ a.port = t.port
  BY DEF Address, Target
<1>4. {Absent, Null} \cap Slots = {} /\ Absent # Null
  BY EntriesAssumption
<1>5. ~checkin.asked
  BY <1>1 DEF Inv, Phases
<1> HIDE DEF a, t
<1>6. ip_io' \in [Friends -> {NoAddress, Headless} \cup Address]
  BY <1>2, <1>3 DEF a, Inv, TypeOK
<1>7. CASE Ended
  <2>1. /\ Memory' /\ Phases' /\ AnswerFits' /\ program' = "down"
        /\ toLoad' = {} /\ entry' \in [Friends -> Slots \cup {Absent, Null}]
        /\ block' \in [Slots -> Block] /\ checkin' = NoCheckin
    BY <1>7, EndedKept DEF Inv
  <2>2. TypeOK'
    BY <1>1, <1>6, <2>1 DEF Inv, TypeOK, NoCheckin
  <2>3. Answers'
    BY <1>1, <2>1 DEF Inv, Answers
  <2> QED BY <2>1, <2>2, <2>3 DEF Inv
<1>8. CASE /\ \/ entry[f] \in Slots /\ MoveSession(entry[f], t)
              \/ entry[f] = Null /\ NewSession(f, t)
              \/ entry[f] = Absent /\ UNCHANGED <<entry, block>>
           /\ checkin' = IF checkin.matches = {f} THEN NoCheckin
                         ELSE [checkin EXCEPT !.matches = @ \ {f}]
           /\ UNCHANGED <<program, toLoad>>
  <2>1. entry[f] # Absent =>
          ip_io'[f].port = t.port /\ \A g \in Friends \ {f} : ip_io'[g] = ip_io[g]
    BY <1>2, <1>3 DEF a, Inv, TypeOK
  <2>2. /\ Memory' /\ block' \in [Slots -> Block]
        /\ entry' \in [Friends -> Slots \cup {Absent, Null}]
    <3>1. CASE entry[f] = Null /\ NewSession(f, t)
      <4>1. /\ Memory' /\ block' \in [Slots -> Block]
            /\ \E e \in Slots \cup {Absent, Null} : entry' = [entry EXCEPT ![f] = e]
        BY <1>3, <1>4, <2>1, <3>1, SessionMade DEF Inv
      <4> QED BY <4>1 DEF Inv, TypeOK
    <3>2. CASE entry[f] \in Slots /\ MoveSession(entry[f], t)
      <4>1. Memory' /\ block' \in [Slots -> Block] /\ entry' = entry
        BY <1>3, <1>4, <2>1, <3>2, SessionMoved DEF Inv
      <4> QED BY <4>1 DEF Inv, TypeOK
    <3>3. CASE entry[f] = Absent /\ UNCHANGED <<entry, block>>
      <4>1. Memory'
        BY <1>2, <3>3, SameMemory DEF Inv
      <4> QED BY <3>3, <4>1 DEF Inv, TypeOK
    <3> QED BY <1>8, <3>1, <3>2, <3>3
  <2>3. /\ checkin' \in [asked : BOOLEAN, busy : SUBSET Ports, targets : SUBSET Friends,
                         stale : BOOLEAN, matches : SUBSET Friends]
        /\ ~checkin'.asked
    BY <1>5, <1>8 DEF NoCheckin, Inv, TypeOK
  <2>4. TypeOK'
    BY <1>1, <1>6, <1>8, <2>2, <2>3 DEF Inv, TypeOK
  <2>5. AnswerFits' /\ Phases' /\ Answers'
    BY <1>1, <1>8, <2>3 DEF Inv, AnswerFits, Phases, Answers
  <2> QED BY <2>2, <2>4, <2>5 DEF Inv
<1> QED BY <1>2, <1>7, <1>8 DEF a, t
-----------------------------------------------------------------------------
LEMMA InvInit == Init => Inv
<1> SUFFICES ASSUME Init PROVE Inv
  OBVIOUS
<1>1. /\ program = "down" /\ toLoad = {} /\ answers = {} /\ upsets = 0
      /\ entry = [f \in Friends |-> Absent] /\ block = [s \in Slots |-> Unused]
      /\ checkin = NoCheckin
  BY DEF Init, Wiped
<1>2. /\ identity \in Keys \cup {"missing", "torn"}
      /\ book \in [Friends -> {"none", "nameless", "named"}]
      /\ ip_io \in [Friends -> {NoAddress, Headless} \cup Address]
  BY DEF Init, Keys, Address
<1>3. \A s \in Slots : block[s] \in Block /\ block[s].use = "blank"
  BY <1>1, UnusedBlock
<1>4. Absent \notin Slots
  BY EntriesAssumption
<1>5. block \in [Slots -> Block]
  BY <1>1, UnusedBlock
<1>6. checkin \in [asked : BOOLEAN, busy : SUBSET Ports, targets : SUBSET Friends,
                   stale : BOOLEAN, matches : SUBSET Friends]
  BY <1>1 DEF NoCheckin
<1>7. TypeOK
  BY <1>1, <1>2, <1>5, <1>6, BoundsAssumption DEF TypeOK
<1>8. Memory
  BY <1>1, <1>3, <1>4 DEF Memory, NoOrphan, Sessions, MemoryGood, Good
<1>9. Phases /\ AnswerFits
  BY <1>1, <1>3 DEF Phases, AnswerFits, NoCheckin
<1>10. Answers
  BY <1>1 DEF Answers
<1> QED BY <1>7, <1>8, <1>9, <1>10 DEF Inv

LEMMA Invariance == Spec => []Inv
<1>1. ASSUME Inv, [Next]_vars PROVE Inv'
  <2>1. CASE Start \/ TornStart \/ Run \/ Crash \/ CheckIn \/ Answer
    BY <1>1, <2>1, StartStep, TornStartStep, RunStep, CrashStep, CheckInStep, AnswerStep
  <2>2. ASSUME NEW f \in Friends,
               \/ Load(f) \/ AddFriend(f) \/ RemoveFriend(f) \/ EditAddress(f)
               \/ ExchangeKeys(f) \/ FollowMatch(f)
        PROVE  Inv'
    BY <1>1, <2>2, LoadStep, AddFriendStep, RemoveFriendStep, EditAddressStep,
       ExchangeKeysStep, FollowMatchStep
  <2>3. ASSUME NEW s \in Slots,
               \/ PacketArrives(s) \/ HandlePacket(s)
               \/ FreedHandler(s) \/ FreedFault(s)
        PROVE  Inv'
    BY <1>1, <2>3, PacketArrivesStep, HandlePacketStep, FreedHandlerStep, FreedFaultStep
  <2>4. CASE UNCHANGED vars
    <3>1. UNCHANGED <<program, toLoad, identity, answers, book, ip_io, entry, block,
                      checkin, upsets>>
      BY <2>4 DEF vars
    <3>2. Memory' /\ AnswerFits'
      BY <1>1, <3>1, SameMemory, SameInUse DEF Inv
    <3>3. TypeOK'
      BY <1>1, <3>1 DEF Inv, TypeOK
    <3>4. Phases' /\ Answers'
      BY <1>1, <3>1 DEF Inv, Phases, Answers
    <3> QED BY <3>2, <3>3, <3>4 DEF Inv
  <2> QED BY <1>1, <2>1, <2>2, <2>3, <2>4 DEF Next
<1> QED
  BY InvInit, <1>1, PTL DEF Spec

(* ClientSessions keeps its types: no count of the handlers that wait for  *)
(* an object goes below zero, no port is bound that is not one.            *)
THEOREM Typed == Spec => []TypeOK
<1>1. Inv => TypeOK
  BY DEF Inv
<1> QED
  BY Invariance, <1>1, PTL

(* No entry leads to freed memory and no udp_server is out of reach: an    *)
(* entry and its object are made, found and given back together.           *)
THEOREM NoOrphans == Spec => []NoOrphan
<1>1. Inv => NoOrphan
  BY DEF Inv, Memory
<1> QED
  BY Invariance, <1>1, PTL

(* The chain of receives of a session that is not stopped breaks only      *)
(* where a receive or a change_target failed, whatever completes, moves or *)
(* is handled in between.                                                  *)
THEOREM ChainUnbroken == Spec => []HearsUnlessCut
<1>1. Inv => HearsUnlessCut
  <2> SUFFICES ASSUME Inv, NEW s \in Sessions, ~block[s].cut /\ ~block[s].stopped
               PROVE  Hears(s)
    BY DEF HearsUnlessCut
  <2>1. s \in Slots /\ block[s].use = "object" /\ Good(block[s], ip_io)
    BY DEF Sessions, Inv, Memory, MemoryGood
  <2> QED BY <2>1 DEF Good, Hears
<1> QED
  BY Invariance, <1>1, PTL

(* However addresses are edited, field by field from an empty file or from *)
(* one that has lost a word, assigned, or fail to bind: the file ip_io of  *)
(* a session with an open socket names no other port than the socket's,   *)
(* so the next start opens that port, or finds no port in the file.        *)
THEOREM FileIsCurrent == Spec => []FileFitsSession
<1>1. Inv => FileFitsSession
  BY DEF Inv, Memory, MemoryGood, Good, FileFitsSession, Sessions
<1> QED
  BY Invariance, <1>1, PTL

(* While a check-in waits for its answer every port in use was reported,   *)
(* unless the user has edited an address since.                            *)
THEOREM PortsReported == Spec => []AnswerFits
<1>1. Inv => AnswerFits
  BY DEF Inv
<1> QED
  BY Invariance, <1>1, PTL

(* A client that is up can open every wrapped key on its way to it, since  *)
(* the private key it asked with is the one it loads at every start.       *)
THEOREM KeysOpen == Spec => []AnswersOpen
<1>1. Inv => AnswersOpen
  <2> SUFFICES ASSUME Inv, program = "up", NEW w \in answers
               PROVE  Unwrap(identity, w) # <<>>
    BY DEF AnswersOpen
  <2>1. w = Wrap("aes", Public(identity), "once")
    BY DEF Inv, Answers
  <2>2. Unwrap(identity, w) = <<"aes">>
    BY <2>1, OwnerUnwraps
  <2> QED BY <2>2
<1> QED
  BY Invariance, <1>1, PTL
=============================================================================

--------------------------- MODULE ClientSessions ---------------------------
(***************************************************************************)
(* The udp_server objects of one client over its whole life                *)
(* (client/main.cpp): made by load_connections, by an edit of the address  *)
(* or by an answer of the coordinating server, moved by change_target,     *)
(* stopped and deleted by remove_friend, and all of them gone when the     *)
(* program ends and starts again from its files.                           *)
(*                                                                         *)
(* The program is one thread: an action is one handler that io.run calls.  *)
(* Between two handlers a completed receive, an aborted one or a timer     *)
(* waits in the queue of the io_context holding a bare pointer to its      *)
(* udp_server, which may have moved or been deleted by the time it runs.   *)
(* What a handler does with freed memory is left open: it finds the old    *)
(* contents, or a udp_server that was made there since, or the program     *)
(* ends.                                                                   *)
(***************************************************************************)
EXTENDS Naturals, FiniteSets, KeyWrap

CONSTANTS
  Friends,      \* the uuids of friends
  Watched,      \* bound: the friends added, removed and heard; the others
                \* keep their directory, and their sessions come and move
  Ports,        \* the UDP ports in play
  Spare,        \* bound: the one place in memory that is no friend's own
  Absent,       \* no user_connections entry
  Null,         \* an entry without a udp_server
  MaxUpsets     \* bound: edits of an address and ends of the program from
                \* outside, together

(* Places in memory for udp_server objects, one per friend and one more.   *)
Slots == Friends \cup {Spare}

ASSUME FriendsAssumption == Friends # {}
ASSUME EntriesAssumption == Absent # Null /\ {Absent, Null} \cap Slots = {}
ASSUME WatchedAssumption == Watched \subseteq Friends
ASSUME PortsAssumption == Ports \subseteq Nat \ {0}
ASSUME BoundsAssumption == MaxUpsets \in Nat

(* Bound: receives of one object, waiting or with a packet, when it moves. *)
MaxReceives == 1

VARIABLES
  program,   \* "down", "loading" (before io.run) or "up"
  toLoad,    \* the directories load_connections has yet to visit
  identity,  \* the file user_settings/ECC: "missing", "torn" or a key
  answers,   \* the wrapped keys on their way to this client
  book,      \* book[f]: the directory friends/<f> and its username.txt
  ip_io,     \* ip_io[f]: the address in the file friends/<f>/ip_io
  entry,     \* entry[f]: the user_connections entry of f
  block,     \* block[s]: the udp_server at s, or what is left of it
  checkin,   \* the check-in under way with the coordinating server
  upsets     \* the edits and the ends from outside so far

vars == <<program, toLoad, identity, answers, book, ip_io, entry, block,
          checkin, upsets>>

files == <<identity, book, ip_io>>

Closed == 0

(* The file of a new friend is empty.  An edit of one of its ports writes  *)
(* an empty ip first: a reader then takes the word after it for the ip,    *)
(* and finds two words where there should be three.                        *)
NoAddress == [port |-> Closed, ip |-> "none"]
Headless == [port |-> Closed, ip |-> "missing"]

(* A file with all three: iport, which is Closed when its number is no     *)
(* port, and ip with oport, which the server gives as the resolver accepts *)
(* them.  Those of a user, or of memory nobody wrote, may fail.            *)
Address == [port : Ports \cup {Closed}, ip : {"good", "doubtful"}]

(* The addresses the server assigns.                                       *)
Assigned == [port : Ports, ip : {"good"}]

(* What the system makes of an address: a port, and whether it resolves.   *)
(* A number that is no port is cut to 16 bits, or any port is chosen.      *)
Target == [port : Ports, resolves : BOOLEAN]
Targets(a) ==
  {t \in Target : a.port \in {t.port, Closed} /\ (a.ip = "good" => t.resolves)}

(* identity: the keys a program can have generated.                        *)
Keys == {"first", "second"}

(* One udp_server: its socket's port, its receives that wait and that hold *)
(* a packet.  Its punch timer is always armed.  A receive that is aborted  *)
(* returns to a living object and does nothing, so it is not kept; for     *)
(* freed memory packets counts all that will still return there.  cut is a *)
(* note for the properties: a receive failed or change_target did.         *)
Block == [use : {"blank", "object", "freed"}, friend : Friends, stopped : BOOLEAN,
          port : Ports \cup {Closed}, reads : Nat, packets : Nat, cut : BOOLEAN]

Built(f, p) ==
  [use |-> "object", friend |-> f, stopped |-> FALSE, port |-> p, reads |-> 1,
   packets |-> 0, cut |-> FALSE]

(* A new object in memory given back while handlers of the old one wait: a *)
(* receive of the old one that held a packet will start a second receive   *)
(* of the new one.  Bound: one such receive.  Those that held none return, *)
(* and an old punch starts a second chain of punches, which no property    *)
(* tells from the first.                                                   *)
BuiltOver(b, f, p) ==
  [Built(f, p) EXCEPT !.packets = IF b.use = "freed" THEN 1 ELSE 0]

(* The constructor threw after start_receive and udp_punch: the members    *)
(* are destroyed, which aborts both, and the memory is given back with     *)
(* stopped still false.                                                    *)
HalfBuilt(f) ==
  [Built(f, Closed) EXCEPT !.use = "freed", !.reads = 0, !.packets = 2, !.cut = TRUE]

Unused == [Built(CHOOSE f \in Friends : TRUE, Closed) EXCEPT
             !.use = "blank", !.reads = 0]
Wiped == [s \in Slots |-> Unused]

NoCheckin == [asked |-> FALSE, busy |-> {}, targets |-> {}, stale |-> FALSE,
              matches |-> {}]

Sessions == {s \in Slots : block[s].use = "object"}
Blank == {s \in Slots : block[s].use = "blank"}
Leftover == {s \in Slots : block[s].use = "freed"}
InUse == {block[s].port : s \in Sessions} \ {Closed}

(* A receive of s waits, or a completed one will start the next.           *)
Hears(s) == block[s].reads + block[s].packets > 0
Hearing(f) == entry[f] \in Slots /\ Hears(entry[f])

(* The io_context is between two handlers: the loop of                     *)
(* handle_routine_response over the matches is not under way.              *)
Ready == program = "up" /\ checkin.matches = {}

Init ==
  /\ program = "down"
  /\ toLoad = {}
  /\ answers = {}
  /\ \/ /\ identity = "missing"
        /\ book = [f \in Friends |-> "none"]
        /\ ip_io = [f \in Friends |-> NoAddress]
     \/ /\ identity = "first"
        /\ book = [f \in Friends |-> "named"]
        /\ ip_io \in [Friends -> {NoAddress, Headless} \cup Address]
        /\ \A f \in Friends \ Watched : ip_io[f] = NoAddress \/ ip_io[f] \in Assigned
  /\ entry = [f \in Friends |-> Absent]
  /\ block = Wiped
  /\ checkin = NoCheckin
  /\ upsets = 0

----------------------------------------------------------------------------
(* The constructor and change_target.                                      *)

(* Where new puts an object; which place it is does not matter.            *)
Place(f) ==
  CHOOSE s \in Blank : s = IF f \in Blank THEN f ELSE IF Spare \in Blank THEN Spare ELSE s

(* Or where the allocator may put it: memory of a deleted object.          *)
Reused(f) == {s \in Leftover : f \in Watched /\ block[s].stopped}

(* The socket cannot be bound or the address not resolved: the constructor *)
(* throws before anything refers to the object.  Running out of memory     *)
(* looks the same to its callers.                                          *)
Refused(t) == t.port \in InUse \/ ~t.resolves \/ Blank = {}

(* read_file on username.txt, which is missing between remove and write.   *)
NameReads(f) == book[f] = "named"

(* new udp_server in a try block; a failure leaves a null entry.  The      *)
(* friend's name is read last, and the object is lost when it cannot be.   *)
(* Bound: what such objects leave behind never fills the memory.           *)
NewSession(f, t) ==
  \/ /\ Refused(t)
     /\ entry' = [entry EXCEPT ![f] = Null]
     /\ block' = block
  \/ /\ ~Refused(t) /\ NameReads(f)
     /\ \E s \in {Place(f)} \cup Reused(f) :
          /\ entry' = [entry EXCEPT ![f] = s]
          /\ block' = [block EXCEPT ![s] = BuiltOver(@, f, t.port)]
  \/ /\ ~Refused(t) /\ ~NameReads(f)
     /\ entry' = [entry EXCEPT ![f] = Null]
     /\ block' = IF Cardinality(Blank) > Cardinality({g \in Friends : entry[g] \notin Slots})
                   THEN [block EXCEPT ![Place(f)] = HalfBuilt(f)]
                   ELSE block

Throws(s, a) ==
  a.port \in {block[t].port : t \in Sessions \ {s}} \/ ~a.resolves

(* A bug to compare with: the receive is left to the one that was waiting. *)
MovedDeaf(s, a) ==
  [block[s] EXCEPT !.reads = 0, !.port = a.port]
(* Another: the old socket is kept when the new port cannot be bound.      *)
MovedIfFree(s, a) ==
  IF Throws(s, a) THEN block[s] ELSE [block[s] EXCEPT !.reads = 1, !.port = a.port]
(* change_target: the old socket is closed, which aborts the receive that  *)
(* waits; a receive that holds a packet stays queued and will start        *)
(* another.  The new socket is bound, then the address resolved, then a    *)
(* receive started, unless the session was stopped.                        *)
Moved(s, a) ==
  LET bound == a.port \notin {block[t].port : t \in Sessions \ {s}}
  IN  [block[s] EXCEPT
         !.reads = IF Throws(s, a) \/ block[s].stopped THEN 0 ELSE 1,
         !.port = IF bound THEN a.port ELSE Closed,
         !.cut = Throws(s, a)]

(* Bound: receives of a session that is about to move.                     *)
Movable(f) ==
  entry[f] \in Slots =>
    block[entry[f]].reads + block[entry[f]].packets <= MaxReceives

MoveSession(s, a) ==
  /\ block' = [block EXCEPT ![s] = Moved(s, a)]
  /\ UNCHANGED entry

----------------------------------------------------------------------------
(* The program starts and ends.                                            *)

Ended ==
  /\ program' = "down"
  /\ toLoad' = {}
  /\ entry' = [f \in Friends |-> Absent]
  /\ block' = Wiped
  /\ checkin' = NoCheckin

(* A bug to compare with: a key is generated at every start.               *)
KeyAnew(k) == IF k = "first" THEN "second" ELSE "first"
(* Another: the program goes on without a key.                             *)
KeyUnmade(k) == k
(* generate_or_load_ecc_keys: a key is generated when there is no file.    *)
KeyLoaded(k) == IF k = "missing" THEN "first" ELSE k

(* With a torn file EVP_PKEY_new_raw_private_key fails and main ends.      *)
Start ==
  /\ program = "down" /\ identity # "torn"
  /\ program' = "loading"
  /\ identity' = KeyLoaded(identity)
  /\ toLoad' = {f \in Friends : book[f] # "none"}
  /\ UNCHANGED <<answers, book, ip_io, entry, block, checkin, upsets>>

(* The power fails while the first key is written.                         *)
TornStart ==
  /\ program = "down" /\ identity = "missing" /\ upsets < MaxUpsets
  /\ identity' = "torn"
  /\ upsets' = upsets + 1
  /\ UNCHANGED <<program, toLoad, answers, book, ip_io, entry, block, checkin>>

(* load_connections, one directory in whatever order they are listed.  A   *)
(* file that lacks a word or has a negative port makes no session.         *)
Load(f) ==
  /\ program = "loading" /\ f \in toLoad
  /\ toLoad' = toLoad \ {f}
  /\ \/ /\ ip_io[f].port = Closed
        /\ entry' = [entry EXCEPT ![f] = Null]
        /\ block' = block
     \/ /\ ip_io[f] \in Address
        /\ \E t \in Targets(ip_io[f]) : NewSession(f, t)
  /\ UNCHANGED <<program, files, answers, checkin, upsets>>

(* main has started the http_server and tcp_c_client and calls io.run.     *)
Run ==
  /\ program = "loading" /\ toLoad = {}
  /\ program' = "up"
  /\ UNCHANGED <<toLoad, files, answers, entry, block, checkin, upsets>>

(* The window is closed or the power fails between two handlers, or within *)
(* handle_receive after the old username.txt is removed.                   *)
Crash ==
  /\ program # "down" /\ upsets < MaxUpsets
  /\ upsets' = upsets + 1
  /\ \/ book' = book
     \/ \E s \in Sessions :
          /\ Ready /\ block[s].packets > 0 /\ ~block[s].stopped
          /\ book' = [book EXCEPT ![block[s].friend] = "nameless"]
  /\ Ended
  /\ UNCHANGED <<identity, answers, ip_io>>

----------------------------------------------------------------------------
(* The user.                                                               *)

(* A bug to compare with: an entry is reset when a friend is added again.  *)
EntryAnew(f) == Null
EntryAdded(f) == IF entry[f] = Absent THEN Null ELSE entry[f]

(* POST /add_friend: what is missing is made.                              *)
AddFriend(f) ==
  /\ Ready /\ f \in Watched
  /\ book' = [book EXCEPT ![f] = "named"]
  /\ entry' = [entry EXCEPT ![f] = EntryAdded(f)]
  /\ UNCHANGED <<program, toLoad, identity, answers, ip_io, block, checkin,
                 upsets>>

(* A bug to compare with: stop cancels and closes, and does not say so.    *)
HaltedSilently(b) == b
(* stop: stopped is set before anything else.                              *)
Halted(b) == [b EXCEPT !.stopped = TRUE]

(* The timer, socket.cancel and close, then delete: the receive that waits *)
(* and the timer are aborted, the memory given back with them queued.      *)
Deleted(b) ==
  [Halted(b) EXCEPT !.use = "freed", !.packets = @ + b.reads + 1, !.reads = 0,
                    !.port = Closed, !.cut = FALSE]

(* POST /remove_friend.  cancel throws when change_target has left the     *)
(* socket closed: the rest of the handler is skipped.  Bound: handlers of  *)
(* one deleted session wait in the queue.                                  *)
RemoveFriend(f) ==
  LET s == entry[f]
  IN  /\ Ready /\ f \in Watched /\ book[f] # "none"
      /\ \/ /\ s \in Slots
            /\ block[s].port = Closed
            /\ block' = [block EXCEPT ![s] = Halted(@)]
            /\ UNCHANGED <<book, ip_io, entry>>
         \/ /\ s \in Slots => block[s].port # Closed /\ Leftover = {}
            /\ block' = IF s \in Slots THEN [block EXCEPT ![s] = Deleted(@)] ELSE block
            /\ book' = [book EXCEPT ![f] = "none"]
            /\ ip_io' = [ip_io EXCEPT ![f] = NoAddress]
            /\ entry' = [entry EXCEPT ![f] = Absent]
      /\ UNCHANGED <<program, toLoad, identity, answers, checkin, upsets>>

(* What the variables of POST /update_ip_data hold when the file said a:   *)
(* one field is new.  A port the file does not have is what the memory     *)
(* held, an ip it does not have is empty, which resolves to this computer. *)
Edited(a) ==
  {b \in Address : IF a \in Address THEN b.port = a.port \/ b.ip = a.ip
                                    ELSE b.ip = "doubtful"}

(* What a reader finds in the file when they are written.                  *)
Written(a, b) == IF a = NoAddress THEN {b, Headless} ELSE {b}

(* The ports of a check-in under way are no longer those in use.           *)
Outdated(c) == [c EXCEPT !.stale = c.asked]

(* POST /update_ip_data: the file is read and written, then the session    *)
(* made or moved; what this throws is caught and answered.  Abstraction: a *)
(* field's new value is one word, which the page sees to.                  *)
EditAddress(f) ==
  /\ Ready /\ f \in Watched /\ book[f] # "none" /\ Movable(f) /\ upsets < MaxUpsets
  /\ upsets' = upsets + 1
  /\ \E b \in Edited(ip_io[f]) :
       /\ \E a \in Written(ip_io[f], b) : ip_io' = [ip_io EXCEPT ![f] = a]
       /\ \E t \in Targets(b) :
            \/ entry[f] = Null /\ NewSession(f, t)
            \/ entry[f] \in Slots /\ MoveSession(entry[f], t)
            \/ entry[f] = Absent /\ UNCHANGED <<entry, block>>
  /\ checkin' = Outdated(checkin)
  /\ UNCHANGED <<program, toLoad, identity, answers, book>>

(* GET /exchange_keys: the public key is sent, and the friend answers with *)
(* a key wrapped for it.  Without a session the null pointer is followed.  *)
ExchangeKeys(f) ==
  /\ Ready /\ book[f] # "none"
  /\ \/ /\ entry[f] \in Slots
        /\ answers' = IF block[entry[f]].port = Closed THEN answers
                      ELSE answers \cup {Wrap("aes", Public(identity), "once")}
        /\ UNCHANGED <<program, toLoad, entry, block, checkin>>
     \/ /\ entry[f] \notin Slots
        /\ Ended
        /\ UNCHANGED answers
  /\ UNCHANGED <<files, upsets>>

----------------------------------------------------------------------------
(* The sockets.                                                            *)

(* A receive completes with a packet, or with an error: a punch came back  *)
(* as "port unreachable".  handle_receive does not start another then.     *)
PacketArrives(s) ==
  /\ Ready /\ block[s].use = "object" /\ block[s].friend \in Watched
  /\ block[s].reads > 0
  /\ \/ block' = [block EXCEPT ![s].reads = @ - 1, ![s].packets = @ + 1]
     \/ block' = [block EXCEPT ![s].reads = @ - 1, ![s].cut = TRUE]
  /\ UNCHANGED <<program, toLoad, files, answers, entry, checkin, upsets>>

(* A bug to compare with: a return without start_receive.                  *)
ReadLast(b) == [b EXCEPT !.packets = @ - 1]
(* handle_receive: every branch ends in start_receive, which does nothing  *)
(* for a stopped session and fails at once on a closed socket.             *)
ReadNext(b) ==
  [b EXCEPT !.packets = @ - 1,
            !.reads = IF b.stopped \/ b.port = Closed THEN @ ELSE @ + 1]

(* One of the packets may be an answer with a wrapped key.                 *)
HandlePacket(s) ==
  /\ Ready /\ block[s].use = "object" /\ block[s].packets > 0
  /\ block' = [block EXCEPT ![s] = ReadNext(@)]
  /\ answers' \in {answers} \cup {answers \ {w} : w \in answers}
  /\ UNCHANGED <<program, toLoad, files, entry, checkin, upsets>>

(* Once the last handler that points to freed memory has run, the memory   *)
(* is of no further interest.                                              *)
Returned(b) == IF b.packets = 1 THEN Unused ELSE [b EXCEPT !.packets = @ - 1]

(* A handler of a deleted object finds the memory as it was, where stopped *)
(* makes it return: a punch that does not see it arms its timer again.     *)
FreedHandler(s) ==
  /\ Ready /\ block[s].use = "freed" /\ block[s].stopped
  /\ block' = [block EXCEPT ![s] = Returned(@)]
  /\ UNCHANGED <<program, toLoad, files, answers, entry, checkin, upsets>>

(* Or the memory holds something else by now, and the program ends.        *)
FreedFault(s) ==
  /\ Ready /\ block[s].use = "freed"
  /\ Ended
  /\ UNCHANGED <<files, answers, upsets>>

----------------------------------------------------------------------------
(* The coordinating server.                                                *)

(* A bug to compare with: only the ports of silent friends are reported.   *)
BusySilent(T) == {block[entry[f]].port : f \in {g \in T : entry[g] \in Slots}} \ {Closed}
(* do_routine: local_endpoint of every session; a closed socket throws and *)
(* is left out.                                                            *)
Busy(T) == InUse

(* do_routine asks for the friends without activity: those that do not     *)
(* hear, and any that happen to be silent.                                 *)
CheckIn ==
  /\ Ready /\ ~checkin.asked
  /\ \E T \in SUBSET {f \in Friends : entry[f] # Absent} :
       /\ {f \in Friends : entry[f] # Absent /\ ~Hearing(f)} \subseteq T
       /\ checkin' = [asked |-> TRUE, busy |-> Busy(T), targets |-> T,
                      stale |-> FALSE, matches |-> {}]
  /\ UNCHANGED <<program, toLoad, files, answers, entry, block, upsets>>

(* The answer arrives, or the connection breaks.                           *)
Answer ==
  /\ Ready /\ checkin.asked
  /\ \E M \in SUBSET checkin.targets :
       /\ \A f \in M : Movable(f)
       /\ checkin' = [NoCheckin EXCEPT !.matches = M, !.busy = checkin.busy]
  /\ UNCHANGED <<program, toLoad, files, answers, entry, block, upsets>>

(* handle_routine_response, one match: a port that was free at the         *)
(* check-in.  A friend removed since is passed over; a new session may     *)
(* fail, but what change_target throws leaves io.run and ends the program. *)
FollowMatch(f) ==
  /\ program = "up" /\ f \in checkin.matches
  /\ \E p \in Ports \ checkin.busy :
       LET a == [port |-> p, ip |-> "good"]
           t == [port |-> p, resolves |-> TRUE]
       IN  /\ ip_io' = IF entry[f] = Absent THEN ip_io ELSE [ip_io EXCEPT ![f] = a]
           /\ \/ /\ entry[f] \in Slots /\ Throws(entry[f], t)
                 /\ Ended
              \/ /\ \/ entry[f] \in Slots /\ ~Throws(entry[f], t) /\ MoveSession(entry[f], t)
                    \/ entry[f] = Null /\ NewSession(f, t)
                    \/ entry[f] = Absent /\ UNCHANGED <<entry, block>>
                 /\ checkin' = IF checkin.matches = {f} THEN NoCheckin
                               ELSE [checkin EXCEPT !.matches = @ \ {f}]
                 /\ UNCHANGED <<program, toLoad>>
  /\ UNCHANGED <<identity, answers, book, upsets>>

Next ==
  \/ Start \/ TornStart \/ Run \/ Crash \/ CheckIn \/ Answer
  \/ \E f \in Friends :
       \/ Load(f) \/ AddFriend(f) \/ RemoveFriend(f) \/ EditAddress(f)
       \/ ExchangeKeys(f) \/ FollowMatch(f)
  \/ \E s \in Slots :
       \/ PacketArrives(s) \/ HandlePacket(s)
       \/ FreedHandler(s) \/ FreedFault(s)

Spec == Init /\ [][Next]_vars

(* The loop over the matches goes on to its end, and io.run, whose queue   *)
(* is served in turn, calls every handler between two such loops.          *)
FairSpec ==
  /\ Spec
  /\ \A f \in Friends : WF_vars(FollowMatch(f))
  /\ \A s \in Slots : SF_vars(FreedHandler(s))

----------------------------------------------------------------------------
(* Properties.                                                             *)

(* Every variable has its type.                                            *)
TypeOK ==
  /\ program \in {"down", "loading", "up"}
  /\ toLoad \subseteq Friends
  /\ identity \in Keys \cup {"missing", "torn"}
  /\ answers \subseteq {Wrap("aes", Public(k), "once") : k \in Keys}
  /\ book \in [Friends -> {"none", "nameless", "named"}]
  /\ ip_io \in [Friends -> {NoAddress, Headless} \cup Address]
  /\ entry \in [Friends -> Slots \cup {Absent, Null}]
  /\ block \in [Slots -> Block]
  /\ checkin \in [asked : BOOLEAN, busy : SUBSET Ports, targets : SUBSET Friends,
                  stale : BOOLEAN, matches : SUBSET Friends]
  /\ upsets \in 0..MaxUpsets

(* A udp_server lives exactly as long as the entry that leads to it: no    *)
(* entry points to freed memory, and no object is left running (and bound  *)
(* to its port) that remove_friend could not find.                         *)
NoOrphan ==
  /\ \A f \in Friends :
       entry[f] \in Slots => block[entry[f]].use = "object" /\ block[entry[f]].friend = f
  /\ \A s \in Sessions : entry[block[s].friend] = s

(* A session that was not stopped is deaf only after a failed receive or   *)
(* a failed change_target: however moves and packets interleave, the chain *)
(* of receives does not break.                                             *)
HearsUnlessCut ==
  \A s \in Sessions : ~block[s].cut /\ ~block[s].stopped => Hears(s)

(* The port that load_connections will bind at the next start is that of   *)
(* the session now: the file is never older than the socket, also after an *)
(* edit or a match that failed half way.  Where an edit of a new friend's  *)
(* ports left the file a word short, or wrote a number that is no port,    *)
(* the file names no port, and no other either.                            *)
FileFitsSession ==
  \A s \in Sessions :
    block[s].port = Closed \/ ip_io[block[s].friend].port \in {Closed, block[s].port}

(* While a check-in is under way no port comes into use that the server    *)
(* was not told of, except by an edit of the user: only then, or when two  *)
(* matches get one port, may following the answer end the program.         *)
AnswerFits == checkin.asked /\ ~checkin.stale => InUse \subseteq checkin.busy

(* Every wrapped key on its way can be opened when it arrives, also when   *)
(* the program was started again since it asked for it.                    *)
AnswersOpen ==
  program = "up" => \A w \in answers : Unwrap(identity, w) # <<>>

(* A friend whose session is deaf, or who has none, is heard again if      *)
(* answers keep naming him alone, whatever else goes on: unless the        *)
(* program ends, the friend is removed, or a removal failed half way.  The *)
(* server names him only while he asks as well (see Rendezvous): one who   *)
(* still hears the punches of the deaf session does not ask, and for that  *)
(* session nothing is promised.                                            *)
EveryFriendHeard ==
  \A f \in Friends :
    []<><<Answer /\ checkin'.matches = {f}>>_vars =>
      ((program = "up" /\ book[f] = "named" /\ entry[f] # Absent /\ ~Hearing(f))
         ~> \/ program = "down" \/ entry[f] = Absent \/ Hearing(f)
            \/ entry[f] \in Slots /\ block[entry[f]].stopped)

(* The handlers a deleted session leaves in the queue run out: none of     *)
(* them arms a timer or starts a receive in the freed memory.              *)
Deletions == {s \in Slots : block[s].use = "freed" /\ ~block[s].cut}
RemovedRunsOut == Deletions # {} ~> Deletions = {}
=============================================================================

----------------------------- MODULE Rendezvous -----------------------------
(***************************************************************************)
(* How friends find each other: the coordinating server's table of         *)
(* sessions and its assignment of ports (server/main.cpp), the routine     *)
(* every client runs with it over TCP and the udp_server objects that      *)
(* follow the answers (client/main.cpp: tcp_c_client, load_connections,    *)
(* check_activity).                                                        *)
(*                                                                         *)
(* A connection is the pair of ports of one udp_server: iport, where it    *)
(* listens, and oport, where it sends.  Every udp_server punches all the   *)
(* time, and the one listening at the port the punch is sent to counts it  *)
(* as a sign of life of its own friend, whoever sent it.  Addresses are    *)
(* left out: an answer carries one the friend can be reached at.  The      *)
(* clients have registered; their first keys are another module's matter.  *)
(***************************************************************************)
EXTENDS Naturals, Sequences, FiniteSets, SequencesExt

CONSTANTS
  Clients,     \* the clients
  Befriends,   \* Befriends[c]: the clients c has added as friends
  Rank,        \* Rank[c]: the place of c's uuid in the order of strings
  LastPort,    \* bound: the server hands out the ports 1..LastPort, two more
               \*   than two clients have friends (the code has 21113 ports)
  Faults       \* whether clients stop and start, whether punches get lost

ASSUME FriendsAssumption ==
  Befriends \in [Clients -> SUBSET Clients] /\ \A c \in Clients : c \notin Befriends[c]
ASSUME RankAssumption ==
  /\ Rank \in [Clients -> Nat]
  /\ \A c, d \in Clients : Rank[c] = Rank[d] => c = d
ASSUME ClientsAssumption == IsFiniteSet(Clients)
ASSUME PortsAssumption ==
  /\ LastPort \in Nat
  /\ \A c, d \in Clients : c # d =>
       Cardinality(Befriends[c]) + Cardinality(Befriends[d]) + 2 <= LastPort
ASSUME FaultsAssumption == Faults \subseteq {"stop", "silence"}

VARIABLES
  running,   \* the clients whose program runs
  conn,      \* conn[c][d]: c's user_connections entry for d
  ip_io,     \* ip_io[c][d]: the ports in c's file friends/<d>/ip_io
  active,    \* active[c]: the friends a packet came from in the last 2 s
  session,   \* session[c]: active_sessions of the server
  tcp        \* tcp[c]: what is on its way between c and the server

vars == <<running, conn, ip_io, active, session, tcp>>

----------------------------------------------------------------------------
(* find_available_ports: the two lowest ports free on both sides, 0 for    *)
(* one there is not.                                                       *)
NoPort == 0
(* A bug to compare with: only the other side's ports are avoided.         *)
FreeTheirs(U, V) == (1..LastPort) \ V
Free(U, V) == (1..LastPort) \ (U \cup V)
Lowest(S) == IF S = {} THEN NoPort ELSE CHOOSE p \in S : \A q \in S : p <= q
First(U, V) == Lowest(Free(U, V))
Second(U, V) == Lowest(Free(U, V) \ {First(U, V)})

NoConn == [iport |-> NoPort, oport |-> NoPort]

(* A bug to compare with: both sides get the ports in the same order.      *)
AssignedSame(c, d, U, V) == [iport |-> First(U, V), oport |-> Second(U, V)]
(* The ports for c to reach d with: the one of lower uuid listens on the   *)
(* second port and the other one on the first.                             *)
Assigned(c, d, U, V) ==
  IF Rank[c] < Rank[d] THEN [iport |-> Second(U, V), oport |-> First(U, V)]
  ELSE [iport |-> First(U, V), oport |-> Second(U, V)]

NoSession == [known |-> FALSE]
Idle == [kind |-> "idle"]

(* A bug to compare with: friends without a connection are not skipped.    *)
ListeningAll(row) == {row[d].iport : d \in DOMAIN row}
(* The ports a client listens on.                                          *)
Listening(row) == {row[d].iport : d \in {e \in DOMAIN row : row[e] # NoConn}}

NoRow(c) == [d \in Befriends[c] |-> NoConn]

(* The clients that do not run have not been started yet.                  *)
Init ==
  /\ running \in SUBSET Clients
  /\ conn = [c \in Clients |-> NoRow(c)]
  /\ ip_io = [c \in Clients |-> NoRow(c)]
  /\ active = [c \in Clients |-> {}]
  /\ session = [c \in Clients |-> NoSession]
  /\ tcp = [c \in Clients |-> Idle]

----------------------------------------------------------------------------
(* Punches.                                                                *)

(* A punch of e's udp_server for c reaches c's udp_server for d.           *)
Reaches(e, c, d) ==
  /\ e \in running /\ c \in running
  /\ c \in Befriends[e] /\ d \in Befriends[c]
  /\ conn[e][c] # NoConn /\ conn[c][d] # NoConn
  /\ conn[e][c].oport = conn[c][d].iport

Heard(c, d) == \E e \in Clients : Reaches(e, c, d)

(* handle_receive dates last_packets_times of its own friend.              *)
Hear(c, d) ==
  /\ d \notin active[c]
  /\ Heard(c, d)
  /\ active' = [active EXCEPT ![c] = @ \cup {d}]
  /\ UNCHANGED <<running, conn, ip_io, session, tcp>>

(* Two seconds without a packet.                                           *)
FallSilent(c, d) ==
  /\ d \in active[c]
  /\ "silence" \in Faults \/ ~Heard(c, d)
  /\ active' = [active EXCEPT ![c] = @ \ {d}]
  /\ UNCHANGED <<running, conn, ip_io, session, tcp>>

----------------------------------------------------------------------------
(* The routine.                                                            *)

(* A bug to compare with: friends are asked for whether or not they are    *)
(* active.                                                                 *)
WantedAll(c) == Befriends[c]
(* The friends a client asks for: the ones that are not active.            *)
Wanted(c) == Befriends[c] \ active[c]

(* do_routine, with the ports in use and the friends wanted.               *)
CheckIn(c) ==
  /\ c \in running
  /\ tcp[c] = Idle
  /\ tcp' = [tcp EXCEPT ![c] =
       [kind |-> "request", busy |-> Listening(conn[c]), targets |-> Wanted(c)]]
  /\ UNCHANGED <<running, conn, ip_io, active, session>>

(* A match is mutual: the friend has a session and asks for c in it.       *)
Matches(c, targets) ==
  {d \in targets : session[d] # NoSession /\ c \in session[d].targets}

(* process_routine_request: the session is replaced, then the answer built *)
(* from it and from the sessions of the friends.                           *)
Serve(c) ==
  /\ tcp[c].kind = "request"
  /\ session' = [session EXCEPT ![c] =
       [known |-> TRUE, busy |-> tcp[c].busy, targets |-> tcp[c].targets]]
  /\ tcp' = [tcp EXCEPT ![c] =
       [kind |-> "answer",
        found |-> [d \in Matches(c, tcp[c].targets) |->
                     Assigned(c, d, tcp[c].busy, session[d].busy)]]]
  /\ UNCHANGED <<running, conn, ip_io, active>>

(* The cleanup timer: a client not seen for 30 s is forgotten.          *)
Expire(c) ==
  /\ session[c] # NoSession
  /\ c \notin running /\ tcp[c].kind # "request"
  /\ session' = [session EXCEPT ![c] = NoSession]
  /\ UNCHANGED <<running, conn, ip_io, active, tcp>>

----------------------------------------------------------------------------
(* Sockets.                                                                *)

(* One entry of an answer, or of friends/: a port another connection of    *)
(* the client listens on cannot be bound.  A connection that does not      *)
(* exist yet then stays away, change_target of one that exists ends the    *)
(* program.  A state s is a row of connections, a row of files and whether *)
(* the program still runs.                                                 *)
Opened(s, d, ports) ==
  IF ~s.up THEN s
  ELSE LET others == Listening([e \in DOMAIN s.row \ {d} |-> s.row[e]])
           files == [s.files EXCEPT ![d] = ports]
       IN  IF ports.iport \notin others
             THEN [up |-> TRUE, row |-> [s.row EXCEPT ![d] = ports], files |-> files]
           ELSE IF s.row[d] = NoConn THEN [s EXCEPT !.files = files]
           ELSE [s EXCEPT !.up = FALSE, !.files = files]

(* The entries of "ports" opened one after another in some order.          *)
AllOpened(s, ports, order) ==
  FoldLeft(LAMBDA t, d : Opened(t, d, ports[d]), s, order)

Orders(S) == SetToSeqs(S)

(* handle_routine_response.                                                *)
Apply(c) ==
  /\ c \in running
  /\ tcp[c].kind = "answer"
  /\ \E order \in Orders(DOMAIN tcp[c].found) :
       LET s == AllOpened([up |-> TRUE, row |-> conn[c], files |-> ip_io[c]],
                          tcp[c].found, order)
       IN  /\ ip_io' = [ip_io EXCEPT ![c] = s.files]
           /\ conn' = [conn EXCEPT ![c] = IF s.up THEN s.row ELSE NoRow(c)]
           /\ running' = IF s.up THEN running ELSE running \ {c}
           /\ active' = [active EXCEPT ![c] = IF s.up THEN @ ELSE {}]
  /\ tcp' = [tcp EXCEPT ![c] = Idle]
  /\ UNCHANGED session

----------------------------------------------------------------------------
(* Clients that stop and start.                                            *)

Stop(c) ==
  /\ "stop" \in Faults
  /\ c \in running
  /\ running' = running \ {c}
  /\ conn' = [conn EXCEPT ![c] = NoRow(c)]
  /\ active' = [active EXCEPT ![c] = {}]
  /\ UNCHANGED <<ip_io, session, tcp>>

(* load_connections; the routine starts over a new TCP connection.         *)
Start(c) ==
  /\ c \notin running
  /\ running' = running \cup {c}
  /\ \E order \in Orders({d \in Befriends[c] : ip_io[c][d] # NoConn}) :
       conn' = [conn EXCEPT ![c] =
         AllOpened([up |-> TRUE, row |-> NoRow(c), files |-> ip_io[c]], ip_io[c], order).row]
  /\ tcp' = [tcp EXCEPT ![c] = Idle]
  /\ UNCHANGED <<ip_io, active, session>>

Next ==
  \E c \in Clients :
    \/ CheckIn(c) \/ Serve(c) \/ Apply(c) \/ Expire(c) \/ Stop(c) \/ Start(c)
    \/ \E d \in Befriends[c] : Hear(c, d) \/ FallSilent(c, d)

Spec == Init /\ [][Next]_vars

(* The timers and sockets of the client and of the server go on, and a     *)
(* client that ended is started again.                                     *)
FairSpec ==
  /\ Spec
  /\ \A c \in Clients :
       /\ WF_vars(CheckIn(c)) /\ WF_vars(Serve(c)) /\ WF_vars(Apply(c)) /\ WF_vars(Start(c))
       /\ \A d \in Befriends[c] : WF_vars(Hear(c, d)) /\ WF_vars(FallSilent(c, d))

----------------------------------------------------------------------------
(* Properties.                                                             *)

Ports == 0..LastPort
Pairs == [iport : Ports, oport : Ports]

Request(c) ==
  [kind : {"request"}, busy : SUBSET (1..LastPort), targets : SUBSET Befriends[c]]
Answer(c) ==
  UNION {[kind : {"answer"}, found : [D -> Pairs]] : D \in SUBSET Befriends[c]}
Session(c) ==
  [known : {TRUE}, busy : SUBSET (1..LastPort), targets : SUBSET Befriends[c]]

TypeOK ==
  /\ running \subseteq Clients
  /\ \A c \in Clients :
       /\ conn[c] \in [Befriends[c] -> Pairs]
       /\ ip_io[c] \in [Befriends[c] -> Pairs]
       /\ active[c] \subseteq Befriends[c]
       /\ tcp[c] \in {Idle} \cup Request(c) \cup Answer(c)
       /\ session[c] \in {NoSession} \cup Session(c)

(* The port an answer tells a client to listen on is none it listens on    *)
(* already when the answer arrives: the list of ports in use is still true *)
(* after the way to the server and back.  With it a new friend never costs *)
(* an existing connection its port.                                        *)
AnswerPortsFree ==
  \A c \in Clients : tcp[c].kind = "answer" =>
    \A d \in DOMAIN tcp[c].found :
      tcp[c].found[d].iport \notin Listening(conn[c]) \ {NoPort}

(* c's and d's connections listen where the other one sends.               *)
Facing(c, d) ==
  /\ conn[c][d] # NoConn /\ conn[d][c] # NoConn
  /\ conn[c][d].iport = conn[d][c].oport
  /\ conn[d][c].iport = conn[c][d].oport

Mutual ==
  {e \in Clients \X Clients : e[2] \in Befriends[e[1]] /\ e[1] \in Befriends[e[2]]}

Asks(c, d) ==
  \/ tcp[c].kind = "request" /\ d \in tcp[c].targets
  \/ tcp[c].kind = "answer" /\ d \in DOMAIN tcp[c].found

(* c and d hear each other, and no question of one for the other is open.  *)
Settled(c, d) ==
  /\ Facing(c, d)
  /\ d \in active[c] /\ c \in active[d]
  /\ ~Asks(c, d) /\ ~Asks(d, c)

(* The routine never takes a working connection down while its two clients *)
(* run and no punches are lost: whatever old sessions the server holds and *)
(* whatever ports other friends are given.                                 *)
SettledStays ==
  [][\A e \in Mutual :
       Settled(e[1], e[2]) /\ {e[1], e[2]} \subseteq running'
         => Settled(e[1], e[2])']_vars

(* What hole punching is for: two friends who are online, and no one else, *)
(* end up facing each other for good.                                      *)
FriendsMeet ==
  \A e \in Mutual : [](running = {e[1], e[2]}) => <>[]Facing(e[1], e[2])
=============================================================================

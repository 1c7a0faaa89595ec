---------------------------- MODULE CoordClient ----------------------------
(***************************************************************************)
(* A client's connection to the coordinating server: tcp_c_client          *)
(* (client/main.cpp) and the server's Session (server/main.cpp).  The      *)
(* client registers once, is given a uuid and a key, saves both and from   *)
(* then on checks in every two seconds.  What a check-in says is           *)
(* Rendezvous' matter; here it is the uuid and the key it is encrypted     *)
(* with.                                                                   *)
(*                                                                         *)
(* Identities are numbers in the order the server gives them out: uuid n   *)
(* comes with key n, and 0 is a file that is missing or cut short.  One    *)
(* operation of the client is under way at any time, the one that pending  *)
(* names: each handler ends by starting the next one.  A check-in under a  *)
(* wrong key is refused; that it decrypts to a well-formed one is left out.*)
(***************************************************************************)
EXTENDS Naturals

CONSTANTS
  Faults,     \* what may go wrong
  MaxFaults   \* bound: how often each of them does

ASSUME FaultsAssumption ==
  Faults \subseteq {"switch", "drop", "server", "stop", "tear", "vanish"}
ASSUME MaxFaultsAssumption == MaxFaults \in Nat

VARIABLES
  me,         \* the program: its tcp_c_client and the TCP connection
  flag,       \* connection_to_server_active, as in the file server.txt
  disk,       \* the files uuid.txt and c_aes.txt
  issued,     \* the identities given out; the server keeps the key files
  serving,    \* whether the server runs
  faults      \* how often each of Faults went wrong

vars == <<me, flag, disk, issued, serving, faults>>

Nothing == [kind |-> "nothing"]
Off == [up |-> FALSE, uuid |-> 0, key |-> 0, registered |-> FALSE,
        line |-> "none", msg |-> Nothing, pending |-> "none"]

----------------------------------------------------------------------------
(* The client.  The operators take and return a state of the program.      *)

Closed(s) == [s EXCEPT !.line = "none", !.msg = Nothing]

(* A bug to compare with: an open socket stays open.                       *)
RetriedOpen(s) == [s EXCEPT !.pending = "timer"]
(* schedule_retry: with the flag off an open socket is closed and the      *)
(* registration forgotten.                                                 *)
Retried(s) ==
  IF ~flag /\ s.line # "none"
    THEN [Closed(s) EXCEPT !.registered = FALSE, !.pending = "timer"]
    ELSE [s EXCEPT !.pending = "timer"]

(* Bugs to compare with: nothing is tried again; the client registers anew.*)
ReconnectedNot(s) == [Closed(s) EXCEPT !.pending = "none"]
ReconnectedAnew(s) == [Retried(Closed(s)) EXCEPT !.registered = FALSE]
(* reconnect, after any error of an operation.                             *)
Reconnected(s) == Retried(Closed(s))

(* send_frame and read_header_then; what is written to a connection the    *)
(* other side has left comes back as an error.                             *)
Sent(s, m) ==
  IF s.line = "live" THEN [s EXCEPT !.msg = m, !.pending = "answer"]
  ELSE [s EXCEPT !.line = "broken", !.pending = "answer"]

(* do_routine; with the flag off it closes the socket as schedule_retry    *)
(* does.                                                                   *)
Routine(s) ==
  IF ~flag THEN Retried(s)
  ELSE Sent(s, [kind |-> "routine", uuid |-> s.uuid, key |-> s.key])

(* load_hex_key throws unless all 64 digits are there.                     *)
Loads(key) == key # 0

(* The constructor and start.                                              *)
Started ==
  [Off EXCEPT !.up = TRUE, !.uuid = disk.uuid, !.key = disk.key,
              !.registered = (disk.uuid # 0 /\ Loads(disk.key)),
              !.pending = IF flag THEN "connect" ELSE "timer"]

Init ==
  /\ flag \in BOOLEAN
  /\ disk = [uuid |-> 0, key |-> 0]
  /\ me = Started
  /\ issued = 0
  /\ serving = TRUE
  /\ faults = [f \in Faults |-> 0]

Timer ==
  /\ me.pending = "timer"
  /\ me' = CASE ~flag -> Retried(me)
             [] flag /\ me.line = "none" -> [me EXCEPT !.pending = "connect"]
             [] flag /\ me.line # "none" -> Routine(me)
  /\ UNCHANGED <<flag, disk, issued, serving, faults>>

(* The end of async_connect; the flag is not looked at before registering. *)
Connected ==
  /\ me.pending = "connect"
  /\ serving
  /\ LET s == [me EXCEPT !.line = "live"]
     IN  me' = IF s.registered THEN Routine(s) ELSE Sent(s, [kind |-> "register"])
  /\ UNCHANGED <<flag, disk, issued, serving, faults>>

ConnectFails ==
  /\ me.pending = "connect"
  /\ ~serving
  /\ me' = Reconnected(me)
  /\ UNCHANGED <<flag, disk, issued, serving, faults>>

ReadFails ==
  /\ me.pending = "answer"
  /\ me.line = "broken"
  /\ me' = Reconnected(me)
  /\ UNCHANGED <<flag, disk, issued, serving, faults>>

(* A bug to compare with: a key file that is there is not written again.   *)
SavedOnce(n) == [uuid |-> n, key |-> IF disk.key = 0 THEN n ELSE disk.key]
Saved(n) == [uuid |-> n, key |-> n]

(* handle_register_response; the first check-in follows at once.  The      *)
(* server answers with a key wrapped for the public key it was sent, never *)
(* shorter than is asked for: an answer that is refused is left out.       *)
RecvRegistered ==
  /\ me.pending = "answer"
  /\ me.msg.kind = "registered"
  /\ LET n == me.msg.id
     IN  /\ disk' = Saved(n)
         /\ me' = Routine([me EXCEPT !.uuid = n, !.key = n, !.registered = TRUE,
                                     !.msg = Nothing])
  /\ UNCHANGED <<flag, issued, serving, faults>>

(* handle_routine_response.                                                *)
RecvAnswer ==
  /\ me.pending = "answer"
  /\ me.msg.kind = "answer"
  /\ me' = Retried([me EXCEPT !.msg = Nothing])
  /\ UNCHANGED <<flag, disk, issued, serving, faults>>

----------------------------------------------------------------------------
(* The server: process_payload.                                            *)

(* generate_uuid: one that was not given out before.                       *)
Fresh == issued + 1

ServeRegister ==
  /\ me.msg.kind = "register"
  /\ issued' = Fresh
  /\ me' = [me EXCEPT !.msg = [kind |-> "registered", id |-> Fresh]]
  /\ UNCHANGED <<flag, disk, serving, faults>>

(* load_aes_key; what is kept in the session is the same key.              *)
KeyFile(uuid) == uuid

(* aes_decrypt, of what was encrypted under m.key.                         *)
Decrypts(key, m) == key = m.key

(* A request that is not decrypted closes the connection.                  *)
Understood(m) == Decrypts(KeyFile(m.uuid), m)

ServeRoutine ==
  /\ me.msg.kind = "routine"
  /\ me' = IF Understood(me.msg) THEN [me EXCEPT !.msg = [kind |-> "answer"]]
           ELSE [me EXCEPT !.line = "broken", !.msg = Nothing]
  /\ UNCHANGED <<flag, disk, issued, serving, faults>>

----------------------------------------------------------------------------
(* The user and the environment.                                           *)

Fault(f) ==
  /\ f \in Faults
  /\ faults[f] < MaxFaults
  /\ faults' = [faults EXCEPT ![f] = @ + 1]

(* POST /connection.                                                       *)
Switch ==
  /\ Fault("switch")
  /\ me.up
  /\ flag' = ~flag
  /\ UNCHANGED <<me, disk, issued, serving>>

Lost == IF me.line = "live" THEN [me EXCEPT !.line = "broken", !.msg = Nothing] ELSE me

Drop ==
  /\ Fault("drop")
  /\ me.line = "live"
  /\ me' = Lost
  /\ UNCHANGED <<flag, disk, issued, serving>>

(* Key files outlive the server, connections do not.                       *)
ServerStops ==
  /\ Fault("server")
  /\ serving
  /\ serving' = FALSE
  /\ me' = Lost
  /\ UNCHANGED <<flag, disk, issued>>

ServerStarts ==
  /\ ~serving
  /\ serving' = TRUE
  /\ UNCHANGED <<me, flag, disk, issued, faults>>

(* The server's host goes down with what it has received and comes back,   *)
(* and nothing is sent over the connection: TCP reports no error to a      *)
(* program that only reads.                                                *)
Vanish ==
  /\ Fault("vanish")
  /\ me.line = "live"
  /\ me' = [me EXCEPT !.line = "dead", !.msg = Nothing]
  /\ UNCHANGED <<flag, disk, issued, serving>>

Stop ==
  /\ Fault("stop")
  /\ me.up
  /\ me' = Off
  /\ UNCHANGED <<flag, disk, issued, serving>>

(* The program ends within handle_register_response: each file is emptied  *)
(* when it is opened and written when it is closed, uuid.txt first.        *)
Tear ==
  /\ Fault("tear")
  /\ me.pending = "answer"
  /\ me.msg.kind = "registered"
  /\ disk' \in {[disk EXCEPT !.uuid = 0], [disk EXCEPT !.uuid = me.msg.id],
                [uuid |-> me.msg.id, key |-> 0]}
  /\ me' = Off
  /\ UNCHANGED <<flag, issued, serving>>

Start ==
  /\ ~me.up
  /\ me' = Started
  /\ UNCHANGED <<flag, disk, issued, serving, faults>>

Client == Timer \/ Connected \/ ConnectFails \/ ReadFails \/ RecvRegistered \/ RecvAnswer
Server == ServeRegister \/ ServeRoutine

Next ==
  \/ Client \/ Server
  \/ Switch \/ Drop \/ ServerStops \/ ServerStarts \/ Vanish \/ Stop \/ Tear \/ Start

Spec == Init /\ [][Next]_vars

(* The io_contexts of the client and of the server run what is ready.      *)
FairSpec == Spec /\ WF_vars(Client) /\ WF_vars(Server)

----------------------------------------------------------------------------
(* Properties.                                                             *)

Messages ==
  [kind : {"nothing", "register", "answer"}]
  \cup [kind : {"registered"}, id : 1..issued]
  \cup [kind : {"routine"}, uuid : 0..issued, key : 0..issued]

(* A running client always has an operation under way, and it reads from an  *)
(* open socket only.                                                       *)
TypeOK ==
  /\ me \in [up : BOOLEAN, uuid : 0..issued, key : 0..issued, registered : BOOLEAN,
             line : {"none", "live", "broken", "dead"}, msg : Messages,
             pending : {"none", "timer", "connect", "answer"}]
  /\ me.up <=> me.pending # "none"
  /\ me.pending = "answer" => me.line # "none"
  /\ flag \in BOOLEAN
  /\ disk \in [uuid : 0..issued, key : 0..issued]
  /\ issued \in Nat
  /\ serving \in BOOLEAN
  /\ faults \in [Faults -> 0..MaxFaults]

Never(f) == f \in Faults => faults[f] = 0

(* The server can decrypt every check-in: through lost answers, restarts   *)
(* and new registrations the uuid a client names and the key it uses       *)
(* belong together, unless the program has ended while it saved them.      *)
CheckInsUnderstood ==
  Never("tear") /\ me.msg.kind = "routine" => Understood(me.msg)

(* A client that has saved an identity keeps it through lost connections   *)
(* and restarts of both programs, as long as the user leaves the server    *)
(* switched on: its friends know it by no other uuid.                      *)
IdentityKept ==
  [][(Never("tear") /\ Never("switch"))' /\ disk.uuid # 0 => disk'.uuid = disk.uuid]_vars

(* Once the user leaves the server switched off, the connection is closed  *)
(* and stays so, whatever was under way, unless a read never returned.     *)
OffMeansOff ==
  <>[](~flag /\ Never("vanish")) => <>[](me.line = "none")

(* The comment at do_routine: communication with the server every two      *)
(* seconds.  While the program runs, is switched on and has a server,      *)
(* answered check-ins never cease, unless the saved identity was torn or a *)
(* read never returned.                                                    *)
RoutineGoesOn ==
  <>[](me.up /\ flag /\ serving /\ Never("tear") /\ Never("vanish"))
    => []<><<RecvAnswer>>_vars
=============================================================================

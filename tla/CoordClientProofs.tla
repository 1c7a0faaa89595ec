------------------------- MODULE CoordClientProofs -------------------------
(***************************************************************************)
(* Properties of CoordClient proved for every number of faults: the server *)
(* understands every check-in until the program ends while it saves an     *)
(* identity, an identity is kept until then or until the user switches the *)
(* server off, and a running client always has an operation under way.     *)
(***************************************************************************)
EXTENDS CoordClient, TLAPS

Msgs ==
  [kind : {"nothing", "register", "answer"}]
  \cup [kind : {"registered"}, id : Nat \ {0}]
  \cup [kind : {"routine"}, uuid : Nat, key : Nat]

Programs ==
  [up : BOOLEAN, uuid : Nat, key : Nat, registered : BOOLEAN,
   line : {"none", "live", "broken", "dead"}, msg : Msgs,
   pending : {"none", "timer", "connect", "answer"}]

FaultsInv == faults \in [Faults -> Nat]

(* Uuid and key of the client and of its files belong together.            *)
MatchedInv ==
  /\ me \in Programs
  /\ issued \in Nat
  /\ disk \in [uuid : Nat, key : Nat]
  /\ disk.uuid = disk.key
  /\ me.uuid = me.key
  /\ me.msg.kind = "routine" => me.msg.uuid = me.msg.key

(* A client with an identity on disk that runs counts as registered and    *)
(* has no registration under way; one whose flag is off never connects.    *)
KeptInv ==
  /\ MatchedInv
  /\ ~me.up => me.pending = "none" /\ me.msg = Nothing
  /\ ~flag => me.line = "none" /\ me.pending # "connect" /\ me.msg = Nothing
  /\ disk.uuid # 0 =>
       /\ me.up => me.registered
       /\ me.msg.kind \notin {"register", "registered"}

(* Both hold as long as the faults that break them have not occurred.      *)
UntornInv == FaultsInv /\ (Never("tear") => MatchedInv)
UnswitchedInv == FaultsInv /\ (Never("tear") /\ Never("switch") => KeptInv)

(* What the client's helpers make of a program whose uuid and key match.   *)
Matching(s) ==
  /\ s \in Programs
  /\ s.uuid = s.key
  /\ s.msg.kind = "routine" => s.msg.uuid = s.msg.key

LEMMA HelpersMatch ==
  ASSUME NEW s, Matching(s)
  PROVE  Matching(Closed(s)) /\ Matching(Retried(s)) /\ Matching(Reconnected(s))
         /\ Matching(Routine(s)) /\ Matching(Sent(s, [kind |-> "register"]))
<1>1. [kind |-> "nothing"] \in Msgs /\ [kind |-> "register"] \in Msgs
  BY DEF Msgs
<1>2. ASSUME NEW t, Matching(t) PROVE Matching(Closed(t))
  BY <1>1, <1>2 DEF Matching, Closed, Programs, Nothing
<1>3. ASSUME NEW t, Matching(t) PROVE Matching(Retried(t))
  <2>1. Matching(Closed(t))
    BY <1>2, <1>3
  <2>2. QED
    BY <2>1, <1>3 DEF Matching, Retried, Programs
<1>4. [kind |-> "routine", uuid |-> s.uuid, key |-> s.key] \in Msgs
  BY DEF Matching, Programs, Msgs
<1>5. Matching(Sent(s, [kind |-> "routine", uuid |-> s.uuid, key |-> s.key]))
  BY <1>4 DEF Matching, Sent, Programs
<1>6. Matching(Sent(s, [kind |-> "register"]))
  BY <1>1 DEF Matching, Sent, Programs
<1>7. QED
  BY <1>2, <1>3, <1>5, <1>6 DEF Reconnected, Routine

(* A fault that has occurred has occurred for good.                        *)
LEMMA FaultOccurs ==
  ASSUME FaultsInv, NEW f, Fault(f)
  PROVE  /\ FaultsInv' /\ ~Never(f)'
         /\ \A g : Never(g)' => Never(g)
  BY DEF FaultsInv, Fault, Never

LEMMA FaultsStay ==
  ASSUME FaultsInv, [Next]_vars
  PROVE  /\ FaultsInv'
         /\ Never("tear")' => Never("tear")
         /\ Never("switch")' => Never("switch")
<1>1. CASE Switch \/ Drop \/ ServerStops \/ Vanish \/ Stop \/ Tear
  BY <1>1, FaultOccurs DEF Switch, Drop, ServerStops, Vanish, Stop, Tear
<1>2. CASE UNCHANGED faults
  BY <1>2 DEF FaultsInv, Never
<1>3. ASSUME Client PROVE UNCHANGED faults
  BY <1>3 DEF Client, Timer, Connected, ConnectFails, ReadFails, RecvRegistered, RecvAnswer
<1>4. ASSUME Server \/ ServerStarts \/ Start PROVE UNCHANGED faults
  BY <1>4 DEF Server, ServeRegister, ServeRoutine, ServerStarts, Start
<1>5. ASSUME UNCHANGED vars PROVE UNCHANGED faults
  BY <1>5 DEF vars
<1>6. QED
  BY <1>1, <1>2, <1>3, <1>4, <1>5 DEF Next

LEMMA MatchedStep ==
  ASSUME MatchedInv, [Next]_vars, FaultsInv, Never("tear")'
  PROVE  MatchedInv'
<1>1. Matching(me)
  BY DEF MatchedInv, Matching
<1>2. Matching(Off) /\ Matching(Started)
  <2>1. Nothing \in Msgs /\ Nothing.kind = "nothing"
    BY DEF Nothing, Msgs
  <2>2. Off \in Programs /\ Matching(Off)
    BY <2>1 DEF Off, Programs, Matching
  <2>3. disk.uuid \in Nat /\ disk.key \in Nat /\ disk.uuid = disk.key
    BY DEF MatchedInv
  <2>4. QED
    BY <2>1, <2>2, <2>3 DEF Matching, Started, Off, Programs
<1>3. MatchedInv' <=> Matching(me') /\ issued' \in Nat
                      /\ disk' \in [uuid : Nat, key : Nat] /\ disk'.uuid = disk'.key
  BY DEF MatchedInv, Matching
<1>4. ASSUME UNCHANGED <<issued, disk>>, Matching(me') PROVE MatchedInv'
  BY <1>3, <1>4 DEF MatchedInv
<1>5. CASE Timer
  <2>1. Matching([me EXCEPT !.pending = "connect"])
    BY <1>1 DEF Matching, Programs
  <2>2. Matching(me')
    BY <1>5, <1>1, <2>1, HelpersMatch DEF Timer
  <2>3. QED
    BY <1>4, <1>5, <2>2 DEF Timer
<1>6. CASE Connected
  <2>1. Matching([me EXCEPT !.line = "live"])
    BY <1>1 DEF Matching, Programs
  <2>2. Matching(me')
    BY <1>6, <2>1, HelpersMatch DEF Connected
  <2>3. QED
    BY <1>4, <1>6, <2>2 DEF Connected
<1>7. CASE ConnectFails \/ ReadFails
  BY <1>1, <1>4, <1>7, HelpersMatch DEF ConnectFails, ReadFails
<1>8. CASE RecvRegistered
  <2>1. me.msg.id \in Nat
    BY <1>1, <1>8 DEF RecvRegistered, Matching, Programs, Msgs
  <2>2. Matching([me EXCEPT !.uuid = me.msg.id, !.key = me.msg.id, !.registered = TRUE,
                            !.msg = Nothing])
    BY <1>1, <2>1 DEF Matching, Programs, Nothing, Msgs
  <2>3. Matching(me')
    BY <1>8, <2>2, HelpersMatch DEF RecvRegistered
  <2>4. QED
    BY <1>3, <1>8, <2>1, <2>3 DEF RecvRegistered, Saved, MatchedInv
<1>9. CASE RecvAnswer
  <2>1. Matching([me EXCEPT !.msg = Nothing])
    BY <1>1 DEF Matching, Programs, Nothing, Msgs
  <2>2. QED
    BY <1>4, <1>9, <2>1, HelpersMatch DEF RecvAnswer
<1>10. CASE ServeRegister
  <2>1. issued + 1 \in Nat \ {0}
    BY DEF MatchedInv
  <2>2. [kind |-> "registered", id |-> issued + 1] \in Msgs
    BY <2>1 DEF Msgs
  <2>3. Matching(me')
    BY <1>1, <1>10, <2>2 DEF ServeRegister, Fresh, Matching, Programs
  <2>4. QED
    BY <1>3, <1>10, <2>1, <2>3 DEF ServeRegister, Fresh, MatchedInv
<1>11. CASE ServeRoutine
  <2>1. [kind |-> "answer"] \in Msgs /\ Nothing \in Msgs
    BY DEF Msgs, Nothing
  <2>2. Matching(me')
    BY <1>1, <1>11, <2>1 DEF ServeRoutine, Matching, Programs, Nothing
  <2>3. QED
    BY <1>4, <1>11, <2>2 DEF ServeRoutine
<1>12. Matching(Lost) /\ Matching([me EXCEPT !.line = "dead", !.msg = Nothing])
  <2>1. Nothing \in Msgs /\ Nothing.kind = "nothing"
    BY DEF Nothing, Msgs
  <2>2. ASSUME NEW line \in {"broken", "dead"}
        PROVE  Matching([me EXCEPT !.line = line, !.msg = Nothing])
    BY <1>1, <2>1 DEF Matching, Programs
  <2>3. QED
    BY <1>1, <2>2 DEF Lost
<1>13. CASE Drop \/ ServerStops \/ Vanish
  <2>1. Matching(me') /\ UNCHANGED <<issued, disk>>
    <3>1. me' = Lost \/ me' = [me EXCEPT !.line = "dead", !.msg = Nothing]
      BY <1>13 DEF Drop, ServerStops, Vanish
    <3>2. UNCHANGED <<issued, disk>>
      BY <1>13 DEF Drop, ServerStops, Vanish
    <3>3. QED
      BY <1>12, <3>1, <3>2
  <2>2. QED
    BY <1>4, <2>1
<1>14. CASE Stop \/ Start
  BY <1>2, <1>4, <1>14 DEF Stop, Start
<1>15. CASE Switch \/ ServerStarts \/ UNCHANGED vars
  BY <1>1, <1>4, <1>15 DEF Switch, ServerStarts, vars
<1>16. CASE Tear
  BY <1>16, FaultOccurs DEF Tear
<1>17. QED
  BY <1>5, <1>6, <1>7, <1>8, <1>9, <1>10, <1>11, <1>13, <1>14, <1>15, <1>16
     DEF Next, Client, Server

LEMMA MatchedInit == Init => MatchedInv
<1> SUFFICES ASSUME Init PROVE MatchedInv
  OBVIOUS
<1>1. disk = [uuid |-> 0, key |-> 0] /\ issued = 0 /\ me = Started
  BY DEF Init
<1>2. Off \in Programs
  BY DEF Off, Programs, Msgs, Nothing
<1>3. me \in Programs /\ me.uuid = 0 /\ me.key = 0 /\ me.msg = Nothing
  BY <1>1, <1>2 DEF Started, Loads, Off, Programs
<1>4. QED
  BY <1>1, <1>3 DEF MatchedInv, Nothing

LEMMA FaultsInit == Init => FaultsInv
  BY DEF Init, FaultsInv

(* The server can decrypt every check-in, however often connections break, *)
(* programs restart and the client registers again, until the program ends *)
(* between the writes of handle_register_response (main.cpp 2137-2142).    *)
THEOREM CheckInsAreUnderstood == Spec => []CheckInsUnderstood
<1>1. Init => UntornInv
  BY MatchedInit, FaultsInit DEF UntornInv
<1>2. UntornInv /\ [Next]_vars => UntornInv'
  <2>1. SUFFICES ASSUME UntornInv, [Next]_vars PROVE UntornInv'
    OBVIOUS
  <2>2. FaultsInv /\ FaultsInv' /\ (Never("tear")' => Never("tear"))
    BY <2>1, FaultsStay DEF UntornInv
  <2>3. ASSUME Never("tear")' PROVE MatchedInv'
    BY <2>1, <2>2, <2>3, MatchedStep DEF UntornInv
  <2>4. QED
    BY <2>2, <2>3 DEF UntornInv
<1>3. UntornInv => CheckInsUnderstood
  BY DEF UntornInv, MatchedInv, CheckInsUnderstood, Understood, Decrypts, KeyFile
<1>4. QED
  BY <1>1, <1>2, <1>3, PTL DEF Spec

----------------------------------------------------------------------------
(* What the helpers do to a registered program and to a switched off one.  *)

Keeps(s, t) ==
  /\ t.up = s.up /\ t.registered = s.registered
  /\ t.msg.kind \in {s.msg.kind, "nothing", "routine"}
  /\ t.pending \in {"timer", "answer"}
  /\ ~flag => t.line = "none" /\ t.msg = Nothing

LEMMA HelpersKeep ==
  ASSUME NEW s, s \in Programs, ~flag => s.line = "none" /\ s.msg = Nothing
  PROVE  Keeps(s, Retried(s)) /\ Keeps(s, Reconnected(s)) /\ Keeps(s, Routine(s))
<1>1. ~flag => s.line = "none" /\ Closed(s).line = "none"
  BY DEF Closed, Programs
<1>2. Closed(s).registered = s.registered /\ Closed(s).up = s.up /\ Closed(s).msg = Nothing
  BY DEF Closed, Programs
<1>3. Retried(s) = [s EXCEPT !.pending = "timer"]
  BY <1>1 DEF Retried
<1>4. Reconnected(s) = [Closed(s) EXCEPT !.pending = "timer"]
  BY <1>1 DEF Retried, Reconnected
<1>5. Closed(s) \in Programs
  BY DEF Closed, Programs, Msgs, Nothing
<1>6. QED
  BY <1>1, <1>2, <1>3, <1>4, <1>5 DEF Keeps, Routine, Sent, Programs, Nothing

LEMMA KeptStep ==
  ASSUME KeptInv, [Next]_vars, FaultsInv, Never("tear")', Never("switch")'
  PROVE  KeptInv' /\ (disk.uuid # 0 => disk'.uuid = disk.uuid)
<1>1. MatchedInv /\ MatchedInv'
  BY MatchedStep DEF KeptInv
<1>2. me \in Programs /\ disk.uuid \in Nat /\ disk.key = disk.uuid
  BY <1>1 DEF MatchedInv
<1>n. ~Switch /\ ~Tear
  BY FaultOccurs DEF Switch, Tear
<1>3. UNCHANGED flag
  BY <1>n DEF Next, Client, Server, Timer, Connected, ConnectFails, ReadFails, RecvRegistered,
         RecvAnswer, ServeRegister, Fresh, ServeRoutine, Drop, ServerStops, ServerStarts,
         Vanish, Stop, Start, vars
<1>a. ASSUME NEW s, UNCHANGED disk, s.up, disk.uuid # 0 => s.registered,
             disk.uuid # 0 => s.msg.kind \notin {"register", "registered"},
             Keeps(s, me')
      PROVE  KeptInv' /\ disk' = disk
  BY <1>1, <1>3, <1>a DEF KeptInv, Keeps
<1> USE <1>1, <1>2, <1>3 DEF KeptInv
<1>4. CASE Timer
  <2>1. me.up
    BY <1>4 DEF Timer
  <2>2. ~flag => me.line = "none" /\ me.msg = Nothing
    OBVIOUS
  <2>3. CASE flag /\ me.line = "none"
    BY <1>4, <2>1, <2>3 DEF Timer, Programs
  <2>4. CASE ~(flag /\ me.line = "none")
    <3>1. me' = Retried(me) \/ me' = Routine(me)
      BY <1>4, <2>4 DEF Timer
    <3>2. Keeps(me, me')
      BY <2>2, <3>1, HelpersKeep
    <3>3. QED
      BY <1>4, <1>a, <2>1, <3>2 DEF Timer
  <2>5. QED
    BY <2>3, <2>4
<1>5. CASE Connected
  <2> DEFINE s == [me EXCEPT !.line = "live"]
  <2>1. me.up /\ flag
    BY <1>5 DEF Connected
  <2>2. s \in Programs /\ s.up /\ s.registered = me.registered /\ s.msg = me.msg
    BY <2>1 DEF Programs
  <2>3. CASE me.registered
    <3>1. me' = Routine(s)
      BY <1>5, <2>2, <2>3 DEF Connected
    <3>2. Keeps(s, me')
      BY <2>1, <2>2, <3>1, HelpersKeep
    <3>3. QED
      BY <1>5, <1>a, <2>2, <2>3, <3>2 DEF Connected
  <2>4. CASE ~me.registered
    BY <1>5, <2>1, <2>2, <2>4 DEF Connected, Sent, Programs
  <2>5. QED
    BY <2>3, <2>4
<1>6. CASE ConnectFails \/ ReadFails
  <2>1. me.up
    BY <1>6 DEF ConnectFails, ReadFails
  <2>2. Keeps(me, me')
    BY <1>6, HelpersKeep DEF ConnectFails, ReadFails
  <2>3. QED
    BY <1>6, <1>a, <2>1, <2>2 DEF ConnectFails, ReadFails
<1>7. CASE RecvRegistered
  <2> DEFINE s == [me EXCEPT !.uuid = me.msg.id, !.key = me.msg.id, !.registered = TRUE,
                             !.msg = Nothing]
  <2>1. me.up /\ flag /\ disk.uuid = 0
    BY <1>7 DEF RecvRegistered, Nothing
  <2>2. me.msg.id \in Nat \ {0}
    BY <1>7 DEF RecvRegistered, Programs, Msgs
  <2>3. s \in Programs /\ s.up /\ s.registered /\ s.msg = Nothing
    BY <2>1, <2>2 DEF Programs, Msgs, Nothing
  <2>4. Keeps(s, me')
    BY <1>7, <2>1, <2>3, HelpersKeep DEF RecvRegistered
  <2> HIDE DEF s
  <2>5. me'.up /\ me'.registered /\ me'.msg.kind \in {"nothing", "routine"}
    BY <2>3, <2>4 DEF Keeps, Nothing
  <2>6. QED
    BY <2>1, <2>5
<1>8. CASE RecvAnswer
  <2> DEFINE s == [me EXCEPT !.msg = Nothing]
  <2>1. me.up /\ flag
    BY <1>8 DEF RecvAnswer, Nothing
  <2>2. s \in Programs /\ s.up /\ s.registered = me.registered /\ s.msg = Nothing
    BY <2>1 DEF Programs, Msgs, Nothing
  <2>3. Keeps(s, me')
    BY <1>8, <2>1, <2>2, HelpersKeep DEF RecvAnswer
  <2> HIDE DEF s
  <2>4. UNCHANGED disk
    BY <1>8 DEF RecvAnswer
  <2>5. QED
    BY <1>a, <2>1, <2>2, <2>3, <2>4 DEF Nothing
<1>9. CASE ServeRegister
  BY <1>9 DEF ServeRegister, Fresh, Programs, Nothing
<1>10. CASE ServeRoutine
  BY <1>10 DEF ServeRoutine, Programs, Nothing
<1>11. CASE Drop \/ ServerStops \/ Vanish
  <2>1. UNCHANGED disk
    BY <1>11 DEF Drop, ServerStops, Vanish
  <2>2. CASE me.line # "live"
    <3>1. UNCHANGED me
      BY <1>11, <2>2 DEF Drop, ServerStops, Vanish, Lost
    <3>2. QED
      BY <2>1, <3>1
  <2>3. CASE me.line = "live"
    <3>1. flag
      BY <2>3
    <3>2. me'.up = me.up /\ me'.registered = me.registered
          /\ me'.msg = Nothing /\ me'.pending = me.pending
      BY <1>11, <2>3 DEF Drop, ServerStops, Vanish, Lost, Programs
    <3>3. QED
      BY <2>1, <3>1, <3>2 DEF Nothing
  <2>4. QED
    BY <2>2, <2>3
<1>12. CASE Stop
  BY <1>12 DEF Stop, Off, Nothing
<1>13. CASE Start
  <2>1. Started.up /\ Started.msg = Nothing /\ Started.line = "none"
    BY DEF Started, Loads, Off
  <2>2. disk.uuid # 0 /\ disk.key # 0 => Started.registered
    BY DEF Started, Loads, Off
  <2>3. ~flag => Started.pending # "connect"
    BY DEF Started, Loads, Off
  <2>4. QED
    BY <1>13, <2>1, <2>2, <2>3 DEF Start, Nothing
<1>14. CASE ServerStarts \/ UNCHANGED vars
  BY <1>14 DEF ServerStarts, vars
<1>15. QED
  BY <1>n, <1>4, <1>5, <1>6, <1>7, <1>8, <1>9, <1>10, <1>11, <1>12, <1>13, <1>14
     DEF Next, Client, Server

LEMMA KeptInit == Init => KeptInv
<1> SUFFICES ASSUME Init PROVE KeptInv
  OBVIOUS
<1>1. Started.up /\ Started.msg = Nothing /\ Started.line = "none"
  BY DEF Started, Loads, Off
<1>2. Started.pending = IF flag THEN "connect" ELSE "timer"
  BY DEF Started, Loads, Off
<1>3. QED
  BY <1>1, <1>2, MatchedInit DEF Init, KeptInv

(* A client that has saved an identity keeps it, however often connections *)
(* break and both programs restart, until the user switches the server off *)
(* or on (do_routine and schedule_retry forget the registration when the   *)
(* flag is off) or the program ends between the two writes.                *)
THEOREM IdentityIsKept == Spec => IdentityKept
<1>1. Init => UnswitchedInv
  BY KeptInit, FaultsInit DEF UnswitchedInv
<1>2. UnswitchedInv /\ [Next]_vars
        => /\ UnswitchedInv'
           /\ (Never("tear") /\ Never("switch"))' /\ disk.uuid # 0 => disk'.uuid = disk.uuid
  <2>1. SUFFICES ASSUME UnswitchedInv, [Next]_vars
                 PROVE  /\ UnswitchedInv'
                        /\ (Never("tear") /\ Never("switch"))' /\ disk.uuid # 0
                             => disk'.uuid = disk.uuid
    OBVIOUS
  <2>2. /\ FaultsInv /\ FaultsInv'
        /\ Never("tear")' => Never("tear")
        /\ Never("switch")' => Never("switch")
    BY <2>1, FaultsStay DEF UnswitchedInv
  <2>3. ASSUME Never("tear")', Never("switch")'
        PROVE  KeptInv' /\ (disk.uuid # 0 => disk'.uuid = disk.uuid)
    BY <2>1, <2>2, <2>3, KeptStep DEF UnswitchedInv
  <2>4. QED
    BY <2>2, <2>3 DEF UnswitchedInv
<1>3. UnswitchedInv /\ [Next]_vars => UnswitchedInv'
  BY <1>2
<1>4. UnswitchedInv /\ [Next]_vars
        => [(Never("tear") /\ Never("switch"))' /\ disk.uuid # 0 => disk'.uuid = disk.uuid]_vars
  BY <1>2
<1>5. QED
  BY <1>1, <1>3, <1>4, PTL DEF Spec, IdentityKept
----------------------------------------------------------------------------
(* Types.                                                                  *)

(* The programs TypeOK allows, and those of them that run.                 *)
TypedPrograms ==
  [up : BOOLEAN, uuid : 0..issued, key : 0..issued, registered : BOOLEAN,
   line : {"none", "live", "broken", "dead"}, msg : Messages,
   pending : {"none", "timer", "connect", "answer"}]

Running(s) ==
  /\ s \in TypedPrograms /\ s.up
  /\ s.pending # "none"
  /\ s.pending = "answer" => s.line # "none"

(* Whatever a helper is given, an operation of the client is under way     *)
(* afterwards, with an open socket if it reads.                            *)
LEMMA HelpersRun ==
  ASSUME NEW s \in TypedPrograms, s.up
  PROVE  Running(Retried(s)) /\ Running(Reconnected(s)) /\ Running(Routine(s))
         /\ Running(Sent(s, [kind |-> "register"]))
<1>1. /\ [kind |-> "nothing"] \in Messages /\ [kind |-> "register"] \in Messages
      /\ [kind |-> "routine", uuid |-> s.uuid, key |-> s.key] \in Messages
  BY DEF Messages, TypedPrograms
<1>2. Closed(s) \in TypedPrograms /\ Closed(s).up
  BY <1>1 DEF Closed, Nothing, TypedPrograms
<1>3. ASSUME NEW t \in TypedPrograms, t.up PROVE Running(Retried(t))
  <2>1. CASE ~flag /\ t.line # "none"
    BY <1>1, <1>3, <2>1 DEF Retried, Closed, Nothing, Running, TypedPrograms
  <2>2. CASE ~(~flag /\ t.line # "none")
    BY <1>3, <2>2 DEF Retried, Running, TypedPrograms
  <2>3. QED
    BY <2>1, <2>2
<1>4. ASSUME NEW m \in Messages PROVE Running(Sent(s, m))
  BY <1>4 DEF Sent, Running, TypedPrograms
<1>5. QED
  BY <1>1, <1>2, <1>3, <1>4 DEF Reconnected, Routine

LEMMA TypeStep == TypeOK /\ [Next]_vars => TypeOK'
<1> SUFFICES ASSUME TypeOK, [Next]_vars PROVE TypeOK'
  OBVIOUS
<1>1. /\ me \in TypedPrograms /\ (me.up <=> me.pending # "none")
      /\ me.pending = "answer" => me.line # "none"
  BY DEF TypeOK, TypedPrograms
<1>2. /\ flag \in BOOLEAN /\ serving \in BOOLEAN /\ issued \in Nat
      /\ disk \in [uuid : 0..issued, key : 0..issued]
      /\ faults \in [Faults -> 0..MaxFaults]
  BY DEF TypeOK
<1>3. [kind |-> "nothing"] \in Messages /\ [kind |-> "answer"] \in Messages
  BY DEF Messages
<1>4. ASSUME Running(me'), UNCHANGED issued, disk' \in [uuid : 0..issued, key : 0..issued],
             UNCHANGED <<flag, serving, faults>>
      PROVE  TypeOK'
  BY <1>2, <1>4 DEF TypeOK, Running, TypedPrograms, Messages
<1>5. Off \in TypedPrograms /\ ~Off.up /\ Off.pending = "none"
  BY <1>2, <1>3 DEF Off, Nothing, TypedPrograms
<1>6. Running(Started)
  BY <1>2, <1>3 DEF Started, Loads, Off, Nothing, Running, TypedPrograms
<1>7. ASSUME NEW f, Fault(f) PROVE faults' \in [Faults -> 0..MaxFaults]
  BY <1>2, <1>7, MaxFaultsAssumption DEF Fault
<1>8. CASE Timer
  <2>1. me.up
    BY <1>1, <1>8 DEF Timer
  <2>2. Running([me EXCEPT !.pending = "connect"])
    BY <1>1, <2>1 DEF Running, TypedPrograms
  <2>3. Running(me')
    BY <1>1, <1>2, <1>8, <2>1, <2>2, HelpersRun DEF Timer
  <2>4. QED
    BY <1>2, <1>4, <1>8, <2>3 DEF Timer
<1>9. CASE Connected
  <2> DEFINE s == [me EXCEPT !.line = "live"]
  <2>1. s \in TypedPrograms /\ s.up
    BY <1>1, <1>9 DEF Connected, TypedPrograms
  <2>2. Running(me')
    <3> HIDE DEF s
    <3>1. me' = Routine(s) \/ me' = Sent(s, [kind |-> "register"])
      BY <1>9 DEF Connected, s
    <3>2. QED
      BY <2>1, <3>1, HelpersRun
  <2>3. QED
    BY <1>2, <1>4, <1>9, <2>2 DEF Connected
<1>10. CASE ConnectFails \/ ReadFails
  <2>1. Running(me')
    BY <1>1, <1>10, HelpersRun DEF ConnectFails, ReadFails
  <2>2. QED
    BY <1>2, <1>4, <1>10, <2>1 DEF ConnectFails, ReadFails
<1>11. CASE RecvRegistered
  <2>1. me.up /\ me.msg.id \in 0..issued
    BY <1>1, <1>11 DEF RecvRegistered, TypedPrograms, Messages
  <2> DEFINE s == [me EXCEPT !.uuid = me.msg.id, !.key = me.msg.id, !.registered = TRUE,
                             !.msg = Nothing]
  <2>2. s \in TypedPrograms /\ s.up
    BY <1>1, <1>3, <2>1 DEF Nothing, TypedPrograms
  <2>3. me' = Routine(s) /\ disk' \in [uuid : 0..issued, key : 0..issued]
    BY <1>11, <2>1 DEF RecvRegistered, Saved
  <2>4. Running(me')
    BY <2>2, <2>3, HelpersRun
  <2>5. QED
    BY <1>4, <1>11, <2>3, <2>4 DEF RecvRegistered
<1>12. CASE RecvAnswer
  <2>1. me.up
    BY <1>1, <1>12 DEF RecvAnswer
  <2>2. [me EXCEPT !.msg = Nothing] \in TypedPrograms /\ [me EXCEPT !.msg = Nothing].up
    BY <1>1, <1>3, <2>1 DEF Nothing, TypedPrograms
  <2>3. Running(me')
    BY <1>12, <2>2, HelpersRun DEF RecvAnswer
  <2>4. QED
    BY <1>2, <1>4, <1>12, <2>3 DEF RecvAnswer
<1>13. CASE ServeRegister
  <2>1. issued' = issued + 1 /\ issued' \in Nat /\ 0..issued \subseteq 0..issued'
    BY <1>2, <1>13 DEF ServeRegister, Fresh
  <2>2. [kind |-> "registered", id |-> issued'] \in Messages'
    BY <1>2, <2>1 DEF Messages
  <2>3. me' = [me EXCEPT !.msg = [kind |-> "registered", id |-> issued']]
    BY <1>13, <2>1 DEF ServeRegister, Fresh
  <2>4. me' \in TypedPrograms'
    BY <1>1, <2>1, <2>2, <2>3 DEF TypedPrograms
  <2>5. me'.up = me.up /\ me'.pending = me.pending /\ me'.line = me.line
    BY <1>1, <2>3 DEF TypedPrograms
  <2>6. disk' \in [uuid : 0..issued', key : 0..issued']
    BY <1>2, <1>13, <2>1 DEF ServeRegister
  <2>7. QED
    BY <1>1, <1>2, <1>13, <2>1, <2>4, <2>5, <2>6 DEF ServeRegister, TypeOK, TypedPrograms
<1>14. ASSUME UNCHANGED issued, disk' \in [uuid : 0..issued, key : 0..issued],
              flag' \in BOOLEAN, serving' \in BOOLEAN, faults' \in [Faults -> 0..MaxFaults],
              me' \in TypedPrograms, me'.up <=> me'.pending # "none",
              me'.pending = "answer" => me'.line # "none"
       PROVE  TypeOK'
  BY <1>2, <1>14 DEF TypeOK, TypedPrograms, Messages
<1>15. CASE ServeRoutine
  <2>1. /\ me' \in TypedPrograms /\ me'.up = me.up /\ me'.pending = me.pending
        /\ me'.line \in {me.line, "broken"}
    BY <1>1, <1>3, <1>15 DEF ServeRoutine, Nothing, TypedPrograms
  <2>2. QED
    BY <1>1, <1>2, <1>14, <1>15, <2>1 DEF ServeRoutine
<1>16. CASE Switch \/ ServerStarts \/ UNCHANGED vars
  BY <1>1, <1>2, <1>7, <1>14, <1>16 DEF Switch, ServerStarts, vars
<1>17. CASE Drop \/ ServerStops \/ Vanish
  <2>1. /\ me' \in TypedPrograms /\ me'.up = me.up /\ me'.pending = me.pending
        /\ me'.line \in {me.line, "broken", "dead"} /\ (me'.line = "none" => me.line = "none")
    BY <1>1, <1>3, <1>17 DEF Drop, ServerStops, Vanish, Lost, Nothing, TypedPrograms
  <2>2. QED
    BY <1>1, <1>2, <1>7, <1>14, <1>17, <2>1 DEF Drop, ServerStops, Vanish
<1>18. CASE Stop
  BY <1>2, <1>5, <1>7, <1>14, <1>18 DEF Stop
<1>19. CASE Tear
  <2>1. me.msg.id \in 0..issued
    BY <1>1, <1>19 DEF Tear, TypedPrograms, Messages
  <2>2. disk' \in [uuid : 0..issued, key : 0..issued]
    BY <1>2, <1>19, <2>1 DEF Tear
  <2>3. QED
    BY <1>2, <1>5, <1>7, <1>14, <1>19, <2>2 DEF Tear
<1>20. CASE Start
  BY <1>2, <1>4, <1>6, <1>20 DEF Start
<1>21. QED
  BY <1>8, <1>9, <1>10, <1>11, <1>12, <1>13, <1>15, <1>16, <1>17, <1>18, <1>19, <1>20
     DEF Next, Client, Server

(* A running client always has an operation under way, and it reads from   *)
(* an open socket only: no error, switch or restart ends the chain of      *)
(* operations that the handlers of tcp_c_client start one after another.   *)
THEOREM ChainGoesOn == Spec => []TypeOK
<1>1. Init => TypeOK
  <2> SUFFICES ASSUME Init PROVE TypeOK
    OBVIOUS
  <2>1. /\ flag \in BOOLEAN /\ issued = 0 /\ disk = [uuid |-> 0, key |-> 0] /\ serving
        /\ faults = [f \in Faults |-> 0] /\ me = Started
    BY DEF Init
  <2>2. Nothing \in Messages
    BY DEF Nothing, Messages
  <2>3. faults \in [Faults -> 0..MaxFaults]
    BY <2>1, MaxFaultsAssumption
  <2>4. Off \in TypedPrograms
    BY <2>1, <2>2 DEF Off, TypedPrograms
  <2>5. Running(me)
    BY <2>1, <2>4 DEF Started, Loads, Off, Running, TypedPrograms
  <2>6. QED
    BY <2>1, <2>3, <2>5 DEF TypeOK, Running, TypedPrograms
<1>2. QED
  BY <1>1, TypeStep, PTL DEF Spec
=============================================================================

-------------------------- MODULE TimedRendezvous --------------------------
(***************************************************************************)
(* Rendezvous with the timing its constants make usual.  Every client      *)
(* checks in about every two seconds, so between two check-ins of one      *)
(* client each other one checks in once, give or take the order within the *)
(* period.  An exchange with the server takes far less than that, and a    *)
(* punch, sent every 333 ms, arrives before the next check-in.  Nobody     *)
(* stops a client here.                                                    *)
(***************************************************************************)
EXTENDS Rendezvous

VARIABLE due   \* the running clients still to check in in this period

timedVars == <<vars, due>>

TimedInit == Init /\ due = Clients

AnswersApplied == \A d \in Clients : tcp[d] = Idle
PunchesHeard ==
  \A d \in Clients : \A e \in Befriends[d] : Heard(d, e) <=> e \in active[d]

TimedCheckIn(c) ==
  /\ c \in due \/ due \cap running = {}
  /\ AnswersApplied /\ PunchesHeard
  /\ CheckIn(c)
  /\ due' = (IF due \cap running = {} THEN Clients ELSE due) \ {c}

Untimed(A) == A /\ UNCHANGED due

TimedNext ==
  \E c \in Clients :
    \/ TimedCheckIn(c)
    \/ Untimed(Serve(c)) \/ Untimed(Apply(c))
    \/ \E d \in Befriends[c] : Untimed(Hear(c, d)) \/ Untimed(FallSilent(c, d))

TimedSpec == TimedInit /\ [][TimedNext]_timedVars

TimedFairSpec ==
  /\ TimedSpec
  /\ \A c \in Clients :
       /\ WF_timedVars(TimedCheckIn(c)) /\ WF_timedVars(Untimed(Serve(c)))
       /\ WF_timedVars(Untimed(Apply(c)))
       /\ \A d \in Befriends[c] :
            WF_timedVars(Untimed(Hear(c, d))) /\ WF_timedVars(Untimed(FallSilent(c, d)))
=============================================================================

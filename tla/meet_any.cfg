\* Two clients that stop and start, in any timing.
SPECIFICATION Spec
CONSTANTS
  c1 = c1
  c2 = c2
  c3 = c3
  Clients = {c1, c2}
  Befriends <- Everybody
  Rank <- InOrder
  LastPort = 8
  Faults = {"stop"}
INVARIANTS TypeOK AnswerPortsFree
CHECK_DEADLOCK FALSE

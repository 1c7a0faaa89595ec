\* Two or three of three mutual friends in the usual timing.
SPECIFICATION TimedFairSpec
CONSTANTS
  c1 = c1
  c2 = c2
  c3 = c3
  Clients = {c1, c2, c3}
  Befriends <- Everybody
  Rank <- InOrder
  LastPort = 8
  Faults = {}
PROPERTIES FriendsMeet SettledStays
CHECK_DEADLOCK FALSE

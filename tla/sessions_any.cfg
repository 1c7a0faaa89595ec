\* Two friends; one edit, or one end of the program from outside.
SPECIFICATION FairSpec
CONSTANTS
  Friends = {f1, f2}
  Watched = {f1}
  Ports = {1, 2, 3}
  Spare = Spare
  Absent = Absent
  Null = Null
  MaxUpsets = 1
INVARIANTS TypeOK NoOrphan HearsUnlessCut FileFitsSession AnswerFits AnswersOpen
PROPERTIES EveryFriendHeard RemovedRunsOut
CHECK_DEADLOCK FALSE

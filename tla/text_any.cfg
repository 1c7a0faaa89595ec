\* Three texts in either direction and one end of a program within an append.
SPECIFICATION Spec
CONSTANTS
  Clients = {ann, bob}
  Texts <- SomeTexts
  Later <- OnlyPlain
  MaxTexts = 3
  MaxTears = 1
INVARIANTS KeptAsTyped TearCostsOne FriendKnowsNoMore RefusedAreLong AnswerMeansSaved
CHECK_DEADLOCK FALSE

\* Lost packets and crashes, but no packet overtakes or repeats another.
SPECIFICATION Spec
CONSTANTS
  Alice = alice
  Bob = bob
  Garbage = garbage
  Initiators = {alice}
  Faults = {"loss", "crash"}
  UpAtStart = {alice}
  KeysAtStart = {1}
  Sizes = {1}
  MaxTexts = 2
  MaxExchanges = 1
  MaxDups = 0
INVARIANTS InOrder
PROPERTIES ImplementsFriendChannel

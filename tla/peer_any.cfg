\* Any prior keys, every fault, both users may start exchanges.
SPECIFICATION Spec
CONSTANTS
  Alice = alice
  Bob = bob
  Garbage = garbage
  Initiators = {alice, bob}
  Faults = {"loss", "dup", "reorder", "crash"}
  UpAtStart = {alice, bob}
  KeysAtStart = {0, 1}
  Sizes = {1}
  MaxTexts = 1
  MaxExchanges = 1
  MaxDups = 1
INVARIANTS TypeOK HistoryGenuine

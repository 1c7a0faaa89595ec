\* Both users start an exchange on a faultless network.
SPECIFICATION Spec
CONSTANTS
  Alice = alice
  Bob = bob
  Garbage = garbage
  Initiators = {alice, bob}
  Faults = {}
  UpAtStart = {alice, bob}
  KeysAtStart = {0}
  Sizes = {1}
  MaxTexts = 1
  MaxExchanges = 1
  MaxDups = 0
INVARIANTS KeysAgreeWhenQuiet

\* A faultless network, both clients connected, one user who starts exchanges.
SPECIFICATION FairSpec
CONSTANTS
  Alice = alice
  Bob = bob
  Garbage = garbage
  Initiators = {alice}
  Faults = {}
  UpAtStart = {alice, bob}
  KeysAtStart = {0, 1}
  Sizes = {463, 464}
  MaxTexts = 2
  MaxExchanges = 2
  MaxDups = 0
INVARIANTS KeysAgreeWhenQuiet TextsToInitiatorReadable NoGapForInitiator
PROPERTIES ExchangeCompletes

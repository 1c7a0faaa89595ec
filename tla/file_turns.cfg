\* Uploads one after another on a faultless network, an empty one among them.
SPECIFICATION FairSpec
CONSTANTS
  f1 = f1
  f2 = f2
  f3 = f3
  f4 = f4
  Garbage = garbage
  Files = {f1, f2, f3, f4}
  Name <- NamesSame
  Chunks <- TwoNoneOne
  Mid <- MidsOwn
  Overlap = FALSE
  Faults = {}
  MaxDups = 0
INVARIANTS SavedWhenQuiet
PROPERTIES ImplementsFriendFiles UploadsArrive
CHECK_DEADLOCK FALSE

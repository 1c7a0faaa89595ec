\* Uploads that overlap, every fault and changes of the keys.
SPECIFICATION Spec
CONSTANTS
  f1 = f1
  f2 = f2
  f3 = f3
  f4 = f4
  Garbage = garbage
  Files = {f1, f2}
  Name <- NamesSame
  Chunks <- TwoAndOne
  Mid <- MidsOwn
  Overlap = TRUE
  Faults = {"loss", "dup", "reorder", "restart", "rekey"}
  MaxDups = 2
INVARIANTS TypeOK PiecesInPlace
CHECK_DEADLOCK FALSE

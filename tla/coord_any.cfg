\* Everything that may go wrong, each of it twice.
SPECIFICATION FairSpec
CONSTANTS
  Faults = {"switch", "drop", "server", "stop", "tear", "vanish"}
  MaxFaults = 2
INVARIANTS TypeOK CheckInsUnderstood
PROPERTIES IdentityKept OffMeansOff RoutineGoesOn
CHECK_DEADLOCK FALSE

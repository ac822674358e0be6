SPECIFICATION Spec
CONSTANTS
  Transformations = 3
  Checkpoints = 3
  Profiles = 2
  After <- Boundaries
CHECK_DEADLOCK FALSE
INVARIANTS
  TypeOK
  FrontierIsClosed
  NothingFinishedIsLost
  ObserverSawTheOutcome
  LittleHappensLate

SPECIFICATION FairSpec
CONSTANTS
  Execution = {e1, e2, e3}
  MaxLapses = 1
  MaxReattempts = 1
INVARIANTS
  TypeOK
  CursorSkipsOnlyDecided
PROPERTIES
  ImplementsContract
  PendingIsServed

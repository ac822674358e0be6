SPECIFICATION Spec
CONSTANTS
  r1 = r1
  r2 = r2
  Absent = Absent
  Gone = Gone
  Ref = {r1, r2}
  Relation <- OneWay
  Field = {f, g}
  Required = {f}
  Value = {v}
  MaxOperations = 5
CHECK_DEADLOCK FALSE
INVARIANTS
  OutcomesAreClosed
  AcceptedPatchesUndo

SPECIFICATION Spec
CONSTANTS
  a = a
  b = b
  bad = bad
  f1 = f1
  f2 = f2
  p1 = p1
  p2 = p2
  Publisher = {p1, p2}
  Operator = {o1}
  Reader = {r1}
  Candidate = {a, b, bad}
  Profile = {f1, f2}
  ProfileOf <- MCProfileOf
  Sound <- MCSound
  Adapters = {"memory", "postgres"}
  MaxVersion = 2
  MaxPolicy = 2
SYMMETRY Interchangeable
INVARIANTS
  HistoryIsSequential
  NoRepublication
  PublicationsAreAuthorized
  RepliesAreBacked
PROPERTIES
  ImplementsLedger

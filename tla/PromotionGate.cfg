SPECIFICATION Spec
CONSTANTS
  None = None
  p1 = p1
  p2 = p2
  w1 = w1
  w2 = w2
  d1 = d1
  d2 = d2
  i1 = i1
  i2 = i2
  Profile = {f1, f2}
  Plan = {p1, p2}
  World = {w1, w2}
  Digest = {d1, d2}
  Witness = {i1, i2}
  Backend = {go, other}
  Certified = {go}
  Corpora <- OneOrTwoCases
  MaxDefects = 2
SYMMETRY Interchangeable
CHECK_DEADLOCK FALSE
INVARIANTS
  AuthorizationIsOneStory
  AbsenceIsNotAdverse

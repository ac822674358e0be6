SPECIFICATION Spec
CONSTANTS
  e1 = e1
  e2 = e2
  w1 = w1
  w2 = w2
  NoExecution = NoExecution
  Execution = {e1, e2}
  Worker = {w1, w2}
  Client = {c1, c2}
  Answer <- MCAnswer
  ReadsPlan <- AllTrusted
  Trusts <- AllTrusted
  MaxFaults = 1
  MaxReattempts = 2
  MaxAttempts = 9
INVARIANTS
  AttemptsAreDistinct
  AnsweredIsStored
  RefusedMeansSuperseded
PROPERTIES
  AnswersAreFinal
  GenerationsFollowLeases
  ImplementsContract

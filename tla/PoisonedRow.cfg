SPECIFICATION RenumberedSpec
CONSTANTS
  e1 = e1
  e2 = e2
  w1 = w1
  w2 = w2
  NoExecution = NoExecution
  Execution = {e1, e2}
  Worker = {w1, w2}
  Client = {c1}
  Answer <- MCAnswer
  ReadsPlan <- PlanPoisoned
  Trusts <- RowPoisoned
  MaxFaults = 2
  MaxReattempts = 1
  MaxAttempts = 3
PROPERTIES
  EverySubmissionSettles

SPECIFICATION Spec
CONSTANTS
  p1 = p1
  p2 = p2
  NoBranch = NoBranch
  Procs = {p1, p2}
  Keys = {"task", "output"}
  Proposed <- MCRevised
  MaxComments = 1
  MaxFeedbackItems = 1
  MaxWork = 3
  Faults = {"kill"}
  People = {"push", "unlock", "close"}
SYMMETRY ProcSymmetry
INVARIANTS
  TypeOK
  WorkIsKept
PROPERTY GrowsOrFolds

SPECIFICATION Spec
CONSTANTS
  p1 = p1
  NoBranch = NoBranch
  Procs = {p1}
  Keys = {"task", "output"}
  Proposed <- MCProposed
  MaxComments = 1
  MaxFeedbackItems = 1
  MaxWork = 1
  Faults = {"refused"}
  People = {"ask"}
INVARIANT AskingAgainWorks

SPECIFICATION Spec
CONSTANTS
  p1 = p1
  p2 = p2
  NoBranch = NoBranch
  Procs = {p1, p2}
  Keys = {"task", "output"}
  Proposed <- MCProposed
  MaxComments = 3
  MaxFeedbackItems = 2
  MaxWork = 1
  Faults = {"lost", "stop"}
  People = {"comment", "ask", "clear"}
SYMMETRY ProcSymmetry
INVARIANTS
  RequestAccounted
  HiddenWasHeard
PROPERTY KeepsTheConversation

SPECIFICATION FairSpec
CONSTANTS
  r1 = r1
  r2 = r2
  NoBranch = NoBranch
  Runs = {r1, r2}
  Tasks = {1}
  Named = {1}
  MaxOpenOutputs = 0
  Faults = {"stop"}
  People = {}
PROPERTIES
  KeepsTheBoard
  RunsEnd
  ClaimsAreGivenBack

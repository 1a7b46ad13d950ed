SPECIFICATION Spec
CONSTANTS
  r1 = r1
  r2 = r2
  NoBranch = NoBranch
  Runs = {r1, r2}
  Tasks = {1}
  Named = {}
  MaxOpenOutputs = 0
  Faults = {"stop"}
  People = {}
PROPERTY StoppedWorkIsRequeued

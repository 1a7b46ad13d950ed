SPECIFICATION Spec
CONSTANTS
  r1 = r1
  r2 = r2
  NoBranch = NoBranch
  Runs = {r1, r2}
  Tasks = {1}
  Named = {}
  MaxOpenOutputs = 0
  Faults = {"refused", "lost", "stop", "kill"}
  People = {"merge", "close", "reopen", "retry", "unclaim", "delete"}
SYMMETRY RunSymmetry
INVARIANTS
  TypeOK
  DoneMeansProposed
  ClaimAccounted
  HeardMeansNotRequeued
  NoWorkOverPushed
PROPERTY PushedWasCleared

SPECIFICATION Spec
CONSTANTS
  r1 = r1
  r2 = r2
  NoBranch = NoBranch
  Runs = {r1, r2}
  Tasks = {1, 2, 3}
  Named = {}
  MaxOpenOutputs = 1
  Faults = {}
  People = {}
SYMMETRY RunSymmetry
INVARIANT CapOvershootBounded

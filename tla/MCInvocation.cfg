SPECIFICATION FairSpec
CONSTANTS
  Usual <- MCUsual
  Settings <- MCSettings
  Tasks <- MCTasks
  MaxSlug = 4
  Oddities = 2
  Children = {c1}
  Grace = 2
INVARIANTS
  TypeOK
  NothingLeftBehind
  ReturnsInTime
  StoppedIsNoAnswer
  PassedIsWhole
  ConfigurationIsTrusted
  ModelStaysWithProvider
  MisuseTakesNothing
  TasksHaveOwnBranches
  PathsStayInside
PROPERTIES
  GraceIsGiven
  Ends

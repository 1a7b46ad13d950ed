SPECIFICATION FairSpec
CONSTANTS
  Acceptable = {"s1", "s2"}
  Paths = {"a", "b"}
  MaxPasses = 2
  MaxAsked = 2
  Proposals <- MCProposals
  Gatings <- MCGatings
  Writers = {"verdict"}
INVARIANTS
  TypeOK
  JudgesCommittedWork
  ClearedWasJudged
  CommitsAreReported
  ChecksShownAreCurrent
  EveryPassIsAnswered
  FixesFoldWhereMeant
  FixesAreForReviewers
PROPERTIES
  KeepsToTheAttempt
  Ends

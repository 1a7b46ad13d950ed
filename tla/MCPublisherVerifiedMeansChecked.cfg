SPECIFICATION FairSpec
CONSTANTS
  Acceptable = {"s1", "s2"}
  Paths = {"a"}
  MaxPasses = 1
  MaxAsked = 1
  Proposals <- MCProposals
  Gatings = {{"plan"}}
  Writers = {}
INVARIANT VerifiedMeansChecked

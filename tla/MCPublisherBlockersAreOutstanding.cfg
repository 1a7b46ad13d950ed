SPECIFICATION FairSpec
CONSTANTS
  Acceptable = {"s1", "s2"}
  Paths = {"a"}
  MaxPasses = 2
  MaxAsked = 1
  Proposals <- MCProposals
  Gatings = {{"verdict"}}
  Writers = {}
INVARIANT BlockersAreOutstanding

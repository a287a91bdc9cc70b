SPECIFICATION FairSpec
CONSTANTS
  Classic = {1, 2}
  Le = {3}
  MaxClassic = 2
  MaxLe = 1
  MaxFragments = 2
  MaxPending = 1
  MaxPosted = 2
  Priorities = {1}
INVARIANTS
  SendHasCredit
  CreditsConserved
  NoOverrun
  WorkConserving
PROPERTY Progress

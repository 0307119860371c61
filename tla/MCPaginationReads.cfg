SPECIFICATION FairSpec
CONSTANTS
  PageLimit = 3
  FallbackPages = 4
  FirstWindow = 1
  ShortWindow = 1
  Behaviours <- EveryPaging
  Edits <- EveryEdit
  MaxRows = 5
  MaxEdits = 3
  ClaimedTotals <- Claims
INVARIANT TypeOK
INVARIANT FetchCeiling
INVARIANT LossIsVisible
INVARIANT NoRowTwice
PROPERTY CancelledReadReturns
PROPERTY ReadReturns

SPECIFICATION Spec
CONSTANTS
  PageLimit = 3
  FallbackPages = 4
  FirstWindow = 1
  ShortWindow = 1
  Behaviours <- FullOnly
  Edits <- GrowOnly
  MaxRows = 8
  MaxEdits = 3
  ClaimedTotals <- Claims
PROPERTY ReadsASnapshot

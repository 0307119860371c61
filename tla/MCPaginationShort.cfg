SPECIFICATION Spec
CONSTANTS
  PageLimit = 3
  FallbackPages = 3
  FirstWindow = 1
  ShortWindow = 1
  Behaviours <- ShortOnly
  Edits <- NoEdit
  MaxRows = 6
  MaxEdits = 0
  ClaimedTotals <- Claims
PROPERTY FollowsToTheEnd

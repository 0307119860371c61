SPECIFICATION FairSpec
CONSTANTS
  NoFile = NoFile
  Pointer = Pointer
  NoVolume = NoVolume
  MaxTries = 2
  MaxRuns = 2
  MaxBakes = 2
  Trees <- AnyTree
  KeepUps <- Either
  Faults <- EveryFault
INVARIANT TypeOK
INVARIANT GreenIsOfOneBake
INVARIANT NothingLeftBehind
INVARIANT FreshWhenFree
PROPERTY RunEnds
CHECK_DEADLOCK FALSE

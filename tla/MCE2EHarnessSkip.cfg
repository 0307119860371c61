SPECIFICATION Spec
CONSTANTS
  NoFile = NoFile
  Pointer = Pointer
  NoVolume = NoVolume
  MaxTries = 2
  MaxRuns = 1
  MaxBakes = 1
  Trees <- FreshClone
  KeepUps <- NotKept
  Faults <- NoFault
INVARIANT GreenMeansTested
CHECK_DEADLOCK FALSE

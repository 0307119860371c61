SPECIFICATION Spec
CONSTANTS
  Deviations <- EveryWay
  Specs <- MCSpecs
  NoPath = NoPath
  NoDisc = NoDisc
  EntityPrefix <- MCEntityPrefix
  Joined <- MCJoined
  Normalized <- MCNormalized
  ListName <- MCListName
  Excluded <- MCExcluded
  Immutable <- MCImmutable
  SecretProps <- MCSecretProps
  Overrides <- MCOverrides
INVARIANT TypeOK
INVARIANT Lockstep
INVARIANT VerbsAreItsOwn
INVARIANT WireIdentity
INVARIANT SurfaceIsWhole
INVARIANT TablesFitWhatShips

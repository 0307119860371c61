SPECIFICATION Spec
CONSTANTS
  Deviations <- NoWay
  Specs <- MCSpecs
  NoPath = NoPath
  NoDisc = NoDisc
  EntityPrefix <- MCEntityPrefix
  Joined <- MCJoined
  Normalized <- MCNormalized
  ListName <- MCListName
  Excluded <- MCExcluded
  Immutable <- MCImmutable
  SecretProps <- MCSecretProps
  Overrides <- MCOverrides
INVARIANT NoPagingKnobs

SPECIFICATION Spec
CONSTANTS
  Docs <- EveryDoc
  Names <- MCNames
  Sane <- MCSane
  None = None
INVARIANT TypeOK
INVARIANT RefsLeadWhereTheyDid
INVARIANT NoSchemaIsLost
INVARIANT MeaningIsKept
INVARIANT EverySchemaTellsAType
INVARIANT RefusedWithReason
INVARIANT OnlyGivenTitlesClash

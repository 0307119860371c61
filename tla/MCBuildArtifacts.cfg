SPECIFICATION Spec
CONSTANTS
  Fetchers = {f1, f2}
  Docs <- MCDocs
  DocVersion <- MCDocVersion
  Pins <- EveryPin
  Codes <- EveryCode
  MaxEdits = 1
  NoFile = NoFile
  Bad = Bad
SYMMETRY EitherFetch
INVARIANT TypeOK
INVARIANT SpecIsVerified
INVARIANT BinIsOneGeneration
INVARIANT SurfaceIsPinned

SPECIFICATION Spec
CONSTANTS
  Token <- MCToken
  Rank <- MCRank
  Sig = {s1, s2}
  NoSig = NoSig
  Plain = Plain
  Slot = {p}
  Schemas <- MCSchemas
  PinTables <- MCPins
INVARIANT CanonicalIsNoSource

SPECIFICATION Spec
CONSTANTS
  p = p
  q = q
  x = x
  y = y
  a = a
  b = b
  Paths <- MCPaths
  Hashes <- MCHashes
  Offers <- MCOffers
  Savers <- MCSavers
  Stamps <- MCStamps
  MaxAttempts = 2
  StampsCollide = FALSE
INVARIANTS
  TypeOK
  OneGeneration
  AnsweredIsCurrent
PROPERTIES
  ImplementsRegister

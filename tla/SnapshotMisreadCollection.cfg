SPECIFICATION Spec
CONSTANTS
  w1 = w1
  w2 = w2
  r1 = r1
  NoWriter = NoWriter
  Writer <- MCWriter
  Reader <- NoReader
  MaxSequence = 3
  MaxGenerations = 3
  Attempts = 3
  LegacyPair = FALSE
  Budget <- OneMisread
INVARIANT RecoversNewestIntact
SYMMETRY MCWriters

SPECIFICATION Spec
CONSTANTS
  w1 = w1
  w2 = w2
  r1 = r1
  NoWriter = NoWriter
  Writer <- MCWriter
  Reader <- OneReader
  MaxSequence = 4
  MaxGenerations = 4
  Attempts = 3
  LegacyPair = TRUE
  Budget <- OneDeath
PROPERTIES
  LoadIsCurrent
  ImplementsRegister
SYMMETRY MCWriters

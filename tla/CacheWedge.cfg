SPECIFICATION FairSpec
CONSTANTS
  p1 = p1
  p2 = p2
  c1 = c1
  c2 = c2
  c3 = c3
  m1 = m1
  m2 = m2
  m3 = m3
  m4 = m4
  ActiveFile = ActiveFile
  NoPointer = NoPointer
  NoBundle = NoBundle
  NoChunk = NoChunk
  NoPid = NoPid
  Torn = Torn
  Pid <- OnePid
  Chunk <- MCChunk
  Manifest <- MCManifest
  Version <- MCVersion
  Rank <- MCRank
  ChunksOf <- MCChunksOf
  BundleOf <- MCBundleOf
  Size <- MCSize
  Admissible <- MCManifest
  Sound <- MCSound
  Canonical <- MCCanonical
  Release <- MCFirstTwo
  Foreign <- NoForeign
  MaxTotalBytes = 2
  ExpectedBundle = "app"
  PidReuse = TRUE
  MaxFaults = 0
  MaxCrashes = 1
  MaxTroubles = 1
PROPERTY EventuallyCurrent

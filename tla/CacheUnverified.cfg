SPECIFICATION Spec
CONSTANTS
  p1 = p1
  p2 = p2
  c1 = c1
  c2 = c2
  c3 = c3
  m1 = m1
  m2 = m2
  m3 = m3
  m4 = m4
  ActiveFile = ActiveFile
  NoPointer = NoPointer
  NoBundle = NoBundle
  NoChunk = NoChunk
  NoPid = NoPid
  Torn = Torn
  Pid <- MCPid
  Chunk <- MCChunk
  Manifest <- MCManifest
  Version <- MCVersion
  Rank <- MCRank
  ChunksOf <- MCChunksOf
  BundleOf <- MCBundleOf
  Size <- MCSize
  Admissible <- MCManifest
  Sound <- MCSound
  Canonical <- MCCanonical
  Release <- MCRelease
  Foreign <- MCForeign
  MaxTotalBytes = 2
  ExpectedBundle = "app"
  PidReuse = FALSE
  MaxFaults = 1
  MaxCrashes = 1
  MaxTroubles = 2
INVARIANT OnlyVerifiedChunksRemain

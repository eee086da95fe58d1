SPECIFICATION DeliverySpec
CONSTANTS
  k1 = k1
  k2 = k2
  k3 = k3
  r1 = r1
  r2 = r2
  d1 = d1
  a = a
  b = b
  f1 = f1
  f2 = f2
  f3 = f3
  old = old
  new = new
  newer = newer
  o1 = o1
  o2 = o2
  c1 = c1
  c2 = c2
  NoChunk = NoChunk
  NoRelease = NoRelease
  NoCommand = NoCommand
  NoKey = NoKey
  Chunk <- MCChunk
  Release <- MCRelease
  ChunksOf <- MCChunksOf
  Device = {d1}
  MaxPublishes = 3
  MaxStops = 1
  MaxOutages = 1
  MaxRots = 1
  Command = {a, b}
  MaxActive = 3
  Path <- MCPath
  FilesOf <- MCFilesOf
  Clash <- MCClash
  MaxCommands = 3
  Key = {old, new, newer}
  FirstKey = old
  Consumer = {c1, c2}
  Process = {o1, o2}
  MaxKeys = 3
  MaxRevoked = 2
  MaxEdits = 4
  Byte = {0, 1}
  Gear <- MCGear
  Width = 4
  StrictMask = {1, 3}
  LooseMask = {3}
  MinSize = 1
  AvgSize = 2
  MaxSize = 4
  MaxLength = 5
  Version = {1, 2}
INVARIANTS
  DeliveryTypeOK
  LatestComplete
  DevicesServed
  PublishHeals
  NeverBackward
  RevocationSticks
  RevokedRefused
  NoFlagDay
  ChunksTile
  EditIsLocal
PROPERTY DoneShowsActive
SYMMETRY MCSymmetry
CHECK_DEADLOCK FALSE

SPECIFICATION TwinsSpec
CONSTANTS
  Jobs = {j1, j2}
  Dirs = {d1, d2}
  Stub = Stub
  None = None
  MaxFrames = 2
  SplatBin = TRUE
  Gsplat = FALSE
  SuiKey = TRUE
  Nostr = TRUE
  Twins <- MCTwins
  NoTwin = NoTwin
  NoFile = NoFile
  Empty = Empty
  Torn = Torn
  DiskFaults = FALSE
  BlockingPanics = FALSE
  Coords <- SomeCoords
  Unreadable = Unreadable
  Blobs <- SomeBlobs
  Grids = {0, 2, 3}
  MaxPoints = 6
INVARIANTS
  
  SplatStaysOnDevice
  MintIsEarned
  RecordTellsAnchor
PROPERTIES
  PipelinesAreCaptures
SYMMETRY Symmetry

SPECIFICATION Spec
CONSTANTS
  Process = {p1, p2}
  FsId = {"tmpfs", "disk", "usb"}
  RootFs = "tmpfs"
  Volumes = {"disk"}
  Paths <- MCPaths
  Contents <- MCContents
  MaxFd = 4
  MaxIno = 3
  MaxLen = 2
INVARIANTS
  FdsArePrivate
  PositionsInFile
  TreeIsSound
  LongestMountWins
PROPERTIES
  OthersStayPut
  WritesAtPosition
  EntriesStay
SYMMETRY MCSymmetry

\* Records of 3 cells in a sector of 16, as the sector of 65536 bytes is no
\* multiple of the 14-byte configuration or of the 1002-byte schedules record:
\* places straddle pages and blocks and the sector ends with unused cells.
CONSTANTS
  SectorSize = 16
  BlockSize = 8
  PageSize = 2
  RecordSize = 3
  Erased = Erased
  Records = {r1, r2}
  Default = Default
SPECIFICATION Spec
INVARIANTS FlushedIsRead NeverRefused
PROPERTY ImplementsRegister

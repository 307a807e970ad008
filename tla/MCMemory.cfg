\* Two processes, tables of two entries.
SPECIFICATION Spec
CONSTANTS
  Procs = {p1, p2}
  First = p1
  Entries = 2
  NTables = 3
  NFrames = 7
  ByteBits = 4
  Image <- Text
  NRegions = 4
  NShms = 1
  Requests <- Mappings
  ShmSizes = {2}
  Scarce = {1}
  MaxForgotten = 1
  None = None
INVARIANTS
  CountsExact
  FramesAccounted
  SpacesSound
PROPERTIES
  UnmapsItsOwn
CHECK_DEADLOCK FALSE

\* Two processes and two slots in a block; two bytes in a block and files of two blocks.
SPECIFICATION Spec
CONSTANTS
  Procs = {p, q}
  Names = {m, n}
  Dents <- TwoEach
  MaxEntries = 4
  BlockBytes <- TwoEach
  Bytes = {0, 1}
  Zero = 0
  MaxSize = 4
  None = None
INVARIANTS
  DirectoryExact
  BlocksFit
PROPERTIES
  ReadsWhatWasWritten
CHECK_DEADLOCK FALSE

\* Two processes, a file and an inode without name, two slots in a block.
SPECIFICATION Spec
CONSTANTS
  Procs = {p1, p2}
  First = p1
  RPB = 2
  Inodes = {f, i}
  Files = {f}
  MaxOpens = 3
  MaxForgotten = 1
  Null = Null
  NoInode = NoInode
SYMMETRY ResourceSymmetry
INVARIANTS
  CountExact
  LeaksExplained
PROPERTIES
  AddedIsFound
  PanicExplained
CHECK_DEADLOCK FALSE

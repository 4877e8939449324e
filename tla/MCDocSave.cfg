SPECIFICATION Spec
CONSTANTS
  Writer = {put1, put2, job}
  Locked = {put1, put2}
  Reader = {r1}
  long = long
  short = short
  Version <- MCVersion
  Size <- MCSize
  Inode = {i1, i2, i3, i4, i5}
  NoInode = NoInode
  NoWriter = NoWriter
  Empty = Empty
  Torn = Torn
SYMMETRY InodeSymmetry
INVARIANTS
  FileIsWhole
PROPERTIES
  ReadIsSnapshot
  SaveIsHonest

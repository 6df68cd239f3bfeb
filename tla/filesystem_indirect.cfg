CONSTANTS
  Files = {f1, f2}
  NBLOCKS = 4
  NDIRECT = 1
  NINDIRECT = 2
  MaxSize = 3
  Words = {0, 1}
  NoFile = NoFile
SYMMETRY MCSymmetry
SPECIFICATION Spec
INVARIANTS
  NoBlockTwice

CONSTANTS
  Files = {f1, f2}
  NBLOCKS = 2
  NDIRECT = 2
  NINDIRECT = 1
  MaxSize = 2
  Words = {0, 9}
  NoFile = NoFile
SYMMETRY MCSymmetry
SPECIFICATION Spec
INVARIANTS
  TypeOK
  FilesAreDisjoint
  CrashSafe
  FlushIsDurable

CONSTANTS
  Slots = {e1, e2}
  Pages <- MCPages
  VAs <- MCVAs
  NPD = 2
  NPT = 2
  LastPDPE = 1
  UTOP_PDX = 1
  REFS = 8
  MaxRefs = 4
  NoPage = NoPage
SPECIFICATION Spec
VIEW MCView
CHECK_DEADLOCK FALSE
INVARIANTS
  TypeOK
  RefsCounted
  TablesArePrivate
PROPERTIES
  ReadOnlyStays
  LossesAreKnown

CONSTANTS
  NENV = 2
  NCPU = 2
  NBOOT = 2
  GENERATIONS = 2
  MaxAllocs = 2
  Users = "any"
SPECIFICATION Spec
CHECK_DEADLOCK FALSE
INVARIANTS
  TypeOK
  LockHolder
  FreeListIntegrity

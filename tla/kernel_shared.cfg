CONSTANTS
  NENV = 2
  NCPU = 2
  NBOOT = 2
  GENERATIONS = 3
  MaxAllocs = 1
  Users = "documented"
SPECIFICATION Spec
CHECK_DEADLOCK FALSE
INVARIANTS
  NoSharedEnv

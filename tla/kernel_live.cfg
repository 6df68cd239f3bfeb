CONSTANTS
  NENV = 3
  NCPU = 2
  NBOOT = 1
  GENERATIONS = 3
  MaxAllocs = 1
  Users = "library"
SPECIFICATION FairSpec
CHECK_DEADLOCK FALSE
PROPERTIES
  RunnableRuns
  ZombieReaped

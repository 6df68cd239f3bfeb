CONSTANTS
  NENV = 3
  NCPU = 2
  NBOOT = 2
  GENERATIONS = 3
  MaxAllocs = 2
  Users = "library"
SPECIFICATION Spec
CHECK_DEADLOCK FALSE
INVARIANTS
  NoSharedEnv
  RunningIsCurrent
  UserAddressSpace
  NoPanic
  GiveUpOnlyWhenIdle
  ReceiverIsBlocked
  ParentIsCreator
PROPERTIES
  ZombieStaysUntilItTraps

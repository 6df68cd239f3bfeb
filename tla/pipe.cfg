CONSTANTS
  Envs = {e1, e2}
  Parent = e1
  Reader = e2
  Writer = e1
  MAXFD = 2
  PIPEBUFSIZ = 1
  NCPU = 1
  Children = "fork"
  MaxRequest = 2
  MaxBytes = 2
  None = None
SPECIFICATION FairSpec
CHECK_DEADLOCK FALSE
INVARIANTS
  TypeOK
  InOrder
  EofOnlyWhenClosed
PROPERTIES
  NobodyWaitsForNobody

CONSTANTS
  CPUs = {c1, c2, c3}
  NULL = NULL
SPECIFICATION FairSpec
INVARIANTS
  NoFalsePanic
PROPERTIES
  Implements
  SomeoneEnters

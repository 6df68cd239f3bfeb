CONSTANTS
  Envs = {e1, e2, e3}
  Boot = e1
  Text = {}
  Data = {6, 34}
  Shared = {28}
  Stack = 34
  UTEXT = 4
  NPT = 3
  Values = {0, 1}
  NPAGES = 6
  None = None
SPECIFICATION Spec
VIEW MCView
CHECK_DEADLOCK FALSE
INVARIANTS
  TypeOK
  WritableIsPrivate
PROPERTIES
  Implements

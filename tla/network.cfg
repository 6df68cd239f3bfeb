CONSTANTS
  NUM_TX_DESC = 2
  NUM_RX_DESC = 2
  QUEUE_SIZE = 3
  Callers = {timer, client, stranger}
  Timer = timer
  Stranger = stranger
  MaxIn = 2
  MaxOut = 2
  MaxCalls = 2
  MaxStrays = 1
  Nothing = Nothing
  NoPage = NoPage
SPECIFICATION FairSpec
CHECK_DEADLOCK FALSE
INVARIANTS
  TypeOK
  InOrder
  BufferOwners
PROPERTIES
  PacketsArrive

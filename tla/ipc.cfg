CONSTANTS
  Slots = {s1, s2}
  Senders = {s1, s2}
  Receivers = {s1, s2}
  Values = {v1}
  Offers <- MCAllOffers
  Wishes <- MCWishes
  UTOP = 2
  MaxGen = 2
  NoPage = NoPage
  Idle = Idle
  Waiting = Waiting
  None = None
SPECIFICATION FairSpec
CHECK_DEADLOCK FALSE
INVARIANTS
  TypeOK
PROPERTIES
  NoRightsGained
  Implements
  ReceiverWoken

CONSTANTS
  FifoSize = 4
  Items = {a, b}
  NoItem = NoItem

SPECIFICATION FairSpec

INVARIANTS
  TypeOK
  Exclusive

PROPERTIES
  IsBoundedFifo
  EventuallyTaken
